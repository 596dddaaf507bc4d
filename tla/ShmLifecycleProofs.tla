--------------------------- MODULE ShmLifecycleProofs ---------------------------
(***************************************************************************)
(* Proofs about ShmLifecycle for every number of producers and consumers   *)
(* and every world.                                                        *)
(*                                                                         *)
(* A consumer may keep its slot because whoever wants to overwrite it has  *)
(* seen its holder dead, and a program that has ended never runs again.    *)
(* The name stays with the running producer because, when only one         *)
(* producer starts or stops at a time, whoever is past its checks has seen *)
(* that nobody runs, and nobody can have come to run since.                *)
(***************************************************************************)
EXTENDS ShmLifecycle, TLAPS

-----------------------------------------------------------------------------
(* The inductive invariant.                                                 *)

ProducerLabels ==
  {"new", "stat", "ready", "alive", "unlink", "create", "size", "map", "unmap", "undo", "init",
   "publish", "running", "finished", "refused", "exited", "crashed", "reused"}

ConsumerLabels ==
  {"polling", "stat", "ready", "alive", "expect", "cas", "attached", "paused", "refused", "exited",
   "crashed", "reused"}

Control ==
  [sized : BOOLEAN, state : {"Initializing", "Ready", "ProducerFinished"},
   producer : Producers \cup {None}, consumer : Consumers \cup {None}]

TypeInv ==
  /\ world \in Worlds
  /\ name \in Producers \cup {None}
  /\ ring \in [Producers -> Control]
  /\ pc \in [Processes -> ProducerLabels \cup ConsumerLabels]
  /\ \A p \in Producers : pc[p] \in ProducerLabels
  /\ \A c \in Consumers : pc[c] \in ConsumerLabels
  /\ mapped \in [Processes -> Producers \cup {None}]
  /\ expected \in [Consumers -> Consumers \cup {None}]

\* A name is bound to an object whose producer created it and has not unlinked it.
NameOwned ==
  name # None => pc[name] \in {"size", "map", "unmap", "undo", "init", "publish", "running",
                               "finished", "crashed", "reused"}

\* How far its producer has come with the control block.
RingPhases ==
  \A p \in Producers :
    /\ ring[p].state # "Initializing" =>
         /\ pc[p] \in {"running", "finished", "exited", "crashed", "reused"}
         /\ ring[p].sized
         /\ ring[p].producer = p
    /\ pc[p] \in {"map", "init", "publish"} => ring[p].sized
    /\ pc[p] = "publish" => ring[p].producer = p
    /\ pc[p] = "running" => ring[p].state = "Ready"

\* What a process has seen of the object it has mapped remains true.
MappedRings ==
  \A x \in Processes :
    /\ pc[x] \in {"stat", "ready", "alive", "expect", "cas", "attached", "paused"} => mapped[x] \in Producers
    /\ pc[x] \in {"alive", "expect", "cas", "attached", "paused"} => ring[mapped[x]].state # "Initializing"

\* The slot of an attached consumer is its own, and the compare-exchange of any
\* other one expects nobody or somebody who will never run again.
SlotInv ==
  \A c \in Consumers :
    /\ Attached(c) => ring[mapped[c]].consumer = c
    /\ pc[c] = "cas" => expected[c] \in {None, c} \/ ~ Runs(expected[c])

\* A producer in the middle of its start or of its end.
Busy(p) == Starting(p) \/ pc[p] = "finished"

OneAtATime ==
  Orderly =>
    /\ \A x \in Processes : pc[x] # "reused"
    /\ \A p, q \in Producers : Busy(p) /\ Busy(q) => p = q

\* In an orderly world: where the name points while a producer starts, and that
\* nobody runs once it has decided to replace what it found.
NameInv ==
  Orderly =>
    \A p \in Producers :
      /\ pc[p] = "running" => name = p
      /\ pc[p] \in {"stat", "ready", "alive"} => name = mapped[p]
      /\ pc[p] = "create" => name = None
      /\ pc[p] \in {"size", "map", "init", "publish"} => name = p
      /\ Busy(p) /\ pc[p] \notin {"stat", "ready", "alive"} => \A q \in Producers : pc[q] # "running"

LifecycleInv ==
  TypeInv /\ NameOwned /\ RingPhases /\ MappedRings /\ SlotInv /\ OneAtATime /\ NameInv

LEMMA InitLifecycleInv == Init => LifecycleInv
<1> SUFFICES ASSUME Init PROVE LifecycleInv
  OBVIOUS
<1>1. TypeInv
  BY LifecycleAssumption DEF Init, TypeInv, Control, Unsized, ProducerLabels, ConsumerLabels, Processes
<1>2. NameOwned /\ RingPhases /\ MappedRings /\ SlotInv
  BY LifecycleAssumption DEF Init, NameOwned, RingPhases, MappedRings, SlotInv, Attached, Unsized, Processes
<1>3. OneAtATime /\ NameInv
  BY LifecycleAssumption DEF Init, OneAtATime, NameInv, Busy, Starting, Runs, Processes
<1> QED
  BY <1>1, <1>2, <1>3 DEF LifecycleInv

-----------------------------------------------------------------------------
(* Every step keeps it.                                                     *)

\* The producer opens the name.
LEMMA StartInv ==
  ASSUME LifecycleInv, NEW p \in Producers, Start(p), UNCHANGED world
  PROVE  LifecycleInv'
<1> USE LifecycleAssumption DEF LifecycleInv, Start, MayStart, OpenName, Goto
<1>1. TypeInv'
  BY DEF TypeInv, Control, ProducerLabels, ConsumerLabels, Processes
<1>2. NameOwned'
  BY DEF TypeInv, NameOwned, ProducerLabels, ConsumerLabels, Processes
<1>3. RingPhases'
  BY DEF TypeInv, Control, RingPhases, Processes
<1>4. MappedRings'
  BY DEF TypeInv, Control, RingPhases, MappedRings, Processes
<1>5. SlotInv'
  BY DEF TypeInv, Control, RingPhases, MappedRings, SlotInv, Attached, Runs, Processes, ConsumerLabels
<1>6. OneAtATime'
  BY DEF TypeInv, OneAtATime, Orderly, Busy, Starting, Runs, Processes
<1>7. NameInv'
  BY DEF TypeInv, RingPhases, MappedRings, OneAtATime, NameInv, Orderly, Busy, Starting, Runs, Processes
<1> QED
  BY <1>1, <1>2, <1>3, <1>4, <1>5, <1>6, <1>7

\* fstat() of a producer.
LEMMA ProducerStatInv ==
  ASSUME LifecycleInv, NEW p \in Producers, Stat(p, "unlink"), UNCHANGED world
  PROVE  LifecycleInv'
<1> USE LifecycleAssumption DEF LifecycleInv, Stat, Goto
<1>1. TypeInv'
  BY DEF TypeInv, Control, ProducerLabels, ConsumerLabels, Processes
<1>2. NameOwned'
  BY DEF TypeInv, NameOwned, ProducerLabels, ConsumerLabels, Processes
<1>3. RingPhases'
  BY DEF TypeInv, Control, RingPhases, Processes
<1>4. MappedRings'
  BY DEF TypeInv, Control, RingPhases, MappedRings, Processes
<1>5. SlotInv'
  BY DEF TypeInv, Control, RingPhases, MappedRings, SlotInv, Attached, Runs, Processes, ConsumerLabels
<1>6. OneAtATime'
  BY DEF TypeInv, OneAtATime, Orderly, Busy, Starting, Runs, Processes
<1>7. NameInv'
  BY DEF TypeInv, RingPhases, MappedRings, OneAtATime, NameInv, Orderly, Busy, Starting, Runs, Processes
<1> QED
  BY <1>1, <1>2, <1>3, <1>4, <1>5, <1>6, <1>7

\* ring_control_ready() of a producer.
LEMMA ProducerReadyInv ==
  ASSUME LifecycleInv, NEW p \in Producers, CheckReady(p, "unlink"), UNCHANGED world
  PROVE  LifecycleInv'
<1> USE LifecycleAssumption DEF LifecycleInv, CheckReady, Goto
<1>1. TypeInv'
  BY DEF TypeInv, Control, ProducerLabels, ConsumerLabels, Processes
<1>2. NameOwned'
  BY DEF TypeInv, NameOwned, ProducerLabels, ConsumerLabels, Processes
<1>3. RingPhases'
  BY DEF TypeInv, Control, RingPhases, Processes
<1>4. MappedRings'
  BY DEF TypeInv, Control, RingPhases, MappedRings, Processes
<1>5. SlotInv'
  BY DEF TypeInv, Control, RingPhases, MappedRings, SlotInv, Attached, Runs, Processes, ConsumerLabels
<1>6. OneAtATime'
  BY DEF TypeInv, OneAtATime, Orderly, Busy, Starting, Runs, Processes
<1>7. NameInv'
  BY DEF TypeInv, RingPhases, MappedRings, OneAtATime, NameInv, Orderly, Busy, Starting, Runs, Processes
<1> QED
  BY <1>1, <1>2, <1>3, <1>4, <1>5, <1>6, <1>7

\* process_alive() of the producer found.
LEMMA CheckProducerInv ==
  ASSUME LifecycleInv, NEW p \in Producers, CheckProducer(p), UNCHANGED world
  PROVE  LifecycleInv'
<1> USE LifecycleAssumption DEF LifecycleInv, CheckProducer, Goto, Alive
<1>1. TypeInv'
  BY DEF TypeInv, Control, ProducerLabels, ConsumerLabels, Processes
<1>2. NameOwned'
  BY DEF TypeInv, NameOwned, ProducerLabels, ConsumerLabels, Processes
<1>3. RingPhases'
  BY DEF TypeInv, Control, RingPhases, Processes
<1>4. MappedRings'
  BY DEF TypeInv, Control, RingPhases, MappedRings, Processes
<1>5. SlotInv'
  BY DEF TypeInv, Control, RingPhases, MappedRings, SlotInv, Attached, Runs, Processes, ConsumerLabels
<1>6. OneAtATime'
  BY DEF TypeInv, OneAtATime, Orderly, Busy, Starting, Runs, Processes
<1>7. NameInv'
  BY DEF TypeInv, RingPhases, MappedRings, OneAtATime, NameInv, Orderly, Busy, Starting, Runs, Processes
<1> QED
  BY <1>1, <1>2, <1>3, <1>4, <1>5, <1>6, <1>7

\* The leftover is unlinked.
LEMMA UnlinkStaleInv ==
  ASSUME LifecycleInv, NEW p \in Producers, UnlinkStale(p), UNCHANGED world
  PROVE  LifecycleInv'
<1> USE LifecycleAssumption DEF LifecycleInv, UnlinkStale, Goto
<1>1. TypeInv'
  BY DEF TypeInv, Control, ProducerLabels, ConsumerLabels, Processes
<1>2. NameOwned'
  BY DEF TypeInv, NameOwned, ProducerLabels, ConsumerLabels, Processes
<1>3. RingPhases'
  BY DEF TypeInv, Control, RingPhases, Processes
<1>4. MappedRings'
  BY DEF TypeInv, Control, RingPhases, MappedRings, Processes
<1>5. SlotInv'
  BY DEF TypeInv, Control, RingPhases, MappedRings, SlotInv, Attached, Runs, Processes, ConsumerLabels
<1>6. OneAtATime'
  BY DEF TypeInv, OneAtATime, Orderly, Busy, Starting, Runs, Processes
<1>7. NameInv'
  BY DEF TypeInv, RingPhases, MappedRings, OneAtATime, NameInv, Orderly, Busy, Starting, Runs, Processes
<1> QED
  BY <1>1, <1>2, <1>3, <1>4, <1>5, <1>6, <1>7

\* shm_open() with O_EXCL.
LEMMA CreateInv ==
  ASSUME LifecycleInv, NEW p \in Producers, Create(p), UNCHANGED world
  PROVE  LifecycleInv'
<1> USE LifecycleAssumption DEF LifecycleInv, Create, Goto
<1>1. TypeInv'
  BY DEF TypeInv, Control, ProducerLabels, ConsumerLabels, Processes
<1>2. NameOwned'
  BY DEF TypeInv, NameOwned, ProducerLabels, ConsumerLabels, Processes
<1>3. RingPhases'
  BY DEF TypeInv, Control, RingPhases, Processes
<1>4. MappedRings'
  BY DEF TypeInv, Control, RingPhases, MappedRings, Processes
<1>5. SlotInv'
  BY DEF TypeInv, Control, RingPhases, MappedRings, SlotInv, Attached, Runs, Processes, ConsumerLabels
<1>6. OneAtATime'
  BY DEF TypeInv, OneAtATime, Orderly, Busy, Starting, Runs, Processes
<1>7. NameInv'
  BY DEF TypeInv, RingPhases, MappedRings, OneAtATime, NameInv, Orderly, Busy, Starting, Runs, Processes
<1> QED
  BY <1>1, <1>2, <1>3, <1>4, <1>5, <1>6, <1>7

\* ftruncate().
LEMMA SizeInv ==
  ASSUME LifecycleInv, NEW p \in Producers, Size(p), UNCHANGED world
  PROVE  LifecycleInv'
<1> USE LifecycleAssumption DEF LifecycleInv, Size, Goto
<1>1. TypeInv'
  BY DEF TypeInv, Control, ProducerLabels, ConsumerLabels, Processes
<1>2. NameOwned'
  BY DEF TypeInv, NameOwned, ProducerLabels, ConsumerLabels, Processes
<1>3. RingPhases'
  BY DEF TypeInv, Control, RingPhases, Processes
<1>4. MappedRings'
  BY DEF TypeInv, Control, RingPhases, MappedRings, Processes
<1>5. SlotInv'
  BY DEF TypeInv, Control, RingPhases, MappedRings, SlotInv, Attached, Runs, Processes, ConsumerLabels
<1>6. OneAtATime'
  BY DEF TypeInv, OneAtATime, Orderly, Busy, Starting, Runs, Processes
<1>7. NameInv'
  BY DEF TypeInv, RingPhases, MappedRings, OneAtATime, NameInv, Orderly, Busy, Starting, Runs, Processes
<1> QED
  BY <1>1, <1>2, <1>3, <1>4, <1>5, <1>6, <1>7

\* mmap().
LEMMA MapInv ==
  ASSUME LifecycleInv, NEW p \in Producers, Map(p), UNCHANGED world
  PROVE  LifecycleInv'
<1> USE LifecycleAssumption DEF LifecycleInv, Map, Goto
<1>1. TypeInv'
  BY DEF TypeInv, Control, ProducerLabels, ConsumerLabels, Processes
<1>2. NameOwned'
  BY DEF TypeInv, NameOwned, ProducerLabels, ConsumerLabels, Processes
<1>3. RingPhases'
  BY DEF TypeInv, Control, RingPhases, Processes
<1>4. MappedRings'
  BY DEF TypeInv, Control, RingPhases, MappedRings, Processes
<1>5. SlotInv'
  BY DEF TypeInv, Control, RingPhases, MappedRings, SlotInv, Attached, Runs, Processes, ConsumerLabels
<1>6. OneAtATime'
  BY DEF TypeInv, OneAtATime, Orderly, Busy, Starting, Runs, Processes
<1>7. NameInv'
  BY DEF TypeInv, RingPhases, MappedRings, OneAtATime, NameInv, Orderly, Busy, Starting, Runs, Processes
<1> QED
  BY <1>1, <1>2, <1>3, <1>4, <1>5, <1>6, <1>7

\* The error paths of create().
LEMMA UndoInv ==
  ASSUME LifecycleInv, NEW p \in Producers, Undo(p), UNCHANGED world
  PROVE  LifecycleInv'
<1> USE LifecycleAssumption DEF LifecycleInv, Undo, Goto
<1>1. TypeInv'
  BY DEF TypeInv, Control, ProducerLabels, ConsumerLabels, Processes
<1>2. NameOwned'
  BY DEF TypeInv, NameOwned, ProducerLabels, ConsumerLabels, Processes
<1>3. RingPhases'
  BY DEF TypeInv, Control, RingPhases, Processes
<1>4. MappedRings'
  BY DEF TypeInv, Control, RingPhases, MappedRings, Processes
<1>5. SlotInv'
  BY DEF TypeInv, Control, RingPhases, MappedRings, SlotInv, Attached, Runs, Processes, ConsumerLabels
<1>6. OneAtATime'
  BY DEF TypeInv, OneAtATime, Orderly, Busy, Starting, Runs, Processes
<1>7. NameInv'
  BY DEF TypeInv, RingPhases, MappedRings, OneAtATime, NameInv, Orderly, Busy, Starting, Runs, Processes
<1> QED
  BY <1>1, <1>2, <1>3, <1>4, <1>5, <1>6, <1>7

\* initialize_ring_control() up to the store of state.
LEMMA InitControlInv ==
  ASSUME LifecycleInv, NEW p \in Producers, InitControl(p), UNCHANGED world
  PROVE  LifecycleInv'
<1> USE LifecycleAssumption DEF LifecycleInv, InitControl, Goto
<1>1. TypeInv'
  <2>1. ring' \in [Producers -> Control]
    BY DEF TypeInv, Control
  <2> QED
    BY <2>1 DEF TypeInv, ProducerLabels, ConsumerLabels, Processes
<1>2. NameOwned'
  BY DEF TypeInv, NameOwned, ProducerLabels, ConsumerLabels, Processes
<1>3. RingPhases'
  BY DEF TypeInv, Control, RingPhases, Processes
<1>4. MappedRings'
  BY DEF TypeInv, Control, RingPhases, MappedRings, Processes
<1>5. SlotInv'
  BY DEF TypeInv, Control, RingPhases, MappedRings, SlotInv, Attached, Runs, Processes, ConsumerLabels
<1>6. OneAtATime'
  BY DEF TypeInv, OneAtATime, Orderly, Busy, Starting, Runs, Processes
<1>7. NameInv'
  BY DEF TypeInv, RingPhases, MappedRings, OneAtATime, NameInv, Orderly, Busy, Starting, Runs, Processes
<1> QED
  BY <1>1, <1>2, <1>3, <1>4, <1>5, <1>6, <1>7

\* The store of state.
LEMMA PublishInv ==
  ASSUME LifecycleInv, NEW p \in Producers, Publish(p), UNCHANGED world
  PROVE  LifecycleInv'
<1> USE LifecycleAssumption DEF LifecycleInv, Publish, Goto
<1>1. TypeInv'
  BY DEF TypeInv, Control, ProducerLabels, ConsumerLabels, Processes
<1>2. NameOwned'
  BY DEF TypeInv, NameOwned, ProducerLabels, ConsumerLabels, Processes
<1>3. RingPhases'
  BY DEF TypeInv, Control, RingPhases, Processes
<1>4. MappedRings'
  BY DEF TypeInv, Control, RingPhases, MappedRings, Processes
<1>5. SlotInv'
  BY DEF TypeInv, Control, RingPhases, MappedRings, SlotInv, Attached, Runs, Processes, ConsumerLabels
<1>6. OneAtATime'
  BY DEF TypeInv, OneAtATime, Orderly, Busy, Starting, Runs, Processes
<1>7. NameInv'
  BY DEF TypeInv, RingPhases, MappedRings, OneAtATime, NameInv, Orderly, Busy, Starting, Runs, Processes
<1> QED
  BY <1>1, <1>2, <1>3, <1>4, <1>5, <1>6, <1>7

\* ~ShmPacketSink(), first half.
LEMMA FinishInv ==
  ASSUME LifecycleInv, NEW p \in Producers, Finish(p), UNCHANGED world
  PROVE  LifecycleInv'
<1> USE LifecycleAssumption DEF LifecycleInv, Finish, MayStop, Goto
<1>1. TypeInv'
  BY DEF TypeInv, Control, ProducerLabels, ConsumerLabels, Processes
<1>2. NameOwned'
  BY DEF TypeInv, NameOwned, ProducerLabels, ConsumerLabels, Processes
<1>3. RingPhases'
  BY DEF TypeInv, Control, RingPhases, Processes
<1>4. MappedRings'
  BY DEF TypeInv, Control, RingPhases, MappedRings, Processes
<1>5. SlotInv'
  BY DEF TypeInv, Control, RingPhases, MappedRings, SlotInv, Attached, Runs, Processes, ConsumerLabels
<1>6. OneAtATime'
  BY DEF TypeInv, OneAtATime, Orderly, Busy, Starting, Runs, Processes
<1>7. NameInv'
  BY DEF TypeInv, RingPhases, MappedRings, OneAtATime, NameInv, Orderly, Busy, Starting, Runs, Processes
<1> QED
  BY <1>1, <1>2, <1>3, <1>4, <1>5, <1>6, <1>7

\* ~ShmPacketSink(), second half.
LEMMA UnlinkOwnInv ==
  ASSUME LifecycleInv, NEW p \in Producers, UnlinkOwn(p), UNCHANGED world
  PROVE  LifecycleInv'
<1> USE LifecycleAssumption DEF LifecycleInv, UnlinkOwn, Goto
<1>1. TypeInv'
  BY DEF TypeInv, Control, ProducerLabels, ConsumerLabels, Processes
<1>2. NameOwned'
  BY DEF TypeInv, NameOwned, ProducerLabels, ConsumerLabels, Processes
<1>3. RingPhases'
  BY DEF TypeInv, Control, RingPhases, Processes
<1>4. MappedRings'
  BY DEF TypeInv, Control, RingPhases, MappedRings, Processes
<1>5. SlotInv'
  BY DEF TypeInv, Control, RingPhases, MappedRings, SlotInv, Attached, Runs, Processes, ConsumerLabels
<1>6. OneAtATime'
  BY DEF TypeInv, OneAtATime, Orderly, Busy, Starting, Runs, Processes
<1>7. NameInv'
  BY DEF TypeInv, RingPhases, MappedRings, OneAtATime, NameInv, Orderly, Busy, Starting, Runs, Processes
<1> QED
  BY <1>1, <1>2, <1>3, <1>4, <1>5, <1>6, <1>7

\* A system call of the producer fails.
LEMMA ProducerFaultInv ==
  ASSUME LifecycleInv, NEW p \in Producers, ProducerFault(p), UNCHANGED world
  PROVE  LifecycleInv'
<1> USE LifecycleAssumption DEF LifecycleInv, ProducerFault, OpenFails, CreateFails, Goto
<1>1. TypeInv'
  BY DEF TypeInv, Control, ProducerLabels, ConsumerLabels, Processes
<1>2. NameOwned'
  BY DEF TypeInv, NameOwned, ProducerLabels, ConsumerLabels, Processes
<1>3. RingPhases'
  BY DEF TypeInv, Control, RingPhases, Processes
<1>4. MappedRings'
  BY DEF TypeInv, Control, RingPhases, MappedRings, Processes
<1>5. SlotInv'
  BY DEF TypeInv, Control, RingPhases, MappedRings, SlotInv, Attached, Runs, Processes, ConsumerLabels
<1>6. OneAtATime'
  BY DEF TypeInv, OneAtATime, Orderly, Busy, Starting, Runs, Processes
<1>7. NameInv'
  BY DEF TypeInv, RingPhases, MappedRings, OneAtATime, NameInv, Orderly, Busy, Starting, Runs, Processes
<1> QED
  BY <1>1, <1>2, <1>3, <1>4, <1>5, <1>6, <1>7

\* The consumer opens the name.
LEMMA PollInv ==
  ASSUME LifecycleInv, NEW c \in Consumers, Poll(c), UNCHANGED world
  PROVE  LifecycleInv'
<1> USE LifecycleAssumption DEF LifecycleInv, Poll, OpenName, Goto
<1>1. TypeInv'
  BY DEF TypeInv, Control, ProducerLabels, ConsumerLabels, Processes
<1>2. NameOwned'
  BY DEF TypeInv, NameOwned, ProducerLabels, ConsumerLabels, Processes
<1>3. RingPhases'
  BY DEF TypeInv, Control, RingPhases, Processes
<1>4. MappedRings'
  BY DEF TypeInv, Control, RingPhases, MappedRings, Processes
<1>5. SlotInv'
  BY DEF TypeInv, Control, RingPhases, MappedRings, SlotInv, Attached, Runs, Processes, ConsumerLabels
<1>6. OneAtATime'
  BY DEF TypeInv, OneAtATime, Orderly, Busy, Starting, Runs, Processes
<1>7. NameInv'
  BY DEF TypeInv, RingPhases, MappedRings, OneAtATime, NameInv, Orderly, Busy, Starting, Runs, Processes
<1> QED
  BY <1>1, <1>2, <1>3, <1>4, <1>5, <1>6, <1>7

\* fstat() of a consumer.
LEMMA ConsumerStatInv ==
  ASSUME LifecycleInv, NEW c \in Consumers, Stat(c, "polling"), UNCHANGED world
  PROVE  LifecycleInv'
<1> USE LifecycleAssumption DEF LifecycleInv, Stat, Goto
<1>1. TypeInv'
  BY DEF TypeInv, Control, ProducerLabels, ConsumerLabels, Processes
<1>2. NameOwned'
  BY DEF TypeInv, NameOwned, ProducerLabels, ConsumerLabels, Processes
<1>3. RingPhases'
  BY DEF TypeInv, Control, RingPhases, Processes
<1>4. MappedRings'
  BY DEF TypeInv, Control, RingPhases, MappedRings, Processes
<1>5. SlotInv'
  BY DEF TypeInv, Control, RingPhases, MappedRings, SlotInv, Attached, Runs, Processes, ConsumerLabels
<1>6. OneAtATime'
  BY DEF TypeInv, OneAtATime, Orderly, Busy, Starting, Runs, Processes
<1>7. NameInv'
  BY DEF TypeInv, RingPhases, MappedRings, OneAtATime, NameInv, Orderly, Busy, Starting, Runs, Processes
<1> QED
  BY <1>1, <1>2, <1>3, <1>4, <1>5, <1>6, <1>7

\* ring_control_ready() of a consumer.
LEMMA ConsumerReadyInv ==
  ASSUME LifecycleInv, NEW c \in Consumers, CheckReady(c, "polling"), UNCHANGED world
  PROVE  LifecycleInv'
<1> USE LifecycleAssumption DEF LifecycleInv, CheckReady, Goto
<1>1. TypeInv'
  BY DEF TypeInv, Control, ProducerLabels, ConsumerLabels, Processes
<1>2. NameOwned'
  BY DEF TypeInv, NameOwned, ProducerLabels, ConsumerLabels, Processes
<1>3. RingPhases'
  BY DEF TypeInv, Control, RingPhases, Processes
<1>4. MappedRings'
  BY DEF TypeInv, Control, RingPhases, MappedRings, Processes
<1>5. SlotInv'
  BY DEF TypeInv, Control, RingPhases, MappedRings, SlotInv, Attached, Runs, Processes, ConsumerLabels
<1>6. OneAtATime'
  BY DEF TypeInv, OneAtATime, Orderly, Busy, Starting, Runs, Processes
<1>7. NameInv'
  BY DEF TypeInv, RingPhases, MappedRings, OneAtATime, NameInv, Orderly, Busy, Starting, Runs, Processes
<1> QED
  BY <1>1, <1>2, <1>3, <1>4, <1>5, <1>6, <1>7

\* process_alive() of the ring's producer.
LEMMA CheckPeerInv ==
  ASSUME LifecycleInv, NEW c \in Consumers, CheckPeer(c), UNCHANGED world
  PROVE  LifecycleInv'
<1> USE LifecycleAssumption DEF LifecycleInv, CheckPeer, Goto, Alive
<1>1. TypeInv'
  BY DEF TypeInv, Control, ProducerLabels, ConsumerLabels, Processes
<1>2. NameOwned'
  BY DEF TypeInv, NameOwned, ProducerLabels, ConsumerLabels, Processes
<1>3. RingPhases'
  BY DEF TypeInv, Control, RingPhases, Processes
<1>4. MappedRings'
  BY DEF TypeInv, Control, RingPhases, MappedRings, Processes
<1>5. SlotInv'
  BY DEF TypeInv, Control, RingPhases, MappedRings, SlotInv, Attached, Runs, Processes, ConsumerLabels
<1>6. OneAtATime'
  BY DEF TypeInv, OneAtATime, Orderly, Busy, Starting, Runs, Processes
<1>7. NameInv'
  BY DEF TypeInv, RingPhases, MappedRings, OneAtATime, NameInv, Orderly, Busy, Starting, Runs, Processes
<1> QED
  BY <1>1, <1>2, <1>3, <1>4, <1>5, <1>6, <1>7

\* The consumer reads who holds the slot.
LEMMA LoadConsumerInv ==
  ASSUME LifecycleInv, NEW c \in Consumers, LoadConsumer(c), UNCHANGED world
  PROVE  LifecycleInv'
<1> USE LifecycleAssumption DEF LifecycleInv, LoadConsumer, Goto, Alive
<1>1. TypeInv'
  <2>1. mapped[c] \in Producers
    BY DEF TypeInv, MappedRings, Processes
  <2>2. expected' \in [Consumers -> Consumers \cup {None}]
    BY <2>1 DEF TypeInv, Control
  <2> QED
    BY <2>2 DEF TypeInv, ProducerLabels, ConsumerLabels, Processes
<1>2. NameOwned'
  BY DEF TypeInv, NameOwned, ProducerLabels, ConsumerLabels, Processes
<1>3. RingPhases'
  BY DEF TypeInv, Control, RingPhases, Processes
<1>4. MappedRings'
  BY DEF TypeInv, Control, RingPhases, MappedRings, Processes
<1>5. SlotInv'
  BY DEF TypeInv, Control, RingPhases, MappedRings, SlotInv, Attached, Runs, Processes, ConsumerLabels
<1>6. OneAtATime'
  BY DEF TypeInv, OneAtATime, Orderly, Busy, Starting, Runs, Processes
<1>7. NameInv'
  BY DEF TypeInv, RingPhases, MappedRings, OneAtATime, NameInv, Orderly, Busy, Starting, Runs, Processes
<1> QED
  BY <1>1, <1>2, <1>3, <1>4, <1>5, <1>6, <1>7

\* The compare-exchange on the slot.
LEMMA ClaimInv ==
  ASSUME LifecycleInv, NEW c \in Consumers, Claim(c), UNCHANGED world
  PROVE  LifecycleInv'
<1> USE LifecycleAssumption DEF LifecycleInv, Claim, Goto
<1>1. TypeInv'
  BY DEF TypeInv, Control, ProducerLabels, ConsumerLabels, Processes
<1>2. NameOwned'
  BY DEF TypeInv, NameOwned, ProducerLabels, ConsumerLabels, Processes
<1>3. RingPhases'
  BY DEF TypeInv, Control, RingPhases, Processes
<1>4. MappedRings'
  BY DEF TypeInv, Control, RingPhases, MappedRings, Processes
<1>5. SlotInv'
  BY DEF TypeInv, Control, RingPhases, MappedRings, SlotInv, Attached, Runs, Processes, ConsumerLabels
<1>6. OneAtATime'
  BY DEF TypeInv, OneAtATime, Orderly, Busy, Starting, Runs, Processes
<1>7. NameInv'
  BY DEF TypeInv, RingPhases, MappedRings, OneAtATime, NameInv, Orderly, Busy, Starting, Runs, Processes
<1> QED
  BY <1>1, <1>2, <1>3, <1>4, <1>5, <1>6, <1>7

\* The slot is given back at the end of the stream.
LEMMA EndSessionInv ==
  ASSUME LifecycleInv, NEW c \in Consumers, EndSession(c), UNCHANGED world
  PROVE  LifecycleInv'
<1> USE LifecycleAssumption DEF LifecycleInv, EndSession, GiveBack, Goto
<1>1. TypeInv'
  <2>1. mapped[c] \in Producers
    BY DEF TypeInv, MappedRings, Processes
  <2>2. ring' \in [Producers -> Control]
    BY <2>1 DEF TypeInv, Control
  <2> QED
    BY <2>2 DEF TypeInv, ProducerLabels, ConsumerLabels, Processes
<1>2. NameOwned'
  BY DEF TypeInv, NameOwned, ProducerLabels, ConsumerLabels, Processes
<1>3. RingPhases'
  BY DEF TypeInv, Control, RingPhases, Processes
<1>4. MappedRings'
  BY DEF TypeInv, Control, RingPhases, MappedRings, Processes
<1>5. SlotInv'
  BY DEF TypeInv, Control, RingPhases, MappedRings, SlotInv, Attached, Runs, Processes, ConsumerLabels
<1>6. OneAtATime'
  BY DEF TypeInv, OneAtATime, Orderly, Busy, Starting, Runs, Processes
<1>7. NameInv'
  BY DEF TypeInv, RingPhases, MappedRings, OneAtATime, NameInv, Orderly, Busy, Starting, Runs, Processes
<1> QED
  BY <1>1, <1>2, <1>3, <1>4, <1>5, <1>6, <1>7

\* The consumer is stopped.
LEMMA StopInv ==
  ASSUME LifecycleInv, NEW c \in Consumers, Stop(c), UNCHANGED world
  PROVE  LifecycleInv'
<1> USE LifecycleAssumption DEF LifecycleInv, Stop, Attached, GiveBack, Goto
<1>1. TypeInv'
  BY DEF TypeInv, Control, ProducerLabels, ConsumerLabels, Processes
<1>2. NameOwned'
  BY DEF TypeInv, NameOwned, ProducerLabels, ConsumerLabels, Processes
<1>3. RingPhases'
  BY DEF TypeInv, Control, RingPhases, Processes
<1>4. MappedRings'
  BY DEF TypeInv, Control, RingPhases, MappedRings, Processes
<1>5. SlotInv'
  BY DEF TypeInv, Control, RingPhases, MappedRings, SlotInv, Attached, Runs, Processes, ConsumerLabels
<1>6. OneAtATime'
  BY DEF TypeInv, OneAtATime, Orderly, Busy, Starting, Runs, Processes
<1>7. NameInv'
  BY DEF TypeInv, RingPhases, MappedRings, OneAtATime, NameInv, Orderly, Busy, Starting, Runs, Processes
<1> QED
  BY <1>1, <1>2, <1>3, <1>4, <1>5, <1>6, <1>7

\* The consumer is paused or resumed.
LEMMA PauseInv ==
  ASSUME LifecycleInv, NEW c \in Consumers, Pause(c) \/ Resume(c), UNCHANGED world
  PROVE  LifecycleInv'
<1> USE LifecycleAssumption DEF LifecycleInv, Pause, Resume, Goto
<1>1. TypeInv'
  BY DEF TypeInv, Control, ProducerLabels, ConsumerLabels, Processes
<1>2. NameOwned'
  BY DEF TypeInv, NameOwned, ProducerLabels, ConsumerLabels, Processes
<1>3. RingPhases'
  BY DEF TypeInv, Control, RingPhases, Processes
<1>4. MappedRings'
  BY DEF TypeInv, Control, RingPhases, MappedRings, Processes
<1>5. SlotInv'
  BY DEF TypeInv, Control, RingPhases, MappedRings, SlotInv, Attached, Runs, Processes, ConsumerLabels
<1>6. OneAtATime'
  BY DEF TypeInv, OneAtATime, Orderly, Busy, Starting, Runs, Processes
<1>7. NameInv'
  BY DEF TypeInv, RingPhases, MappedRings, OneAtATime, NameInv, Orderly, Busy, Starting, Runs, Processes
<1> QED
  BY <1>1, <1>2, <1>3, <1>4, <1>5, <1>6, <1>7

\* A system call of the consumer fails.
LEMMA ConsumerFaultInv ==
  ASSUME LifecycleInv, NEW c \in Consumers, ConsumerFault(c), UNCHANGED world
  PROVE  LifecycleInv'
<1> USE LifecycleAssumption DEF LifecycleInv, ConsumerFault, OpenFails, Goto
<1>1. TypeInv'
  BY DEF TypeInv, Control, ProducerLabels, ConsumerLabels, Processes
<1>2. NameOwned'
  BY DEF TypeInv, NameOwned, ProducerLabels, ConsumerLabels, Processes
<1>3. RingPhases'
  BY DEF TypeInv, Control, RingPhases, Processes
<1>4. MappedRings'
  BY DEF TypeInv, Control, RingPhases, MappedRings, Processes
<1>5. SlotInv'
  BY DEF TypeInv, Control, RingPhases, MappedRings, SlotInv, Attached, Runs, Processes, ConsumerLabels
<1>6. OneAtATime'
  BY DEF TypeInv, OneAtATime, Orderly, Busy, Starting, Runs, Processes
<1>7. NameInv'
  BY DEF TypeInv, RingPhases, MappedRings, OneAtATime, NameInv, Orderly, Busy, Starting, Runs, Processes
<1> QED
  BY <1>1, <1>2, <1>3, <1>4, <1>5, <1>6, <1>7

\* A process is killed.
LEMMA CrashInv ==
  ASSUME LifecycleInv, NEW x \in Processes, Crash(x), UNCHANGED world
  PROVE  LifecycleInv'
<1> USE LifecycleAssumption DEF LifecycleInv, Crash, Goto
<1>1. TypeInv'
  BY DEF TypeInv, Control, ProducerLabels, ConsumerLabels, Processes
<1>2. NameOwned'
  BY DEF TypeInv, NameOwned, ProducerLabels, ConsumerLabels, Processes
<1>3. RingPhases'
  BY DEF TypeInv, Control, RingPhases, Processes
<1>4. MappedRings'
  BY DEF TypeInv, Control, RingPhases, MappedRings, Processes
<1>5. SlotInv'
  BY DEF TypeInv, Control, RingPhases, MappedRings, SlotInv, Attached, Runs, Processes, ConsumerLabels
<1>6. OneAtATime'
  BY DEF TypeInv, OneAtATime, Orderly, Busy, Starting, Runs, Processes
<1>7. NameInv'
  BY DEF TypeInv, RingPhases, MappedRings, OneAtATime, NameInv, Orderly, Busy, Starting, Runs, Processes
<1> QED
  BY <1>1, <1>2, <1>3, <1>4, <1>5, <1>6, <1>7

\* The pid of a killed process is found alive.
LEMMA ReusePidInv ==
  ASSUME LifecycleInv, NEW x \in Processes, ReusePid(x), UNCHANGED world
  PROVE  LifecycleInv'
<1> USE LifecycleAssumption DEF LifecycleInv, ReusePid, Goto
<1>1. TypeInv'
  BY DEF TypeInv, Control, ProducerLabels, ConsumerLabels, Processes
<1>2. NameOwned'
  BY DEF TypeInv, NameOwned, ProducerLabels, ConsumerLabels, Processes
<1>3. RingPhases'
  BY DEF TypeInv, Control, RingPhases, Processes
<1>4. MappedRings'
  BY DEF TypeInv, Control, RingPhases, MappedRings, Processes
<1>5. SlotInv'
  BY DEF TypeInv, Control, RingPhases, MappedRings, SlotInv, Attached, Runs, Processes, ConsumerLabels
<1>6. OneAtATime'
  BY DEF TypeInv, OneAtATime, Orderly, Busy, Starting, Runs, Processes
<1>7. NameInv'
  BY DEF TypeInv, RingPhases, MappedRings, OneAtATime, NameInv, Orderly, Busy, Starting, Runs, Processes
<1> QED
  BY <1>1, <1>2, <1>3, <1>4, <1>5, <1>6, <1>7

\* The pid is free again.
LEMMA FreePidInv ==
  ASSUME LifecycleInv, NEW x \in Processes, FreePid(x), UNCHANGED world
  PROVE  LifecycleInv'
<1> USE LifecycleAssumption DEF LifecycleInv, FreePid, Goto
<1>1. TypeInv'
  BY DEF TypeInv, Control, ProducerLabels, ConsumerLabels, Processes
<1>2. NameOwned'
  BY DEF TypeInv, NameOwned, ProducerLabels, ConsumerLabels, Processes
<1>3. RingPhases'
  BY DEF TypeInv, Control, RingPhases, Processes
<1>4. MappedRings'
  BY DEF TypeInv, Control, RingPhases, MappedRings, Processes
<1>5. SlotInv'
  BY DEF TypeInv, Control, RingPhases, MappedRings, SlotInv, Attached, Runs, Processes, ConsumerLabels
<1>6. OneAtATime'
  BY DEF TypeInv, OneAtATime, Orderly, Busy, Starting, Runs, Processes
<1>7. NameInv'
  BY DEF TypeInv, RingPhases, MappedRings, OneAtATime, NameInv, Orderly, Busy, Starting, Runs, Processes
<1> QED
  BY <1>1, <1>2, <1>3, <1>4, <1>5, <1>6, <1>7

LEMMA NextLifecycleInv == LifecycleInv /\ [Next]_vars => LifecycleInv'
<1> SUFFICES ASSUME LifecycleInv, [Next]_vars PROVE LifecycleInv'
  OBVIOUS
<1>1. ASSUME NEW p \in Producers, UNCHANGED world, ProducerStep(p) \/ Finish(p) \/ ProducerFault(p)
      PROVE  LifecycleInv'
  BY <1>1, StartInv, ProducerStatInv, ProducerReadyInv, CheckProducerInv, UnlinkStaleInv, CreateInv,
     SizeInv, MapInv, UndoInv, InitControlInv, PublishInv, FinishInv, UnlinkOwnInv, ProducerFaultInv
     DEF ProducerStep
<1>2. ASSUME NEW c \in Consumers, UNCHANGED world, ConsumerStep(c) \/ Stop(c) \/ Pause(c) \/ Resume(c) \/ ConsumerFault(c)
      PROVE  LifecycleInv'
  BY <1>2, PollInv, ConsumerStatInv, ConsumerReadyInv, CheckPeerInv, LoadConsumerInv, ClaimInv,
     EndSessionInv, StopInv, PauseInv, ConsumerFaultInv
     DEF ConsumerStep
<1>3. ASSUME NEW x \in Processes, UNCHANGED world, Crash(x) \/ ReusePid(x) \/ FreePid(x)
      PROVE  LifecycleInv'
  BY <1>3, CrashInv, ReusePidInv, FreePidInv
<1>4. CASE UNCHANGED vars
  BY <1>4 DEF vars, LifecycleInv, TypeInv, NameOwned, RingPhases, MappedRings, SlotInv, OneAtATime,
              NameInv, Orderly, Busy, Starting, Attached, Runs
<1> QED
  BY <1>1, <1>2, <1>3, <1>4 DEF Next

-----------------------------------------------------------------------------
(* The theorems.                                                            *)

\* However many consumers race for the slot of a ring and die holding it, the one
\* that try_attach() lets in holds the slot until it gives it back, and its ring
\* is completely initialised.
THEOREM SlotIsHeld == Spec => []AttachedHoldsSlot
<1>1. ASSUME LifecycleInv PROVE AttachedHoldsSlot
  <2> SUFFICES ASSUME NEW c \in Consumers, Attached(c)
               PROVE  /\ ring[mapped[c]].consumer = c
                      /\ ring[mapped[c]].state # "Initializing"
                      /\ ring[mapped[c]].producer = mapped[c]
    BY DEF AttachedHoldsSlot
  <2>1. mapped[c] \in Producers /\ ring[mapped[c]].state # "Initializing"
    BY <1>1 DEF LifecycleInv, MappedRings, Attached, Processes
  <2> QED
    BY <1>1, <2>1 DEF LifecycleInv, SlotInv, RingPhases
<1> QED
  BY InitLifecycleInv, NextLifecycleInv, <1>1, PTL DEF Spec

\* No producer that ends by itself leaves its name behind, whichever step of
\* create() failed.
THEOREM NoNameLeaks == Spec => []NoLeak
<1>1. ASSUME LifecycleInv PROVE NoLeak
  BY <1>1 DEF LifecycleInv, NameOwned, NoLeak, Runs
<1> QED
  BY InitLifecycleInv, NextLifecycleInv, <1>1, PTL DEF Spec

\* In an orderly world the name leads to the ring of whoever runs, for any number
\* of producers that were killed, refused or failed before.
THEOREM RingIsReachable == Spec => []LiveRingReachable
<1>1. ASSUME LifecycleInv PROVE LiveRingReachable
  BY <1>1 DEF LifecycleInv, NameInv, LiveRingReachable
<1> QED
  BY InitLifecycleInv, NextLifecycleInv, <1>1, PTL DEF Spec

\* In an orderly world a producer gives up only because of one that runs: neither
\* the object nor the pid that a killed one left behind refuses it, and O_EXCL
\* never meets a name that came back.
THEOREM RefusedRightly == Spec => RefusedOnlyByLive
<1> DEFINE Refusal ==
      \A p \in Producers :
        Orderly /\ pc[p] # "refused" /\ pc[p]' = "refused" => \E q \in Producers \ {p} : Runs(q)
<1>1. ASSUME LifecycleInv, [Next]_vars PROVE [Refusal]_vars
  <2> SUFFICES ASSUME Next, NEW p \in Producers, Orderly, pc[p] # "refused", pc[p]' = "refused"
               PROVE  \E q \in Producers \ {p} : Runs(q)
    BY <1>1
  <2> USE LifecycleAssumption DEF LifecycleInv
  <2>1. CheckProducer(p) \/ Create(p)
    <3>1. ASSUME NEW r \in Producers, ProducerStep(r) \/ Finish(r) \/ ProducerFault(r)
          PROVE  CheckProducer(p) \/ Create(p)
      <4>1. r = p
        BY <1>1, <3>1 DEF ProducerStep, ProducerFault, TypeInv, Processes, Start, OpenName, Stat, CheckReady,
           CheckProducer, UnlinkStale, Create, Size, Map, Undo, InitControl, Publish, UnlinkOwn,
           Finish, OpenFails, CreateFails, Goto
      <4> QED
        BY <1>1, <3>1, <4>1 DEF ProducerStep, ProducerFault, TypeInv, Processes, Start, OpenName, Stat,
           CheckReady, UnlinkStale, Size, Map, Undo, InitControl, Publish, UnlinkOwn,
           Finish, OpenFails, CreateFails, Goto
    <3>2. ASSUME NEW c \in Consumers, ConsumerStep(c) \/ Stop(c) \/ Pause(c) \/ Resume(c) \/ ConsumerFault(c)
          PROVE  FALSE
      BY <1>1, <3>2 DEF ConsumerStep, ConsumerFault, TypeInv, Processes, Poll, OpenName, Stat, CheckReady,
         CheckPeer, LoadConsumer, Claim, EndSession, Stop, Attached, Pause, Resume, GiveBack, OpenFails, Goto
    <3>3. ASSUME NEW x \in Processes, Crash(x) \/ ReusePid(x) \/ FreePid(x)
          PROVE  FALSE
      BY <1>1, <3>3 DEF TypeInv, Processes, Crash, ReusePid, FreePid, Goto
    <3> QED
      BY <3>1, <3>2, <3>3 DEF Next
  <2>2. ~ Create(p)
    <3>1. pc[p] = "create" => name = None
      BY <1>1 DEF NameInv
    <3> QED
      BY <1>1, <3>1 DEF Create, Goto, TypeInv, Processes
  <2>3. pc[p] = "alive" /\ Alive(ring[mapped[p]].producer)
    BY <1>1, <2>1, <2>2 DEF CheckProducer, Goto, TypeInv, Processes
  <2> DEFINE q == mapped[p]
  <2>4. q \in Producers /\ ring[q].state # "Initializing" /\ ring[q].producer = q /\ q # p
    BY <1>1, <2>3 DEF MappedRings, RingPhases, Processes
  <2>5. pc[q] # "reused"
    BY <1>1, <2>4 DEF OneAtATime, Processes
  <2> QED
    BY <2>3, <2>4, <2>5 DEF Alive
<1> QED
  BY InitLifecycleInv, NextLifecycleInv, <1>1, PTL DEF Spec, RefusedOnlyByLive

=============================================================================
