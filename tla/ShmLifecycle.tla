---------------------------- MODULE ShmLifecycle ----------------------------
(***************************************************************************)
(* Who owns the shared memory: how producers create, publish and unlink a  *)
(* ring under one name, and how consumers find a ring, claim its consumer  *)
(* slot and give it back (common/src/shm_transport.cpp, shm_region.cpp and *)
(* initialize_ring_control / ring_control_ready of ring_buffer.cpp).       *)
(*                                                                         *)
(* A process is one run of a program and its pid is its identity; when it  *)
(* was killed, the pid may come to belong to a stranger.  Every            *)
(* producer run creates at most one shared memory object, so the object is *)
(* named after the run that creates it.  An object outlives its name for   *)
(* whoever has it mapped.  Every access to the name, to the control block  *)
(* of another process or to the process table is a step of its own, and a  *)
(* process may be killed between any two steps.                            *)
(***************************************************************************)

CONSTANTS
  Producers,   \* runs of the producer program
  Consumers,   \* runs of the consumer program
  None,        \* no object, no process
  Worlds       \* the surroundings the programs run in: see world

ASSUME LifecycleAssumption ==
  /\ Producers \cap Consumers = {}
  /\ None \notin Producers \cup Consumers
  /\ Worlds \subseteq [overlap : {"none", "restart", "any"},
                      faults  : SUBSET {"open", "create", "reuse"}]

VARIABLES
  world,      \* which producers may start and stop at the same time; which system
              \* calls fail, "open" and "create", and whether pids live on, "reuse"
  name,       \* the object that the shared memory name is bound to
  ring,       \* the control block of every object
  pc,         \* where every process is
  mapped,     \* the object a process has opened
  expected    \* try_attach: the consumer pid that the exchange expects

vars == <<world, name, ring, pc, mapped, expected>>

Processes == Producers \cup Consumers

\* What a freshly created object holds: no size, and zeroes.
Unsized == [sized |-> FALSE, state |-> "Initializing", producer |-> None, consumer |-> None]

\* The program runs.
Runs(x) == pc[x] \notin {"new", "refused", "exited", "crashed", "reused"}

\* process_alive(): kill(pid, 0) finds the program or whoever has its pid now.
Alive(x) == x # None /\ (Runs(x) \/ pc[x] = "reused")

\* A producer between its first look at the name and Ready.
Starting(p) == Runs(p) /\ pc[p] \notin {"running", "finished"}

\* When the environment starts and stops producers.  "any": whenever it likes.
\* "restart": it starts one at a time, but does not wait for the end of the one
\* it stopped.  "none": only one producer starts or stops at a time.
MayStart(p) ==
  \A q \in Producers \ {p} :
    /\ world.overlap # "any" => ~ Starting(q)
    /\ world.overlap = "none" => pc[q] # "finished"

MayStop(p) == world.overlap = "none" => \A q \in Producers \ {p} : ~ Starting(q) /\ pc[q] # "finished"

Goto(x, label) == pc' = [pc EXCEPT ![x] = label]

Init ==
  /\ world \in Worlds
  /\ name = None
  /\ ring = [p \in Producers |-> Unsized]
  /\ pc = [x \in Processes |-> IF x \in Producers THEN "new" ELSE "polling"]
  /\ mapped = [x \in Processes |-> None]
  /\ expected = [c \in Consumers |-> None]

-----------------------------------------------------------------------------
(* MirroredShmRegion::try_open, as called by both programs.                 *)

\* shm_open without O_CREAT.
OpenName(x, absent) ==
  /\ mapped' = [mapped EXCEPT ![x] = name]
  /\ Goto(x, IF name = None THEN absent ELSE "stat")
  /\ UNCHANGED <<name, ring, expected>>

\* fstat and the mapping: an object that is not sized yet counts as absent.
Stat(x, absent) ==
  /\ pc[x] = "stat"
  /\ Goto(x, IF ring[mapped[x]].sized THEN "ready" ELSE absent)
  /\ UNCHANGED <<name, ring, mapped, expected>>

\* try_open() throws: shm_open, fstat or mmap failed.
OpenFails(x, next) ==
  /\ "open" \in world.faults
  /\ pc[x] = "stat"
  /\ Goto(x, next)
  /\ UNCHANGED <<name, ring, mapped, expected>>

\* ring_control_ready(): magic, version and capacity are those of the object
\* once its state is Ready.
CheckReady(x, otherwise) ==
  /\ pc[x] = "ready"
  /\ Goto(x, IF ring[mapped[x]].state = "Ready" THEN "alive" ELSE otherwise)
  /\ UNCHANGED <<name, ring, mapped, expected>>

-----------------------------------------------------------------------------
(* ShmPacketSink and MirroredShmRegion::create.                             *)

Start(p) ==
  /\ pc[p] = "new"
  /\ MayStart(p)
  /\ OpenName(p, "unlink")

\* Mutants of CheckProducer: a dead producer is taken for a live one; the refused
\* producer's mapping owns the name and unlinks it.
CheckProducerAnyPid(p) ==
  /\ pc[p] = "alive"
  /\ Goto(p, IF ring[mapped[p]].producer # None THEN "refused" ELSE "unlink")
  /\ UNCHANGED <<name, ring, mapped, expected>>

CheckProducerOwning(p) ==
  /\ pc[p] = "alive"
  /\ IF Alive(ring[mapped[p]].producer)
       THEN Goto(p, "refused") /\ name' = None
       ELSE Goto(p, "unlink") /\ UNCHANGED name
  /\ UNCHANGED <<ring, mapped, expected>>

\* Another live producer is refused; otherwise the leftover is replaced.
CheckProducer(p) ==
  /\ pc[p] = "alive"
  /\ Goto(p, IF Alive(ring[mapped[p]].producer) THEN "refused" ELSE "unlink")
  /\ UNCHANGED <<name, ring, mapped, expected>>

\* shm_unlink() of a stale object.
UnlinkStale(p) ==
  /\ pc[p] = "unlink"
  /\ name' = None
  /\ Goto(p, "create")
  /\ UNCHANGED <<ring, mapped, expected>>

\* shm_open(O_CREAT | O_EXCL), which throws when the name exists.
Create(p) ==
  /\ pc[p] = "create"
  /\ \/ /\ name = None
        /\ name' = p
        /\ Goto(p, "size")
     \/ /\ name # None
        /\ Goto(p, "refused")
        /\ UNCHANGED name
  /\ UNCHANGED <<ring, mapped, expected>>

\* ftruncate.
Size(p) ==
  /\ pc[p] = "size"
  /\ ring' = [ring EXCEPT ![p].sized = TRUE]
  /\ Goto(p, "map")
  /\ UNCHANGED <<name, mapped, expected>>

Map(p) ==
  /\ pc[p] = "map"
  /\ mapped' = [mapped EXCEPT ![p] = p]
  /\ Goto(p, "init")
  /\ UNCHANGED <<name, ring, expected>>

\* ftruncate failed: create() unlinks the name.  map() failed: the destructor
\* of the half-built region, which owns the name, unlinks it first.
CreateFails(p) ==
  /\ "create" \in world.faults
  /\ \/ pc[p] = "size" /\ Goto(p, "undo")
     \/ pc[p] = "map" /\ Goto(p, "unmap")
  /\ UNCHANGED <<name, ring, mapped, expected>>

\* Mutant of Undo: the error path forgets the name.
UndoWithoutUnlink(p) ==
  /\ pc[p] \in {"unmap", "undo"}
  /\ Goto(p, "exited")
  /\ UNCHANGED <<name, ring, mapped, expected>>

Undo(p) ==
  /\ \/ pc[p] = "unmap" /\ Goto(p, "undo")
     \/ pc[p] = "undo" /\ Goto(p, "exited")
  /\ name' = None
  /\ UNCHANGED <<ring, mapped, expected>>

\* initialize_ring_control() up to the store of state.
InitControl(p) ==
  /\ pc[p] = "init"
  /\ ring' = [ring EXCEPT ![p].producer = p, ![p].consumer = None]
  /\ Goto(p, "publish")
  /\ UNCHANGED <<name, mapped, expected>>

Publish(p) ==
  /\ pc[p] = "publish"
  /\ ring' = [ring EXCEPT ![p].state = "Ready"]
  /\ Goto(p, "running")
  /\ UNCHANGED <<name, mapped, expected>>

\* ~ShmPacketSink(), first half.
Finish(p) ==
  /\ pc[p] = "running"
  /\ MayStop(p)
  /\ ring' = [ring EXCEPT ![p].state = "ProducerFinished"]
  /\ Goto(p, "finished")
  /\ UNCHANGED <<name, mapped, expected>>

\* ~ShmPacketSink(), second half: region_.unlink().
UnlinkOwn(p) ==
  /\ pc[p] = "finished"
  /\ name' = None
  /\ Goto(p, "exited")
  /\ UNCHANGED <<ring, mapped, expected>>

ProducerStep(p) ==
  \/ Start(p) \/ Stat(p, "unlink") \/ CheckReady(p, "unlink") \/ CheckProducer(p)
  \/ UnlinkStale(p) \/ Create(p) \/ Size(p) \/ Map(p) \/ Undo(p)
  \/ InitControl(p) \/ Publish(p) \/ UnlinkOwn(p)

\* An exception of try_open() is swallowed, and create() replaces the object.
ProducerFault(p) == OpenFails(p, "unlink") \/ CreateFails(p)

-----------------------------------------------------------------------------
(* ShmPacketSource.                                                         *)

\* connect() polls: one more try_attach().
Poll(c) ==
  /\ pc[c] = "polling"
  /\ OpenName(c, "polling")

CheckPeer(c) ==
  /\ pc[c] = "alive"
  /\ Goto(c, IF Alive(ring[mapped[c]].producer) THEN "expect" ELSE "polling")
  /\ UNCHANGED <<name, ring, mapped, expected>>

\* A live consumer is in the way, or the slot is free or left by a dead one.
LoadConsumer(c) ==
  /\ pc[c] = "expect"
  /\ LET holder == ring[mapped[c]].consumer
     IN  /\ Goto(c, IF holder # c /\ Alive(holder) THEN "refused" ELSE "cas")
         /\ expected' = [expected EXCEPT ![c] = holder]
  /\ UNCHANGED <<name, ring, mapped>>

\* Mutant of Claim: a plain store.
ClaimByStore(c) ==
  /\ pc[c] = "cas"
  /\ ring' = [ring EXCEPT ![mapped[c]].consumer = c]
  /\ Goto(c, "attached")
  /\ UNCHANGED <<name, mapped, expected>>

\* compare_exchange_strong; the loser polls again.
Claim(c) ==
  /\ pc[c] = "cas"
  /\ \/ /\ ring[mapped[c]].consumer = expected[c]
        /\ ring' = [ring EXCEPT ![mapped[c]].consumer = c]
        /\ Goto(c, "attached")
     \/ /\ ring[mapped[c]].consumer # expected[c]
        /\ Goto(c, "polling")
        /\ UNCHANGED ring
  /\ UNCHANGED <<name, mapped, expected>>

\* The consumer is in a session, and has the ring mapped.
Attached(c) == pc[c] \in {"attached", "paused"}

\* pause() and resume().  run_session() reads the flag on every turn; while it is
\* set the loop goes round above peer_status(), so the end of the stream stays
\* unnoticed.  connect() does not read it: a pause while polling shows at once
\* when the session begins.
Pause(c) ==
  /\ pc[c] = "attached"
  /\ Goto(c, "paused")
  /\ UNCHANGED <<name, ring, mapped, expected>>

Resume(c) ==
  /\ pc[c] = "paused"
  /\ Goto(c, "attached")
  /\ UNCHANGED <<name, ring, mapped, expected>>

StreamEnded(c) ==
  LET r == ring[mapped[c]]
  IN  r.state = "ProducerFinished" \/ ~ Alive(r.producer)

\* disconnect(): the slot is given back if it is still this consumer's.
GiveBack(c, next) ==
  /\ ring' = [ring EXCEPT ![mapped[c]].consumer = IF @ = c THEN None ELSE @]
  /\ mapped' = [mapped EXCEPT ![c] = None]
  /\ Goto(c, next)
  /\ UNCHANGED <<name, expected>>

\* Mutant of EndSession: only the producer's own word ends a session.
EndSessionIfFinished(c) ==
  /\ pc[c] = "attached"
  /\ ring[mapped[c]].state = "ProducerFinished"
  /\ GiveBack(c, "polling")

\* The stream is over: the session of a consumer that is not paused ends, and it
\* polls for the next ring.
EndSession(c) ==
  /\ pc[c] = "attached"
  /\ StreamEnded(c)
  /\ GiveBack(c, "polling")

\* A stop request, or --once after the end of the stream.
Stop(c) ==
  \/ /\ Attached(c)
     /\ GiveBack(c, "exited")
  \/ /\ pc[c] = "polling"
     /\ Goto(c, "exited")
     /\ UNCHANGED <<name, ring, mapped, expected>>

ConsumerStep(c) ==
  \/ Poll(c) \/ Stat(c, "polling") \/ CheckReady(c, "polling") \/ CheckPeer(c)
  \/ LoadConsumer(c) \/ Claim(c) \/ EndSession(c)

\* An exception of try_open() ends the consumer.
ConsumerFault(c) == OpenFails(c, "exited")

-----------------------------------------------------------------------------
\* SIGKILL, or a machine that takes the process away between two steps.
Crash(x) ==
  /\ Runs(x)
  /\ Goto(x, "crashed")
  /\ UNCHANGED <<name, ring, mapped, expected>>

\* The pid of a killed process answers to kill(pid, 0): an unrelated process has
\* got it, or nobody has waited for the zombie yet.
ReusePid(x) ==
  /\ "reuse" \in world.faults
  /\ pc[x] = "crashed"
  /\ Goto(x, "reused")
  /\ UNCHANGED <<name, ring, mapped, expected>>

\* The unrelated process ends, or the zombie is waited for.
FreePid(x) ==
  /\ pc[x] = "reused"
  /\ Goto(x, "crashed")
  /\ UNCHANGED <<name, ring, mapped, expected>>

Next ==
  /\ \/ \E p \in Producers : ProducerStep(p) \/ Finish(p) \/ ProducerFault(p)
     \/ \E c \in Consumers : ConsumerStep(c) \/ Stop(c) \/ Pause(c) \/ Resume(c) \/ ConsumerFault(c)
     \/ \E x \in Processes : Crash(x) \/ ReusePid(x) \/ FreePid(x)
  /\ UNCHANGED world

Spec == Init /\ [][Next]_vars

\* A process that is in the middle of a call goes on, and connect() and
\* run_session() are loops: ProducerStep and ConsumerStep are taken as long as
\* they are possible; EndSession, a step of ConsumerStep, is not possible while the
\* consumer is paused.  Nobody promises that a program is ever started, stopped,
\* resumed or killed.
Fairness ==
  /\ \A p \in Producers : WF_vars(pc[p] # "new" /\ ProducerStep(p) /\ UNCHANGED world)
  /\ \A c \in Consumers : WF_vars(ConsumerStep(c) /\ UNCHANGED world)

FairSpec == Spec /\ Fairness

-----------------------------------------------------------------------------
(* Properties.                                                              *)

\* try_attach() only ends in a ring that is completely initialised, and the
\* consumer slot of that ring then carries the pid of this consumer until it
\* gives it back, however many consumers raced for the slot and died holding
\* it: a ring never has two readers.
AttachedHoldsSlot ==
  \A c \in Consumers : Attached(c) =>
    LET r == ring[mapped[c]]
    IN  /\ r.consumer = c
        /\ r.state # "Initializing"
        /\ r.producer = mapped[c]

\* Whichever way a producer ends, by its destructor or by a failing create(), it
\* leaves no name behind that is bound to its object; only a killed one does.
NoLeak == name # None => Runs(name) \/ pc[name] \in {"crashed", "reused"}

\* Nobody starts or stops two producers at the same moment, no system call hides a
\* ring that is there, and no pid outlives its program.
Orderly == world.overlap = "none" /\ world.faults \subseteq {"create"}

\* A second producer of the same name is refused while the first is alive.
SoleProducer ==
  \A p, q \in Producers : pc[p] = "running" /\ pc[q] = "running" => p = q

\* In an orderly world the ring of a running producer can be found under the name,
\* whoever was killed or failed to start before, and so one producer runs at most.
LiveRingReachable == Orderly => \A p \in Producers : pc[p] = "running" => name = p

\* In an orderly world a producer is only ever refused because of one that is alive:
\* what a killed producer left behind never keeps the next one from starting.
RefusedOnlyByLive ==
  [][\A p \in Producers :
       Orderly /\ pc[p] # "refused" /\ pc[p]' = "refused" =>
         \E q \in Producers \ {p} : Runs(q)]_vars

\* The destructor of the sink unlinks the name of its own object and no other's.
UnlinksOwnNameOnly ==
  [][\A p \in Producers : pc[p] = "finished" /\ pc[p]' = "exited" => name \in {p, None}]_vars

\* In an orderly world, if no consumer stays paused and as long as one is left, the
\* ring of a producer that keeps running gets one, in whatever order the programs
\* were started, although its slot may still carry the pid of a consumer that was
\* killed, and although the consumer may be in a session with a producer that died.
RunningRingGetsConsumer ==
  (\A c \in Consumers : <>[](pc[c] # "paused")) =>
    \A p \in Producers :
      Orderly /\ pc[p] = "running" ~> (\/ pc[p] # "running"
                                       \/ \E c \in Consumers : Attached(c) /\ mapped[c] = p
                                       \/ \A c \in Consumers : ~ Runs(c))

=============================================================================
