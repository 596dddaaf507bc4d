# Verification of producer-consumer

The repository holds two programs, `producer` and `consumer`, that pass
checksummed packets through a ring buffer in POSIX shared memory. This
directory specifies their core in TLA+, model-checks it with TLC on small
instances and proves with TLAPS, for all instances, the safety properties of the
ring, of the transport's life cycle, of the stream, of validator and statistics,
of the control threads, of waits and reports, of the rate limiter, of packets and
checksums, of the command line and of the size arithmetic.

## The system and its parts

| Part | State | Operations | Talks to |
|---|---|---|---|
| Ring buffer (`common/src/ring_buffer.cpp`) | `RingControl` (head, tail, state, pids) in shared memory; per side a private counter, a cached copy of the other side's counter and `pending_` | `try_reserve`, `commit`, `try_peek`, `release`, constructors | the other process, through two atomics and the data bytes |
| Shared memory region (`common/src/shm_region.cpp`) | a name, a mapping, `owner_` | `create`, `try_open`, `map`, `unlink`, destructor | the kernel's table of names |
| Transport (`common/src/shm_transport.cpp`) | a region, a ring end, `producer_pid`, `consumer_pid` | sink constructor and destructor, `try_attach`, `connect`, `disconnect`, `reserve`, `receive`, `peer_status` | region, ring, process table (`kill(pid, 0)`) |
| Applications (`producer_app.cpp`, `consumer_app.cpp`) | sequence number; session, `was_paused` | one loop each | transport, run control, validator, statistics |
| Pause policies (`pause_policy.cpp`) | none | `while_paused`, `on_resume` | source, statistics, validator |
| Validator and statistics | baseline, expected sequence, last timestamp; counters | `validate`, `resync`; `record`, `record_dropped`, `reset` | consumer application |
| Run control and control sources | stop and pause flags; a `sigwait` thread, a keyboard thread | signals, keys | both loops |
| Rate limiter, backoff, timers | next slot, step, next report | `wait_for_slot`, `wait`, `due` | the clock |
| Packet format, checksums, generators (`packet.cpp`, `checksum.cpp`, `packet_builder.cpp`, `payload_generator.cpp`) | the record being written, the running checksum, the generator's position | `write_header`, `fill`, `update`, `patch_checksum`, `packet_checksum` | producer writes, consumer verifies |
| Options (`cli.cpp`, `byte_size.cpp`, `*_options.cpp`) | the parsed entries, the position in the arguments | `parse`, `parse_byte_size`, `parse_producer_options`, `parse_consumer_options` | configuration of everything above |
| Reporters | | output | |

What is hard here: two processes share memory without locks and act on stale
copies of each other's counters; a process can be killed between any two steps;
names, objects and processes have different lifetimes, and every decision about
them is a check followed by an act; the end of the stream is deduced from three
separate observations; stop and pause requests arrive at any moment of a wait;
sizes pass through integers of different widths; and the two programs compute
the same checksum along different paths, in different pieces.

### What makes each part correct

* **Ring buffer.** A decision on a stale copy of the other side's counter is
  only ever pessimistic; writer and reader never touch the same byte; the reader
  gets the committed records, in order and intact, across the end of the data
  area and the wrap of the counters; a new consumer continues where the old one
  stopped.
* **Region and transport.** One producer per name, one consumer per ring, nobody
  attaches to a half-initialised ring, a killed process blocks nobody, an
  orderly exit leaves no name behind.
* **Applications.** Nothing is lost, nothing is delivered twice (but for the
  packet in the hands of a killed consumer), the end of the stream is declared
  only over an empty ring and is always noticed, stop requests are obeyed.
* **Validator and statistics.** No loss goes uncounted, and as long
  as no packet but the last one comes late or again, the summary says exactly what
  happened to the stream; its lines and the reported intervals add up.
* **Control threads.** A stop signal is never lost, both threads are joined, the
  terminal is put back whenever the program ends by itself or by a signal that it
  handles.
* **Rate limiter.** No burst after a stall, no drift between stalls.
* **Waits and reports.** Room that is made during a wait is taken after one sleep
  at the most, however the deadline falls into that sleep; a stop request costs one sleep at the most; reports tile
  the time of the run and none stays away.
* **Packets.** What the producer seals chunk by chunk verifies in the consumer,
  whichever of the CRC implementations either uses, and damage within 32 bits shows,
  but for two cases in which no checksum could promise it.
* **Options.** A command line is taken for what its user meant; the sizes on it
  reach the ring and the packet header without losing bits, or are refused.

## The modules

| Module | Models | Relation to the others |
|---|---|---|
| `RecordQueue` | what the ring promises: a bounded FIFO of records, of which the reader holds at most one | abstract |
| `SpscRing` | `ring_buffer.cpp`, and the mirrored mapping of `shm_region.cpp` as the function `Cell` | implements `RecordQueue` (`ImplementsRecordQueue`) |
| `ShmLifecycle` | construction and end of both transports, `create`, `try_open`, `unlink`, `try_attach` | |
| `PacketStream` | both application loops, pause policies, sequence tracking, `RunControl` | uses `RecordQueue` as its ring |
| `PacketAccounting` | `PacketValidator`, `ConsumerStats`, `ConsumerApp::process` | |
| `ControlThreads` | `SignalControlSource`, `KeyboardControlSource`, construction and destruction in `main()` | |
| `RateLimiter` | `RateLimiter::wait_for_slot` | |
| `LoopTiming` | `Backoff`, `wait_until`, `PeriodicTimer`, `RateWindow` and the naps of `ProducerApp::run` over a clock | |
| `Checksum` | `checksum.cpp`: tables, slice-by-8, the instructions | operators |
| `PacketIntegrity` | `PacketBuilder::build`, the generators, `packet.cpp`, the integrity checks of the validator | extends `Checksum` |
| `CommandLine` | `CommandLine::parse` and the decisions of both option files | |
| `PacketSizes` | `parse_byte_size`, `normalize_capacity`, the size check and the stored sizes | |
| `SpscRingProofs`, `ShmLifecycleProofs`, `PacketStreamProofs`, `PacketAccountingProofs`, `PacketIntegrityProofs` | theorems and proofs | extend their component |
| `LoopTimingProofs` | theorems and proofs about `LoopTiming`, `RateLimiter` and `ControlThreads` | extends the three |
| `CommandLineProofs` | theorems and proofs about `CommandLine` and `PacketSizes` | extends the two |
| `Recursion` | induction over numbers and recursive functions, as lemmas without operator parameters | extended by `PacketIntegrityProofs`, `CommandLineProofs` |
| `MC*` | instances for TLC | extend their component |

`RateLimiter`, `ControlThreads` and `PacketSizes` are extended next to other
components, so their initial predicates, next-state relations and specifications
have names of their own (`LimiterSpec`, `ThreadsSpec`, `SizesSpec`).

Operators whose comment says *Mutant of X* are plausible bugs in the code that X
models; with X replaced by one of them, the property it belongs to is violated.
They are not part of any specification.

### SpscRing

One variable per counter: `head` is `control.head` and the producer's `head_`,
which is stored in the call that changes it; the same for `tail`. `cachedTail`,
`cachedHead`, `reserved` and `peeked` are the private fields `cached_tail_`,
`cached_head_` and the two `pending_`. `mem` is the data area byte by byte. Each
call makes at most one access to an atomic of the other side, so each call is
one action: `ReserveCached` and `ReserveReload` are `try_reserve` without and
with the reload of the tail, likewise `PeekCached` and `PeekReload`; `WriteSlot`
is the application writing into the reserved span; `Commit`, `Release`;
`Reattach` is the constructor of the next `RingConsumer`.

Acquire loads may return old values: `headStores` and `tailStores` hold the
stores that the other side's next load may still return, which is any one not
older than what it has already read. The bytes are plain memory; treating them
as one array is sound because `NoDataRace` is checked, and proved, next to it.
Counters wrap at `Wrap`, a multiple of the capacity as 2^64 is of a power of two.

### ShmLifecycle

A process is one run of a program; the object that a producer creates is named
after it. `name` is what the shared memory name is bound to, `ring[o]` the
control block of object `o`. Every `shm_open`, `fstat`, `shm_unlink`, every
access to a foreign control block, every `kill(pid, 0)` is a step, and a process
may be killed before each. `world` is chosen at the start and stays:
`world.overlap` says how the user starts producers, any time, one at a time
without waiting for the predecessor's end, or strictly one after the other;
`world.faults` lets `try_open` or `create` fail, and lets the pid of a killed
process be found alive again (`ReusePid`), because a stranger has got it or
because nobody has waited for the zombie, until it is freed. A consumer may be
paused in its session: its loop then goes round above `peer_status()`
(`consumer_app.cpp:55-59`), so `EndSession` waits for `Resume`. `Orderly` is the
world in which the strong properties hold: no overlap, no failing `try_open`, no
reused pid.

### PacketStream

A packet is its sequence number; all have one size, so the ring is counted in
packets. `ppc` and `cpc` are the places in the two loops where a wait, a look at
the other side or a look at `RunControl` separates steps. A bounded wait either
succeeds or, if the ring is full or empty, may time out. `config` is chosen at
the start: the pause policy, `--once` and `--wait-for-consumer`. `seen`, `repeats`,
`kills` and `first` are history.

### PacketAccounting

The stream here is worse than the ring: packets are lost, damaged and delayed,
come late or come again, since this is what the validator is meant to find; the
wall clock may be set back. `TakeTurn` is the end of a packet's turn, as it
arrives, is lost or is discarded; from then on it is in `past` if it is intact, and
`Repeat` delivers any packet of `past`: the last one, an older one, or a lost one late.
`hole`, `skipped`, `again` record what really happened, `strayed` that it was not
the last packet that came again; the properties compare this with the counters.
Damage always shows as one of the corruption defects, which `PacketIntegrity` justifies
for bursts up to 32 bits with its two exceptions: checksum collisions are left out.

### ControlThreads

Three threads: `main` walks through construction, the application and the
destructors in reverse order; `spc` is the `sigwait` thread; `kpc` the keyboard
thread. `open` is the set of threads that do not block the signals: a signal
sent while it is not empty has its default action and ends the process. Pending
signals are a set, taken in any order; the destructor's `pthread_kill` is
pending for its thread only (`woken`). The three stop signals are one. `Slay`
is the end by a signal that is not in the mask (SIGKILL, SIGQUIT, SIGPIPE): nothing
of the program runs after it. Another
process may read the terminal too (`StealKey`): if it takes the key between
`poll()` and `read()`, the keyboard thread is stuck in `read()` (`Robbed`).

### RateLimiter

`time` moves on by any amount at any time, so sleeps last as long or longer
than asked for, and any time passes between two calls. `grants` is the history
of slots that were due; `base` and `cadence` the part of it since the last
stall. A slot that a stop request cut short is not a grant: at most one packet
follows it.

### LoopTiming

The producer's loop with a discrete clock. A step that sleeps takes as long as
it asks for or up to `Late` ticks longer; building a packet takes up to `Late`,
and so does the time between two readings of the clock: those of
`PeriodicTimer::due` and `RateWindow::take`, their constructions, and the attempt
of a wait and its look at the deadline. These last are two steps (`Retry`,
`CheckDeadline`), between which the consumer can make room; `roomAt` is when it did.
A stop request may fall anywhere into such a step, also between the look at the
stop token and the sleep: nothing cuts a sleep short (`Lasts`).
`step` and `deadline` are the locals of `wait_until` and its `Backoff`, whose
free steps (spins and yields) and doubling sleeps are kept; `next`, `start` and
`packets` are `PeriodicTimer` and `RateWindow`. The consumer drains the ring, and
the user pauses and stops, at any moment. The consumer's loop has the same parts.

### Checksum and PacketIntegrity

Words are sets of bit numbers, so that CRC-32 and CRC-32C are computed in their
real width with their real polynomials, by table, by instruction and bit by bit
as the reference. A packet is built as in the code: header, then chunk by chunk
the generator's bytes, the running checksum updated with each, then the checksum
patched in. `Damage` inverts a pattern of bits within 32 at any place of the record,
edges of the checksum field included; `damage` remembers which. `Straddles` and
`KindSwapped` are the two cases that `DamageShows` leaves out: damage across the end
of the checksum field changes the checksum together with what it is of, and damage
that makes one known algorithm the other has the record checked by that one. (Across
the beginning of the field damage shows: the size before it is compared.)
The block of the generator (`kBlockBytes`) and the number of blocks in a chunk
(`ChunkBlocks`) are parameters: 64 and 128 in the code, 4 and 2 in the run; the
proofs are for all. The values of the random generator are those of a fixed
function of its step.

### CommandLine

A user means a sequence of items (set an option, give a flag, a word, `--`,
something malformed); they are spelled in every way the parser knows into `argv`,
which is all the actions see. The actions are the branches of the loop in
`parse()`, then `Interpret` is the option file of the program. The properties
compare the result with the items: `Before` is how many of them come before
`--`, `Meant` the last setting of an option among those, `Complaint` what the
first malformed one is refused for, `ArgumentsOf` what an item stands for as
arguments.

### PacketSizes

The sizes as the user wrote them, with integers that wrap at `SizeModulus` (2^64)
and `LengthModulus` (2^32). `Grow` is one round of the loop in
`normalize_capacity`. `SizesFaithful` has the premise that payload and header
together fit into a `size_t`; see *Observations*.

## The runs

| Run | Instance | States | What it shows |
|---|---|---|---|
| `ring` | 8 bytes, counters modulo 16, prefix 2, records of 0, 1 and (too long) 2 bytes | 104 881 | `StaleViewsSound`, `NoDataRace`, `NeverCorrupted`, `MemoryHoldsQueue`, the inductive `DistanceInv`, and the ring implements `RecordQueue` |
| `lifecycle` | 2 producers, 2 consumers that pause and resume; an orderly world with a failing `create`, one with any overlap and failing calls, one with reused pids | 780 381 | everywhere: one reader per ring, no half-initialised ring, no leaked name; in the orderly world: reachable ring and so a sole producer, nobody refused because of a dead one, every running ring gets a consumer unless one stays paused |
| `start_race`, `restart_race` | 2 producers, 1 consumer | | findings, see below |
| `stream` | 2 slots, 3 packets, kills on both sides, 1 restart; `block`, and `discard` with `--once` and `--wait-for-consumer` | 306 008 | `NothingLost`, `DeliveredOnce`, `NoDefects`, `SummaryComplete`, `StopObeyed`, `StreamEndNoticed`, `AllDelivered` |
| `control` | 3 signals, 2 keys, a second reader of the terminal, an unblocked signal at any moment | 222 584 | `TerminalMode` for every end but that by the unblocked signal; `StopSignalObeyed` and `ShutdownCompletes` unless a key is snatched away |
| `rate_limiter` | interval 3, clock up to 11 | 36 135 | `MinSpacing`, `Cadence` |
| `accounting` | 3 packets, 2 kinds of damage, clock up to 1, repeats while fewer than 3 packets were received | 2 225 176 | `DetectionExact`, `TimestampsQuiet`, `SummaryAddsUp` |
| `loop_timing` | timeout 10, report period 10, rate interval 7, naps of 4, 6 and up to 4 ticks, clock up to 42 | 11 565 598 | `RoomIsTaken`, `StopPrompt`, `ReportsTile`, `ReportsTimely` |
| `packet_integrity` | payloads of 0 and 11 bytes, both CRCs, with and without instructions, 2 packets, chunks of 2 blocks of 4 bytes, five patterns of 1 to 32 bits at every place | 22 640 | `SealAgrees`, `DamageShows`, `ChunksInvisible` |
| `packet_sizes` | sizes of 6 bits, lengths of 4, pages of 4 bytes, all numbers up to 65 with 5 suffixes, twice | 312 362 | `CapacityTight`, `SizesFaithful`, `Decided` |
| `command_line` | both programs, up to 3 items and every spelling of them | 108 754 | `MeaningKept`, `StartsAsMeant` |

**Why the bounds are enough to be interesting.** In the ring the counters wrap
after two rounds of the data area and there is no bound on the number of calls,
so every combination of positions is reached; the record sizes include the empty
record, of which four fill the ring exactly, one of odd size, after which the
two bytes of a length prefix straddle the end of the data area, and one that is
too long. `Wrap` is twice the capacity, the smallest value at which
full and empty differ. The stream is longer than the ring, so the producer has to
wait; one restart suffices for a packet to be handed over. Two processes of a
kind suffice for every race that the two-step checks of the transport have. Three
signals are one of each kind, two keys a pause and a stop or a pause and a
resume. The limiter's clock allows four slots on time, or a stall of more
than two intervals with slots around it. The clock of `loop_timing` goes beyond the
latest moment that `ReportsTimely` allows for the first report, and beyond two full
waits; the timeout ends in the middle of a sleep, the longest sleep cuts the
doubling off (1, 2, 4, 4), and a slot of the limiter takes two naps. In
`accounting` three packets and a repeat suffice for a baseline that is set back
(0, 1, 0, 2) and for a lost packet that comes late. The patterns of
`packet_integrity` are one bit, two neighbours, the two ends, six scattered bits and
all 32: each lies inside the header, the checksum field or the payload and across
every edge between them, and turns one algorithm's number into the other's. A payload of 11 bytes
is one whole chunk and a short one, and its record leaves bytes over after the
blocks of eight of the CRC. 6 and 4 bits keep the order of the code's widths:
header field and length prefix are narrower than the sizes, and the numbers go
beyond the largest size. Three items are enough for an option, what it swallows
and what follows.

**Deadlock** is checked in the ring, where somebody can always act. All other
runs switch it off: programs end, and when all have ended nothing moves; that
they do not get stuck before is what the liveness properties say.

**Fairness.** `PacketStream`: weak fairness of each program's own steps, because
every wait in both loops is bounded by a timeout and polls. `ShmLifecycle`: weak
fairness of a started program's steps, since `connect` is a polling loop; a paused
consumer has no step, and none is forced to resume.
`ControlThreads`: weak fairness of each of the three threads, i.e. the scheduler
runs them. `PacketSizes`: the start of a program is a sequential computation that
goes on. Never assumed: that anybody starts, stops, pauses, kills, signals or
types. `StreamEndNoticed`, `AllDelivered` and `RunningRingGetsConsumer` state in
their premise that nobody stays paused for ever. `ShutdownCompletes` allows for a
program that is slain on the way. `StopSignalObeyed` and `ShutdownCompletes` except the one
wait that no timeout bounds, the `read()` of a key that is gone;
`StopSignalObeyed` also relies on a finite number of signals: POSIX would allow
an endless flood of others to be taken first.

## Findings

* `start_race`: two producers started at once both come up, although the
  project's README says a second one is refused. The look at the old object
  (`shm_transport.cpp:73-88`) and its replacement (`shm_region.cpp:58-59`) are
  separate steps. When producers do not overlap, `lifecycle` shows the claim to
  hold (`LiveRingReachable`).
* `restart_race`: a producer that starts between its predecessor's store of
  `ProducerFinished` and its `shm_unlink` (`shm_transport.cpp:98-101`) creates
  its ring under the name and then loses that name to the predecessor.

## Observations

Met while modelling, visible in the modules, not claims of a run:

* Every exception of `try_open` is swallowed (`shm_transport.cpp:74-78`), also one
  that says nothing about the object; the ring of a live producer is then
  replaced. This is why `Orderly` excludes failing opens.
* A killed producer whose pid answers to `kill(pid, 0)` keeps its successor from
  starting. This is why `Orderly` excludes reused pids.
* `read()` in the keyboard thread has no timeout (`keyboard_source.cpp:47`):
  `Robbed` in the two liveness properties.
* `kHeaderSize + payload_size` wraps for payload sizes that leave less than a
  header to 2^64 (`producer_app.cpp:17`), and such a size is accepted: the premise
  of `SizesFaithful`.
* `wait_for_slot` has no timeout: with a rate below one packet per report interval
  the reports keep the rate's pace, which is why `ReportsTimely` allows for one
  interval of the limiter.
* A packet whose number goes back becomes the new baseline
  (`packet_validator.cpp:87`), also when it is an old one. After 0, 1, 2, 0, 3 the
  summary shows 2 missing packets, although none was lost; the next packet that is
  repeated may pass for a gap. This is why `DetectionExact` is an equation only as
  long as no packet but the last comes again, and an inequality otherwise.
* SIGKILL, SIGQUIT and SIGPIPE are neither blocked nor handled and leave the
  terminal in raw mode; the README of the repository says so of SIGKILL.
* A consumer that is left paused does not notice that its producer has ended, and
  does not attach to the next one's ring.
* `SuffixAccepted` accepts any one or two letters out of `i` and `b` after a unit,
  `4Kbi` included; `byte_size.hpp` speaks of `B` and `iB` only.
* `value()` of a declared option is never empty-handed (`cli.cpp:64-68`), so the
  message that a payload size is required cannot appear.

## What is proved

All proofs are for every value of the constants that satisfies the assumptions.

**`SpscRingProofs`**, from `RingAssumption`: a capacity of at least one byte, a
prefix that fits, and `Wrap` a multiple of the capacity, at least twice it (in
the code a power of two from one page up, and 2^64).

* `TypeCorrect`: `Spec => []TypeOK`
* `CountersOrdered`: `Spec => []DistanceInv`
* `LoadsSound`: `Spec => []StaleViewsSound`
* `RaceFree`: `Spec => []NoDataRace`
* `NeverCorruptedHolds`: `Spec => []NeverCorrupted`
* `MemoryFaithful`: `Spec => []MemoryHoldsQueue`
* `RingIsAQueue`: `Spec => ImplementsRecordQueue`, the refinement

The inductive invariant of the first four is `IInv == TypeOK /\ DistanceInv`.
`NoDataRace` is not inductive: it speaks of the cached tail but not of the older
tails that a load may still return, and modular differences alone do not say
which of two counters is ahead. `DistanceInv` measures everything back from
`head`: all tails that can be held or loaded lie between the true tail and the
cached one, all heads between the true head and the cached one, and all within
one capacity. Each action moves one end of one of these distances. Arithmetic
modulo `Wrap` is confined to the lemmas on `Plus` and `Minus` (`MinusPlus`,
`MinusShorter`, `MinusSplit`), the step from distances to addresses to
`CellDistinct` and `SlotDisjoint`: two offsets less than a capacity apart have
different cells, because `Wrap` is a multiple of the capacity.

The last three rest on `RingInv`, which adds where the records are: each is
stored at its offset (`AllStored`), each begins where the one before it ends, from
tail to head (`Chained`), no two overlap, in distances from head (`RecordsApart`),
every head that the consumer may load is the boundary of a record
(`HeadsAtBoundaries`), and the reserved slot holds its length, the peeked record is
the oldest (`HandsInv`). `NeverCorrupted` needs all of it: the consumer reads a
length where the head it has loaded says that a record begins. The refinement
maps the queue's records to their bodies; `WriteSlot`, the loads and failed calls
are stuttering, `Commit`, successful peeks, `Release` and `Reattach` the four
steps of `RecordQueue`.

**`ShmLifecycleProofs`**, from `LifecycleAssumption`: producers and consumers are
different programs; any number of either and any set of worlds.

* `SlotIsHeld`: `Spec => []AttachedHoldsSlot`
* `NoNameLeaks`: `Spec => []NoLeak`
* `RingIsReachable`: `Spec => []LiveRingReachable`
* `RefusedRightly`: `Spec => RefusedOnlyByLive`, an action property

`LifecycleInv` says what each check leaves behind for the act that follows it. A
consumer that is about to exchange the slot expects nobody, or somebody it has
seen dead, who stays dead (`SlotInv`); what was seen of a mapped object stays true
(`MappedRings`, `RingPhases`); a name is bound to an object whose producer has not
come to its unlink (`NameOwned`). In an orderly world at most one producer starts
or ends at a time (`OneAtATime`), so where the name points at each step of a start
is known, and that nobody runs once a start has decided to replace what it found
(`NameInv`). Without that premise the last two theorems are false: the findings.

**`PacketStreamProofs`**, from `StreamAssumption`: at least one slot and one
packet, any configurations, restarts and kills.

* `NoPacketLost`: `Spec => []NothingLost`
* `HandedOutOnce`: `Spec => []DeliveredOnce`
* `ValidatorQuiet`: `Spec => []NoDefects`
* `SummaryIsComplete`: `Spec => []SummaryComplete`

The ring holds consecutive packets (`Consecutive`), so two numbers describe it: its
oldest packet and the front, the next packet to be handed out. What lies before the
oldest has been handed out, of the rest at most the oldest (`HandedOut`), and then a
killed consumer has paid for it (`RepeatsPaid`). The validator's baseline is the
front, or there is none because of a pause (`BaselineExact`, `PauseKnown`); received
and dropped packets add up to the distance between front and first packet of the
session (`CountExact`); a session that has seen the end of the stream has nothing
left to read (`StreamOver`). None of the four properties is inductive: each speaks
of a result and not of the ring it comes from.

**`PacketAccountingProofs`**, from `AccountingAssumption`: any stream, tolerance and
set of damages.

* `DetectionIsExact`: `Spec => []DetectionExact`
* `TimestampsStayQuiet`: `Spec => []TimestampsQuiet`
* `SummaryAlwaysAddsUp`: `Spec => []SummaryAddsUp`

`AccountingInv` ties the validator to the stream: packets on their way are numbered
without a hole up to the next to be built (`InFlightNumbered`), those whose turn is
over come before them (`PastBefore`), between the last intact packet and the next to
arrive lies exactly the hole (`HoleExact`), and the baseline is a packet whose turn is
over, the last intact one unless a pause has discarded some or an older packet came
late or again (`BaselineInv`). `TimestampsOrdered` does the same for the clock. What one packet
does to the counters is stated once (`ProcessIntact`, `ProcessDamaged`).

**`LoopTimingProofs`, waits and reports**, from `TimingAssumption`: any times; the period and the
backoff's sleeps are not zero.

* `StopIsPrompt`: `Spec => []StopPrompt`
* `ReportsDoTile`: `Spec => []ReportsTile`
* `ReportsAreTimely`: `Spec => []ReportsTimely`
* `RoomIsTakenInTime`: `Spec => []RoomIsTaken`

`StopInv` and `BehindInv` bound, place by place in the loop, how far the clock can
be behind the stop request and behind the moment the next report is due. The
second follows a turn through the limiter (a slot is at most an interval away), the
free steps of the backoff (each up to `Late`) and its sleeps (before the deadline
but for the last). `TileInv` adds that timer and window are reset within `Late` of
each other. `RoomInv` says, place by place in the wait, how long ago the room was made
that has not been taken yet: before the look at the deadline no time has passed since,
because the attempt right before it has found none.

**`LoopTimingProofs`, rate limiter**, from `LimiterAssumption`: an interval of at
least one tick.

* `RateKept`: `LimiterSpec => []MinSpacing`
* `CadenceKept`: `LimiterSpec => []Cadence`

The invariant adds `SlotsAhead` (since slot i was granted, `next_` has moved on
by an interval for every later slot and by something more) and `InStep` (`next_`
is `base` plus an interval per slot of the cadence). A slot is granted at `next_`
or later, which gives both properties for the new slot.

**`LoopTimingProofs`, control threads**, for any number of signals and keys.

* `TerminalRestored`: `ThreadsSpec => []TerminalMode`

`TerminalInv` adds that no signal is fatal once `SignalControlSource` exists
(`SignalsBlocked`), and where `main()` is while the terminal is switched and while
the keyboard thread reads: `TerminalMode` alone does not say why none of the signals
that the program handles can end it in between. After an end by any other signal
nothing is claimed of the terminal.

**`PacketIntegrityProofs`**, from `IntegrityAssumption`: payloads of any size, blocks
of at least one byte and chunks of at least one block, any number of packets, any
patterns of damage within 32 bits.

* `ChecksumsAgree`: `Spec => []SealAgrees`
* `ChunksDoNotMatter`: `Spec => []ChunksInvisible`
* `BurstsAreSeen`: `Spec => []DamageShows`

One number stands behind all ways to compute a checksum: `Divide(p, s, data)`, the
remainder of the data, read as one long word and begun with the register `s`. It is
linear (`ShiftBitsXor`), and dividing two pieces one after the other is dividing the
whole (`DivideCat`), so neither the chunks of `build()` nor the two pieces of
`packet_checksum()` matter. A table entry is eight steps of the division, each
further slice eight more over zeros (`TableIs`), which makes `SliceStep` the division
of eight bytes (`SliceStepIs`); `SliceIs`, `HardwareIs` and `ReferenceIs` carry this
to inputs of every length, `UpdateIs` sums it up. The inductive invariant
`TypeOK /\ Filling /\ Sealed` says that the part of a record that is written is the
header and one `fill()` of as many bytes, a number of whole blocks unless it is all of
them, and that the running checksum is its remainder. None of the three properties is
inductive: they speak of the finished record only. Damage adds its own remainder
(`FlipDivide`), and a burst within 32 bits has one that is not zero, because both
polynomials have their highest bit (`StaysNonzero`, `BurstRemains`). `FlipShows` splits by place:
damage that begins before the checksum field changes a field that the consumer compares
with what it expects, damage within the field changes the checksum alone, damage behind
it the checksummed bytes alone. The premise of `DamageShows` is needed: damage across the
end of the field, or a swapped algorithm, leaves two numbers of which nothing relates one
to the other.

**`CommandLineProofs`, parser and decisions**, from `CommandLineAssumption`: any set
of words and of options that are set, command lines of any length; `None` is no word.

* `ParserKeepsMeaning`: `Spec => []MeaningKept`
* `OptionsAreJudged`: `Spec => []StartsAsMeant`

The parser sees arguments, the user means items, and an option may swallow an
argument that looks like another. `CommandInv` says that before `--` the parser
always stands between two items (`ReadAt`): behind the first `n` of them, with the
entries, flags and arguments that these mean. Behind `--` arguments are taken one by
one, also from the middle of an item; there what has been taken followed by the rest
of `argv` is what is meant (`ReadBehind`). Both end in `Done`. The first argument of
an item tells the parser which kind it is (`KnownAs`), and the malformed item that
it meets is the first (`ComplaintIs`).

**`CommandLineProofs`, sizes**, from `SizesAssumption`: sizes wrap at four times
`Quarter`, a page holds more than a length prefix and is at most a quarter,
units multiply by at least two.

* `CapacityRounded`: `SizesSpec => []CapacityTight`
* `SizesKept`: `SizesSpec => []SizesFaithful`

The invariant `SizesInv` says that once the options are parsed, the sizes are
what was written (`ParseExact`, which rests on `QuotientBound`: the overflow check
by division is exact), that the capacity never exceeds half the modulus, so that
doubling never wraps, and that it is one page or less than twice the request.
Neither property is inductive: both speak of the end of a loop only.

**`Recursion`.** Neither the induction theorems of the library nor its theorems about
recursive functions can be used here, because they take operators as parameters.
`SetInduction` takes a set instead of a predicate, and follows from the well-foundedness
of the numbers, which the library states for sets (`WFMin`). A recursive function is
treated as the values that it takes one after the other (`Chain`): they exist
(`ChainExists`), whatever satisfies the recursion takes them (`ChainOf`), and there is
one such function (`ChainUnique`), which settles the `CHOOSE` in its definition. The
functions of `Checksum` and the library's `FlattenSeq` are handled like this.

Every inductive invariant was first checked by TLC on the instance of its
component's run, but for that of `PacketIntegrityProofs`: TLC cannot evaluate
`Divide`, whose recursion is one level per bit of the record. The three properties
themselves were.

**Only model-checked.** Liveness under fairness is out of the prover's reach:
`StopObeyed`, `StreamEndNoticed`, `AllDelivered`, `StopSignalObeyed`,
`ShutdownCompletes`, `Decided` and `RunningRingGetsConsumer`.

## Not modelled

* The seeding and stepping of the random generator's lanes: its values make no
  difference to anything but themselves.
* The registries that find a checksum, a generator or a policy by name, the
  conversion of decimal fractions, help texts.
* Reporters, log lines, formatting, rates computed from counts: output only.
* Objects under the name that another program created.
* Moving a `MirroredShmRegion`: the mapping changes its C++ owner within one
  process and nothing that another process sees.

## Plan

Every safety invariant and action property of a passing run is proved. What is left is to keep models and proofs in step
with the code.
