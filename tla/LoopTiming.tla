----------------------------- MODULE LoopTiming -----------------------------
(***************************************************************************)
(* The producer's loop against the clock: the backoff (backoff.hpp) inside *)
(* wait_until() (shm_transport.cpp), the naps while paused and in the rate *)
(* limiter, and the reports that a PeriodicTimer and a RateWindow          *)
(* (stats.cpp) make of it.  The consumer's loop has the same parts.        *)
(*                                                                         *)
(* Time passes in sleeps, which last as long as asked for or up to Late    *)
(* longer, while a packet is built, and between two readings of the clock  *)
(* that the code takes one after the other.                                *)
(***************************************************************************)
EXTENDS Naturals, FiniteSetsExt

CONSTANTS
  FreeSteps,     \* kSpinSteps + kYieldSteps
  BaseSleep,     \* the first sleep of the backoff (50 us)
  kMaxSleep,     \* cap of its sleeps (1 ms)
  Timeout,       \* reserve_timeout
  PausedTick,    \* sleep of a paused turn (10 ms)
  LimiterNap,    \* longest sleep of the rate limiter (20 ms)
  RateInterval,  \* interval of the rate limiter; 0 when it is disabled
  Period,        \* report_interval
  Count,         \* --count
  Late,          \* bound: how much longer a step may take than it should
  MaxClock,      \* bound: ticks
  None

ASSUME TimingAssumption ==
  /\ {FreeSteps, Timeout, PausedTick, LimiterNap, RateInterval, Late, MaxClock} \subseteq Nat
  /\ {BaseSleep, kMaxSleep, Period, Count} \subseteq Nat \ {0}
  /\ None \notin Nat

VARIABLES
  clock,
  pc,
  room,      \* the ring has room for a packet
  roomAt,    \* history: when room was made for the reserve() that waits, or None
  paused,    \* RunControl
  stopAt,    \* when stop was requested, or None
  step,      \* Backoff::step_
  deadline,  \* of wait_until()
  slot,      \* RateLimiter::next_
  sent,      \* sequence
  next,      \* PeriodicTimer::next_
  start,     \* RateWindow::start_
  packets,   \* RateWindow::packets_
  reports    \* history: sums over the reports that were made, and the shortest window

vars == <<clock, pc, room, roomAt, paused, stopAt, step, deadline, slot, sent, next, start, packets, reports>>

stop == stopAt # None

\* Time passes, and stop may be requested meanwhile: nothing cuts a sleep short.
Lasts(d) ==
  /\ clock' \in (clock + d)..(clock + d + Late) /\ clock' <= MaxClock
  /\ stopAt' = stopAt \/ (~stop /\ stopAt' \in clock..clock')

Init ==
  /\ clock = 0
  /\ pc = "loop"
  /\ room \in BOOLEAN
  /\ roomAt = None
  /\ paused = FALSE
  /\ stopAt = None
  /\ step = 0
  /\ deadline = 0
  /\ slot = 0
  /\ sent = 0
  /\ next \in Nat \cap ((Period - Late)..Period)   \* built before the window
  /\ start = 0
  /\ packets = 0
  /\ reports = [packets |-> 0, elapsed |-> 0, shortest |-> None]

-----------------------------------------------------------------------------
(* ProducerApp::run()                                                       *)

Turn ==
  /\ pc = "loop"
  /\ pc' = IF stop \/ sent >= Count THEN "ended" ELSE IF paused THEN "paused" ELSE "limit"
  /\ UNCHANGED <<clock, room, roomAt, paused, stopAt, step, deadline, slot, sent, next, start, packets, reports>>

PausedTurn ==
  /\ pc = "paused"
  /\ Lasts(PausedTick)
  /\ pc' = "report"
  /\ UNCHANGED <<room, roomAt, paused, step, deadline, slot, sent, next, start, packets, reports>>

\* RateLimiter::wait_for_slot(): naps until the slot is due or stop is requested.
LimiterWait ==
  /\ pc = "limit" /\ RateInterval # 0 /\ clock < slot /\ ~stop
  /\ Lasts(Min({slot - clock, LimiterNap}))
  /\ UNCHANGED <<pc, room, roomAt, paused, step, deadline, slot, sent, next, start, packets, reports>>

LimiterSlot ==
  /\ pc = "limit" /\ (RateInterval = 0 \/ clock >= slot \/ stop)
  /\ slot' = IF RateInterval = 0 THEN slot
             ELSE IF clock < slot + RateInterval THEN slot + RateInterval ELSE clock + RateInterval
  /\ pc' = "reserve"
  /\ UNCHANGED <<clock, room, roomAt, paused, stopAt, step, deadline, sent, next, start, packets, reports>>

\* wait_until(): the first attempt, before the clock is read.
FirstAttempt ==
  /\ pc = "reserve"
  /\ pc' = IF room THEN "build" ELSE IF Timeout = 0 THEN "report" ELSE "wait"
  /\ deadline' = IF pc' = "wait" THEN clock + Timeout ELSE deadline
  /\ UNCHANGED <<step, clock, room, roomAt, paused, stopAt, slot, sent, next, start, packets, reports>>

\* The deadline and the backoff are local to wait_until().
Leave(to) == pc' = to /\ step' = 0 /\ deadline' = 0

\* Backoff::wait(): spins and yields, then sleeps longer and longer.
Sleep == IF step < FreeSteps THEN 0
         ELSE Min({BaseSleep * 2 ^ Min({step - FreeSteps, 4}), kMaxSleep})

sleeping == step >= FreeSteps

\* Mutant of BackOff: the loop does not look at the stop token.
BackOffDeaf ==
  /\ pc = "wait"
  /\ Lasts(Sleep)
  /\ step' = Min({step + 1, FreeSteps + 8})
  /\ pc' = "retry"
  /\ UNCHANGED <<room, roomAt, paused, deadline, slot, sent, next, start, packets, reports>>

BackOff ==
  /\ pc = "wait" /\ ~stop
  /\ Lasts(Sleep)
  /\ step' = Min({step + 1, FreeSteps + 8})
  /\ pc' = "retry"
  /\ UNCHANGED <<room, roomAt, paused, deadline, slot, sent, next, start, packets, reports>>

StopWaiting ==
  /\ pc = "wait" /\ stop
  /\ Leave("report")
  /\ UNCHANGED <<clock, room, roomAt, paused, stopAt, slot, sent, next, start, packets, reports>>

\* Mutant of Retry: the deadline is looked at before the last attempt.
RetryTooLate ==
  /\ pc = "retry"
  /\ \/ /\ sleeping /\ clock >= deadline
        /\ Leave("report") /\ UNCHANGED roomAt
     \/ /\ ~(sleeping /\ clock >= deadline)
        /\ \/ room /\ Leave("build") /\ roomAt' = None
           \/ ~room /\ pc' = "late" /\ UNCHANGED <<roomAt, step, deadline>>
  /\ UNCHANGED <<clock, room, paused, stopAt, slot, sent, next, start, packets, reports>>

\* The attempt after the backoff.
Retry ==
  /\ pc = "retry"
  /\ \/ room /\ Leave("build") /\ roomAt' = None
     \/ ~room /\ pc' = "late" /\ UNCHANGED <<roomAt, step, deadline>>
  /\ UNCHANGED <<clock, room, paused, stopAt, slot, sent, next, start, packets, reports>>

\* The deadline, for which the clock is read only once the backoff sleeps.
CheckDeadline ==
  /\ pc = "late"
  /\ \/ ~sleeping /\ pc' = "wait" /\ UNCHANGED <<clock, stopAt, step, deadline>>
     \/ /\ sleeping /\ Lasts(0)
        /\ IF clock' >= deadline THEN Leave("report") ELSE pc' = "wait" /\ UNCHANGED <<step, deadline>>
  /\ UNCHANGED <<room, roomAt, paused, slot, sent, next, start, packets, reports>>

\* build(), commit() and RateWindow::add(); whether there is room for another.
Send ==
  /\ pc = "build"
  /\ Lasts(0)
  /\ room' \in BOOLEAN
  /\ sent' = sent + 1
  /\ packets' = packets + 1
  /\ pc' = "report"
  /\ UNCHANGED <<roomAt, paused, step, deadline, slot, next, start, reports>>

due == clock >= next

\* Mutant of NextReport: counts on from the last time.
NextReportCatchingUp == next + Period

\* PeriodicTimer::due()
NextReport == clock + Period

\* RateWindow::take(), which reads the clock again.
Sample == [packets |-> packets, elapsed |-> clock' - start]

\* report_if_due()
Report ==
  /\ pc = "report" /\ due
  /\ Lasts(0)
  /\ next' = NextReport
  /\ reports' = [packets  |-> reports.packets + Sample.packets,
                 elapsed  |-> reports.elapsed + Sample.elapsed,
                 shortest |-> Min({Sample.elapsed} \cup ({reports.shortest} \ {None}))]
  /\ packets' = 0
  /\ start' = clock'
  /\ pc' = "loop"
  /\ roomAt' = None
  /\ UNCHANGED <<room, paused, step, deadline, slot, sent>>

\* Mutant of NotDue: a turn without a packet does not come to its report.
NotDueUnlessSent ==
  /\ pc = "report" /\ (~due \/ packets = 0)
  /\ pc' = "loop"
  /\ roomAt' = None
  /\ UNCHANGED <<clock, room, paused, stopAt, step, deadline, slot, sent, next, start, packets, reports>>

NotDue ==
  /\ pc = "report" /\ ~due
  /\ pc' = "loop"
  /\ roomAt' = None
  /\ UNCHANGED <<clock, room, paused, stopAt, step, deadline, slot, sent, next, start, packets, reports>>

-----------------------------------------------------------------------------
(* The consumer and the user.                                               *)

Drain ==
  /\ ~room /\ room' = TRUE
  /\ roomAt' = IF pc \in {"wait", "retry", "late"} THEN clock ELSE roomAt
  /\ UNCHANGED <<clock, pc, paused, stopAt, step, deadline, slot, sent, next, start, packets, reports>>

TogglePause ==
  /\ paused' = ~paused
  /\ UNCHANGED <<clock, pc, room, roomAt, stopAt, step, deadline, slot, sent, next, start, packets, reports>>

RequestStop ==
  /\ ~stop /\ stopAt' = clock
  /\ UNCHANGED <<clock, pc, room, roomAt, paused, step, deadline, slot, sent, next, start, packets, reports>>

Next ==
  \/ Turn \/ PausedTurn \/ LimiterWait \/ LimiterSlot \/ FirstAttempt \/ BackOff \/ StopWaiting \/ Retry
  \/ CheckDeadline \/ Send \/ Report \/ NotDue
  \/ Drain \/ TogglePause \/ RequestStop

Spec == Init /\ [][Next]_vars

-----------------------------------------------------------------------------
(* Properties                                                               *)

LongestBackOff == Min({16 * BaseSleep, kMaxSleep})

LongestSleep == Max({LongestBackOff, PausedTick, LimiterNap}) + Late

\* Room that the consumer makes while reserve() waits is taken after one sleep of
\* the backoff at most.  When reserve() comes back without it, because its time is
\* over or stop was requested, the room was made at the very end, after the last
\* attempt: however the deadline falls into a sleep, that sleep is never in vain.
RoomIsTaken ==
  roomAt # None => /\ clock <= roomAt + LongestBackOff + 2 * Late
                   /\ pc = "report" => clock <= roomAt + Late

\* Wherever the loop is when stop is requested, it sleeps at most once more and
\* then ends; a packet that is being built and a report take their own time.
StopPrompt == stop /\ pc # "ended" => clock <= stopAt + LongestSleep + 2 * Late

\* The windows of the reports follow each other without hole or overlap, every
\* packet is counted in exactly one of them, and none is shorter than a period by
\* more than what passes between the clock readings of the timer and the window.
ReportsTile ==
  /\ reports.shortest # None => reports.shortest + Late >= Period
  /\ reports.elapsed = start
  /\ reports.packets + packets = sent

\* Both loops "keep reporting [...] even when blocked" (README.md of the repository):
\* on a full ring, while paused and with a rate limit, a report that is due is made
\* after one wait for a slot, which only the rate bounds, and one wait for room.
ReportsTimely ==
  pc # "ended" =>
    clock <= next + RateInterval + Max({Timeout, FreeSteps * Late}) + LongestSleep + 3 * Late

=============================================================================
