-------------------------- MODULE LoopTimingProofs --------------------------
(***************************************************************************)
(* Proofs about LoopTiming for every choice of its times and bounds, about *)
(* the RateLimiter that it calls, and about the ControlThreads that pause  *)
(* and stop it.                                                            *)
(*                                                                         *)
(* A turn of the loop is followed from one reading of the clock to the     *)
(* next: how late it may be at each point, measured from the moment at     *)
(* which the next report is due, and from the moment of a stop request.    *)
(***************************************************************************)
EXTENDS LoopTiming, RateLimiter, ControlThreads, TLAPS

Places == {"loop", "paused", "limit", "reserve", "wait", "retry", "late", "build", "report", "ended"}

TypeInv ==
  /\ clock \in Nat /\ pc \in Places /\ stopAt \in Nat \cup {None}
  /\ step \in Nat /\ deadline \in Nat /\ slot \in Nat
  /\ sent \in Nat /\ next \in Nat /\ start \in Nat /\ packets \in Nat
  /\ reports \in [packets : Nat, elapsed : Nat, shortest : Nat \cup {None}]

\* The window was last reset after the timer, and at most Late after it.
TileInv == ReportsTile /\ start <= clock /\ start + Period <= next + Late

\* How far the loop can be behind a stop request.
StopInv ==
  stop => /\ stopAt <= clock
          /\ pc = "paused" => clock = stopAt
          /\ pc \in {"limit", "reserve", "retry", "late", "build"} => clock <= stopAt + LongestSleep
          /\ pc \in {"wait", "report"} => clock <= stopAt + LongestSleep + Late
          /\ pc = "loop" => clock <= stopAt + LongestSleep + 2 * Late

\* The latest moment at which a turn can ask for room, and the longest it then waits
\* before its last sleep.
Asked   == next + RateInterval + 2 * Late
MaxWait == Max({Timeout, FreeSteps * Late})

\* How far the loop can be behind the report that is due next.
BehindInv ==
  /\ pc \in {"loop", "paused"} => clock <= next + Late
  /\ ~stop => slot <= clock + RateInterval
  /\ pc = "limit" => clock <= Asked /\ (~stop => slot <= next + RateInterval + Late)
  /\ pc = "reserve" => clock <= Asked
  /\ pc \notin {"wait", "retry", "late"} => step = 0
  /\ pc \in {"wait", "retry", "late"} => deadline <= Asked + Timeout /\ deadline >= Timeout
  /\ pc = "wait" => IF step < FreeSteps THEN clock <= deadline - Timeout + step * Late
                                        ELSE clock <= deadline
  /\ pc \in {"retry", "late"} => IF step <= FreeSteps THEN clock <= deadline - Timeout + step * Late
                                                      ELSE clock <= deadline + LongestSleep
  /\ pc = "build" => clock <= Asked + MaxWait + LongestSleep
  /\ pc = "report" => clock <= Asked + MaxWait + LongestSleep + Late

TimingInv == TypeInv /\ TileInv /\ StopInv /\ BehindInv

\* How long ago the room was made that the waiting reserve() has not taken yet.
RoomInv ==
  /\ roomAt \in Nat \cup {None}
  /\ roomAt # None => /\ room
                      /\ pc \in {"wait", "retry", "late", "report"}
                      /\ pc = "late" => clock = roomAt
                      /\ pc \in {"wait", "report"} => clock <= roomAt + Late
                      /\ pc = "retry" => clock <= roomAt + LongestBackOff + 2 * Late

-----------------------------------------------------------------------------
(* Sleeps.                                                                  *)

LEMMA Constants ==
  /\ FreeSteps \in Nat /\ Timeout \in Nat /\ PausedTick \in Nat /\ LimiterNap \in Nat
  /\ RateInterval \in Nat /\ Late \in Nat /\ BaseSleep \in Nat /\ kMaxSleep \in Nat
  /\ Period \in Nat \ {0} /\ None \notin Nat
BY TimingAssumption

LEMMA MinOfTwo ==
  ASSUME NEW a \in Nat, NEW b \in Nat
  PROVE  Min({a, b}) = IF a <= b THEN a ELSE b
<1>1. \E x \in {a, b} : \A y \in {a, b} : x <= y
  OBVIOUS
<1> QED
  BY <1>1 DEF Min

LEMMA MaxOfTwo ==
  ASSUME NEW a \in Nat, NEW b \in Nat
  PROVE  Max({a, b}) \in {a, b} /\ Max({a, b}) >= a /\ Max({a, b}) >= b
<1>1. \E x \in {a, b} : \A y \in {a, b} : x >= y
  OBVIOUS
<1> QED
  BY <1>1 DEF Max

LEMMA MaxOfThree ==
  ASSUME NEW a \in Nat, NEW b \in Nat, NEW c \in Nat
  PROVE  LET m == Max({a, b, c}) IN m \in {a, b, c} /\ m >= a /\ m >= b /\ m >= c
<1>1. \E x \in {a, b, c} : \A y \in {a, b, c} : x >= y
  OBVIOUS
<1> QED
  BY <1>1 DEF Max

\* The shift of Backoff::wait() is at most four.
LEMMA Shifted ==
  ASSUME NEW k \in 0 .. 4
  PROVE  2 ^ k \in Nat /\ BaseSleep * 2 ^ k \in Nat /\ BaseSleep * 2 ^ k <= 16 * BaseSleep
<1>1. 2 ^ 0 = 1 /\ 2 ^ 1 = 2 /\ 2 ^ 2 = 4 /\ 2 ^ 3 = 8 /\ 2 ^ 4 = 16
  OBVIOUS
<1>2. k = 0 \/ k = 1 \/ k = 2 \/ k = 3 \/ k = 4
  OBVIOUS
<1>3. 2 ^ k \in 1 .. 16
  <2>1. 2 ^ k \in {1, 2, 4, 8, 16}
    BY <1>1, <1>2, Zenon
  <2> QED
    BY <2>1
<1> DEFINE p == 2 ^ k
<1> HIDE DEF p
<1>4. p \in 1 .. 16
  BY <1>3 DEF p
<1>5. BaseSleep * p \in Nat /\ BaseSleep * p <= BaseSleep * 16
  BY <1>4, Constants
<1> QED
  BY <1>3, <1>5, Constants DEF p

\* Every sleep of the loop fits into LongestSleep.
LEMMA SleepBounds ==
  ASSUME TypeInv
  PROVE  /\ LongestSleep \in Nat
         /\ LongestBackOff \in Nat /\ Sleep \in Nat /\ Sleep <= LongestBackOff
         /\ Sleep + Late <= LongestSleep
         /\ step < FreeSteps => Sleep = 0
         /\ PausedTick + Late <= LongestSleep
         /\ LimiterNap + Late <= LongestSleep
<1> DEFINE longest == Min({16 * BaseSleep, kMaxSleep})
<1>1. step \in Nat
  BY DEF TypeInv
<1>2. longest \in Nat /\ longest = IF 16 * BaseSleep <= kMaxSleep THEN 16 * BaseSleep ELSE kMaxSleep
  BY Constants, MinOfTwo
<1>3. Sleep \in Nat /\ Sleep <= longest /\ (step < FreeSteps => Sleep = 0)
  <2>1. CASE step < FreeSteps
    BY <1>2, <2>1 DEF Sleep
  <2>2. CASE ~(step < FreeSteps)
    <3> DEFINE k == Min({step - FreeSteps, 4})
               s == BaseSleep * 2 ^ k
    <3>1. step - FreeSteps \in Nat
      BY <1>1, <2>2, Constants
    <3>2. k \in 0 .. 4
      BY <3>1, MinOfTwo
    <3> HIDE DEF k
    <3>3. s \in Nat /\ s <= 16 * BaseSleep
      BY <3>2, Shifted
    <3> HIDE DEF s
    <3>4. Min({s, kMaxSleep}) = IF s <= kMaxSleep THEN s ELSE kMaxSleep
      BY <3>3, Constants, MinOfTwo
    <3>5. Sleep = Min({s, kMaxSleep})
      BY <2>2 DEF Sleep, s, k
    <3> QED
      BY <1>2, <2>2, <3>3, <3>4, <3>5, Constants
  <2> QED
    BY <2>1, <2>2
<1> HIDE DEF longest
<1> DEFINE m == Max({longest, PausedTick, LimiterNap})
<1>4. m \in Nat /\ m >= longest /\ m >= PausedTick /\ m >= LimiterNap
  BY <1>2, Constants, MaxOfThree
<1> HIDE DEF m
<1>5. LongestSleep = m + Late
  BY DEF LongestSleep, LongestBackOff, m, longest
<1>6. LongestBackOff = longest
  BY DEF LongestBackOff, longest
<1> QED
  BY <1>2, <1>3, <1>4, <1>5, <1>6, Constants

LEMMA WaitBounds == MaxWait \in Nat /\ MaxWait >= Timeout /\ MaxWait >= FreeSteps * Late
<1>1. FreeSteps * Late \in Nat
  BY Constants
<1> QED
  BY <1>1, Constants, MaxOfTwo DEF MaxWait

\* One more step without a sleep, and no more of them than FreeSteps.
LEMMA StepsTimes ==
  ASSUME NEW k \in Nat
  PROVE  /\ k * Late \in Nat /\ (k + 1) * Late = k * Late + Late
         /\ k <= FreeSteps => k * Late <= FreeSteps * Late
BY Constants

LEMMA Later ==
  ASSUME NEW a \in Nat, NEW b \in Nat, NEW c \in Nat, NEW r \in Nat, a <= b + r, b <= c
  PROVE  a <= c + r
OBVIOUS

\* What a step of d ticks does to the clock and to the stop request.
LEMMA TimePasses ==
  ASSUME TypeInv, NEW d \in Nat, Lasts(d)
  PROVE  /\ clock' \in Nat /\ clock + d <= clock' /\ clock' <= clock + d + Late
         /\ stopAt' \in Nat \cup {None}
         /\ stopAt' = stopAt \/ (~stop /\ stop' /\ clock <= stopAt' /\ stopAt' <= clock')
BY Constants DEF TypeInv, Lasts, stop

-----------------------------------------------------------------------------
(* The steps.                                                               *)

\* A new turn.
LEMMA TurnInv ==
  ASSUME TimingInv, Turn
  PROVE  TimingInv'
<1>0. TypeInv
  BY DEF TimingInv
<1>1. /\ pc = "loop"
      /\ pc' \in {"ended", "paused", "limit"} /\ (stop => pc' = "ended")
      /\ UNCHANGED <<clock, stopAt, step, deadline, slot, sent, next, start, packets, reports>>
  BY DEF Turn
<1>2. TypeInv'
  BY <1>0, <1>1, Constants DEF TypeInv, Places
<1>3. TileInv'
  BY <1>0, <1>1, Constants DEF TimingInv, TypeInv, TileInv, ReportsTile
<1>4. StopInv'
  BY <1>0, <1>1, SleepBounds, Constants DEF TimingInv, TypeInv, StopInv, stop
<1>5. BehindInv'
  BY <1>0, <1>1, SleepBounds, WaitBounds, Constants DEF TimingInv, TypeInv, BehindInv, Asked, stop
<1> QED
  BY <1>2, <1>3, <1>4, <1>5 DEF TimingInv

\* A paused turn sleeps once.
LEMMA PausedTurnInv ==
  ASSUME TimingInv, PausedTurn
  PROVE  TimingInv'
<1>0. TypeInv
  BY DEF TimingInv
<1>1. /\ pc = "paused" /\ pc' = "report"
      /\ clock' \in Nat /\ clock <= clock' /\ clock' <= clock + PausedTick + Late
      /\ stopAt' \in Nat \cup {None}
      /\ stopAt' = stopAt \/ (~stop /\ stop' /\ clock <= stopAt' /\ stopAt' <= clock')
      /\ UNCHANGED <<step, deadline, slot, sent, next, start, packets, reports>>
  BY <1>0, TimePasses, Constants DEF PausedTurn, TypeInv
<1>2. TypeInv'
  BY <1>0, <1>1, Constants DEF TypeInv, Places
<1>3. TileInv'
  BY <1>0, <1>1, Constants DEF TimingInv, TypeInv, TileInv, ReportsTile
<1>4. StopInv'
  BY <1>0, <1>1, SleepBounds, Constants DEF TimingInv, TypeInv, StopInv, stop
<1>5. BehindInv'
  <2>s. ~stop' => slot' <= clock' + RateInterval
    <3> SUFFICES ASSUME ~stop' PROVE slot' <= clock' + RateInterval
      OBVIOUS
    <3>1. ~stop
      BY <1>1 DEF stop
    <3>2. slot <= clock + RateInterval
      BY <3>1 DEF TimingInv, BehindInv
    <3>3. clock \in Nat /\ clock' \in Nat /\ slot \in Nat /\ clock <= clock' /\ slot' = slot
      BY <1>0, <1>1 DEF TypeInv
    <3> QED
      BY <3>2, <3>3, Constants, Later
  <2>1. step' = 0 /\ clock' <= Asked' + MaxWait + LongestSleep + Late
    BY <1>0, <1>1, SleepBounds, WaitBounds, Constants DEF TimingInv, TypeInv, BehindInv, Asked
  <2> QED
    BY <1>1, <2>s, <2>1 DEF BehindInv
<1> QED
  BY <1>2, <1>3, <1>4, <1>5 DEF TimingInv

\* A nap of the rate limiter does not go past the slot.
LEMMA LimiterWaitInv ==
  ASSUME TimingInv, LimiterWait
  PROVE  TimingInv'
<1>0. TypeInv
  BY DEF TimingInv
<1>1. /\ pc = "limit" /\ pc' = "limit" /\ clock < slot /\ ~stop
      /\ clock' \in Nat /\ clock <= clock' /\ clock' <= slot + Late /\ clock' <= clock + LimiterNap + Late
      /\ stopAt' \in Nat \cup {None}
      /\ stopAt' = stopAt \/ (~stop /\ stop' /\ clock <= stopAt' /\ stopAt' <= clock')
      /\ UNCHANGED <<step, deadline, slot, sent, next, start, packets, reports>>
  <2>1. clock \in Nat /\ slot \in Nat /\ clock < slot /\ slot - clock \in Nat
    BY <1>0 DEF TypeInv, LimiterWait
  <2> DEFINE d == Min({slot - clock, LimiterNap})
  <2>2. d \in Nat /\ d <= slot - clock /\ d <= LimiterNap
    BY <2>1, Constants, MinOfTwo
  <2>3. Lasts(d)
    BY DEF LimiterWait
  <2> HIDE DEF d
  <2>4. /\ clock' \in Nat /\ clock + d <= clock' /\ clock' <= clock + d + Late
        /\ stopAt' \in Nat \cup {None}
        /\ stopAt' = stopAt \/ (~stop /\ stop' /\ clock <= stopAt' /\ stopAt' <= clock')
    BY <1>0, <2>2, <2>3, TimePasses
  <2> QED
    BY <2>1, <2>2, <2>4, Constants DEF LimiterWait
<1>2. TypeInv'
  BY <1>0, <1>1, Constants DEF TypeInv, Places
<1>3. TileInv'
  BY <1>0, <1>1, Constants DEF TimingInv, TypeInv, TileInv, ReportsTile
<1>4. StopInv'
  BY <1>0, <1>1, SleepBounds, Constants DEF TimingInv, TypeInv, StopInv, stop
<1>5. BehindInv'
  <2>s. ~stop' => slot' <= clock' + RateInterval
    <3> SUFFICES ASSUME ~stop' PROVE slot' <= clock' + RateInterval
      OBVIOUS
    <3>1. ~stop
      BY <1>1 DEF stop
    <3>2. slot <= clock + RateInterval
      BY <3>1 DEF TimingInv, BehindInv
    <3>3. clock \in Nat /\ clock' \in Nat /\ slot \in Nat /\ clock <= clock' /\ slot' = slot
      BY <1>0, <1>1 DEF TypeInv
    <3> QED
      BY <3>2, <3>3, Constants, Later
  <2>1. step' = 0 /\ clock' <= Asked' /\ slot' <= next' + RateInterval + Late
    BY <1>0, <1>1, Constants DEF TimingInv, TypeInv, BehindInv, Asked
  <2> QED
    BY <1>1, <2>s, <2>1 DEF BehindInv
<1> QED
  BY <1>2, <1>3, <1>4, <1>5 DEF TimingInv

\* The slot after this one is at most an interval away.
LEMMA LimiterSlotInv ==
  ASSUME TimingInv, LimiterSlot
  PROVE  TimingInv'
<1>0. TypeInv
  BY DEF TimingInv
<1>1. /\ pc = "limit" /\ pc' = "reserve"
      /\ slot' \in Nat /\ (~stop => slot' <= clock + RateInterval)
      /\ UNCHANGED <<clock, stopAt, step, deadline, sent, next, start, packets, reports>>
  <2>1. clock \in Nat /\ slot \in Nat /\ (~stop => slot <= clock + RateInterval)
    BY <1>0 DEF TimingInv, TypeInv, BehindInv
  <2> QED
    BY <2>1, Constants DEF LimiterSlot
<1>2. TypeInv'
  BY <1>0, <1>1, Constants DEF TypeInv, Places
<1>3. TileInv'
  BY <1>0, <1>1, Constants DEF TimingInv, TypeInv, TileInv, ReportsTile
<1>4. StopInv'
  BY <1>0, <1>1, SleepBounds, Constants DEF TimingInv, TypeInv, StopInv, stop
<1>5. BehindInv'
  BY <1>0, <1>1, SleepBounds, WaitBounds, Constants DEF TimingInv, TypeInv, BehindInv, Asked, stop
<1> QED
  BY <1>2, <1>3, <1>4, <1>5 DEF TimingInv

\* wait_until() reads the clock only when the first attempt fails.
LEMMA FirstAttemptInv ==
  ASSUME TimingInv, FirstAttempt
  PROVE  TimingInv'
<1>0. TypeInv
  BY DEF TimingInv
<1>1. /\ pc = "reserve"
      /\ \/ pc' \in {"build", "report"} /\ deadline' = deadline
         \/ pc' = "wait" /\ deadline' = clock + Timeout
      /\ UNCHANGED <<clock, stopAt, step, slot, sent, next, start, packets, reports>>
  BY DEF FirstAttempt
<1>2. TypeInv'
  BY <1>0, <1>1, Constants DEF TypeInv, Places
<1>3. TileInv'
  BY <1>0, <1>1, Constants DEF TimingInv, TypeInv, TileInv, ReportsTile
<1>4. StopInv'
  BY <1>0, <1>1, SleepBounds, Constants DEF TimingInv, TypeInv, StopInv, stop
<1>5. BehindInv'
  <2>1. step = 0 /\ step * Late = 0 /\ clock <= Asked
    BY <1>0, <1>1, Constants DEF TimingInv, TypeInv, BehindInv
  <2> QED
    BY <1>0, <1>1, <2>1, SleepBounds, WaitBounds, Constants DEF TimingInv, TypeInv, BehindInv, Asked, stop
<1> QED
  BY <1>2, <1>3, <1>4, <1>5 DEF TimingInv

\* The backoff spins, yields or sleeps.
LEMMA BackOffInv ==
  ASSUME TimingInv, BackOff
  PROVE  TimingInv'
<1>0. TypeInv
  BY DEF TimingInv
<1>1. /\ pc = "wait" /\ pc' = "retry" /\ ~stop
      /\ clock' \in Nat /\ clock <= clock' /\ clock' <= clock + Sleep + Late
      /\ stopAt' \in Nat \cup {None}
      /\ stopAt' = stopAt \/ (~stop /\ stop' /\ clock <= stopAt' /\ stopAt' <= clock')
      /\ step' \in Nat /\ step' = IF step + 1 <= FreeSteps + 8 THEN step + 1 ELSE FreeSteps + 8
      /\ UNCHANGED <<deadline, slot, sent, next, start, packets, reports>>
  <2>1. step' = IF step + 1 <= FreeSteps + 8 THEN step + 1 ELSE FreeSteps + 8
    BY <1>0, MinOfTwo, Constants DEF TypeInv, BackOff
  <2>2. /\ clock' \in Nat /\ clock + Sleep <= clock' /\ clock' <= clock + Sleep + Late
        /\ stopAt' \in Nat \cup {None}
        /\ stopAt' = stopAt \/ (~stop /\ stop' /\ clock <= stopAt' /\ stopAt' <= clock')
    BY <1>0, SleepBounds, TimePasses DEF BackOff
  <2>3. clock \in Nat /\ step \in Nat /\ Sleep \in Nat
    BY <1>0, SleepBounds DEF TypeInv
  <2>4. pc = "wait" /\ pc' = "retry" /\ ~stop /\ UNCHANGED <<deadline, slot, sent, next, start, packets, reports>>
    BY DEF BackOff
  <2>5. step' \in Nat /\ clock <= clock'
    BY <2>1, <2>2, <2>3, Constants
  <2> QED
    BY <2>1, <2>2, <2>4, <2>5
<1>2. TypeInv'
  BY <1>0, <1>1, Constants DEF TypeInv, Places
<1>3. TileInv'
  BY <1>0, <1>1, Constants DEF TimingInv, TypeInv, TileInv, ReportsTile
<1>4. StopInv'
  BY <1>0, <1>1, SleepBounds, Constants DEF TimingInv, TypeInv, StopInv, stop
<1>5. BehindInv'
  <2>s. ~stop' => slot' <= clock' + RateInterval
    <3> SUFFICES ASSUME ~stop' PROVE slot' <= clock' + RateInterval
      OBVIOUS
    <3>1. ~stop
      BY <1>1 DEF stop
    <3>2. slot <= clock + RateInterval
      BY <3>1 DEF TimingInv, BehindInv
    <3>3. clock \in Nat /\ clock' \in Nat /\ slot \in Nat /\ clock <= clock' /\ slot' = slot
      BY <1>0, <1>1 DEF TypeInv
    <3> QED
      BY <3>2, <3>3, Constants, Later
  <2>0. deadline' <= Asked' + Timeout /\ deadline' >= Timeout
    BY <1>1 DEF TimingInv, BehindInv, Asked
  <2>1. step \in Nat /\ clock \in Nat /\ deadline \in Nat /\ step * Late \in Nat /\ (step + 1) * Late = step * Late + Late
    BY <1>0, StepsTimes DEF TypeInv
  <2>2. CASE step < FreeSteps
    <3>1. step' = step + 1 /\ step' <= FreeSteps /\ clock' <= clock + Late
      BY <1>0, <1>1, <2>1, <2>2, SleepBounds, Constants
    <3>2. clock <= deadline - Timeout + step * Late
      BY <1>1, <2>2 DEF TimingInv, BehindInv
    <3>3. clock' <= deadline' - Timeout + step' * Late
      BY <1>1, <2>1, <3>1, <3>2, Constants
    <3> QED
      BY <1>1, <2>s, <2>0, <3>1, <3>3 DEF BehindInv
  <2>3. CASE ~(step < FreeSteps)
    <3>1. step' > FreeSteps
      BY <1>1, <2>1, <2>3, Constants
    <3>2. clock' <= deadline' + LongestSleep
      BY <1>0, <1>1, <2>1, <2>3, SleepBounds, Constants DEF TimingInv, BehindInv
    <3> QED
      BY <1>1, <2>s, <2>0, <3>1, <3>2, Constants DEF BehindInv
  <2> QED
    BY <2>2, <2>3
<1> QED
  BY <1>2, <1>3, <1>4, <1>5 DEF TimingInv

\* A stop request ends the wait.
LEMMA StopWaitingInv ==
  ASSUME TimingInv, StopWaiting
  PROVE  TimingInv'
<1>0. TypeInv
  BY DEF TimingInv
<1>1. /\ pc = "wait" /\ pc' = "report" /\ stop
      /\ step' = 0 /\ deadline' = 0
      /\ UNCHANGED <<clock, stopAt, slot, sent, next, start, packets, reports>>
  BY DEF StopWaiting, Leave
<1>2. TypeInv'
  BY <1>0, <1>1, Constants DEF TypeInv, Places
<1>3. TileInv'
  BY <1>0, <1>1, Constants DEF TimingInv, TypeInv, TileInv, ReportsTile
<1>4. StopInv'
  BY <1>0, <1>1, SleepBounds, Constants DEF TimingInv, TypeInv, StopInv, stop
<1>5. BehindInv'
  <2>1. /\ step \in Nat /\ clock \in Nat /\ deadline \in Nat /\ step * Late \in Nat
        /\ step <= FreeSteps => step * Late <= FreeSteps * Late
    BY <1>0, StepsTimes DEF TypeInv
  <2>2. FreeSteps * Late \in Nat /\ Asked \in Nat /\ deadline <= Asked + Timeout
    BY <1>0, <1>1, Constants DEF TimingInv, TypeInv, BehindInv, Asked
  <2>3. clock <= Asked + MaxWait
    BY <1>1, <2>1, <2>2, WaitBounds, Constants DEF TimingInv, BehindInv
  <2> QED
    BY <1>0, <1>1, <2>3, SleepBounds, WaitBounds, Constants DEF TimingInv, TypeInv, BehindInv, Asked, stop
<1> QED
  BY <1>2, <1>3, <1>4, <1>5 DEF TimingInv

\* Another attempt.
LEMMA RetryInv ==
  ASSUME TimingInv, Retry
  PROVE  TimingInv'
<1>0. TypeInv
  BY DEF TimingInv
<1>1. /\ pc = "retry"
      /\ \/ pc' = "build" /\ step' = 0 /\ deadline' = 0
         \/ pc' = "late" /\ step' = step /\ deadline' = deadline
      /\ UNCHANGED <<clock, stopAt, slot, sent, next, start, packets, reports>>
  BY DEF Retry, Leave
<1>2. TypeInv'
  BY <1>0, <1>1, Constants DEF TypeInv, Places
<1>3. TileInv'
  BY <1>0, <1>1, Constants DEF TimingInv, TypeInv, TileInv, ReportsTile
<1>4. StopInv'
  BY <1>0, <1>1, SleepBounds, Constants DEF TimingInv, TypeInv, StopInv, stop
<1>5. BehindInv'
  <2>1. /\ step \in Nat /\ clock \in Nat /\ deadline \in Nat /\ step * Late \in Nat
        /\ step <= FreeSteps => step * Late <= FreeSteps * Late
    BY <1>0, StepsTimes DEF TypeInv
  <2>2. FreeSteps * Late \in Nat /\ Asked \in Nat /\ deadline <= Asked + Timeout /\ LongestSleep \in Nat
    BY <1>0, <1>1, SleepBounds, Constants DEF TimingInv, TypeInv, BehindInv, Asked
  <2>3. clock <= Asked + MaxWait + LongestSleep
    BY <1>1, <2>1, <2>2, WaitBounds, Constants DEF TimingInv, BehindInv
  <2>4. IF step <= FreeSteps THEN clock <= deadline - Timeout + step * Late
                             ELSE clock <= deadline + LongestSleep
    BY <1>1 DEF TimingInv, BehindInv
  <2>5. deadline >= Timeout /\ (~stop => slot <= clock + RateInterval)
    BY <1>1 DEF TimingInv, BehindInv
  <2> QED
    BY <1>1, <2>1, <2>2, <2>3, <2>4, <2>5, WaitBounds, Constants DEF BehindInv, Asked, stop
<1> QED
  BY <1>2, <1>3, <1>4, <1>5 DEF TimingInv

\* The wait goes on only before the deadline or without having slept.
LEMMA CheckDeadlineInv ==
  ASSUME TimingInv, CheckDeadline
  PROVE  TimingInv'
<1>0. TypeInv
  BY DEF TimingInv
<1>1. /\ pc = "late"
      /\ clock' \in Nat /\ clock <= clock' /\ clock' <= clock + Late
      /\ stopAt' \in Nat \cup {None}
      /\ stopAt' = stopAt \/ (~stop /\ stop' /\ clock <= stopAt' /\ stopAt' <= clock')
      /\ \/ pc' = "report" /\ step' = 0 /\ deadline' = 0
         \/ /\ pc' = "wait" /\ step' = step /\ deadline' = deadline
            /\ ~(step >= FreeSteps) /\ clock' = clock
         \/ /\ pc' = "wait" /\ step' = step /\ deadline' = deadline
            /\ step >= FreeSteps /\ ~(clock' >= deadline)
      /\ UNCHANGED <<slot, sent, next, start, packets, reports>>
  <2>1. CASE ~sleeping
    BY <1>0, <2>1, Constants DEF CheckDeadline, Leave, sleeping, TypeInv
  <2>2. CASE sleeping
    <3>1. Lasts(0)
      BY <2>2 DEF CheckDeadline
    <3>2. /\ clock' \in Nat /\ clock + 0 <= clock' /\ clock' <= clock + 0 + Late
          /\ stopAt' \in Nat \cup {None}
          /\ stopAt' = stopAt \/ (~stop /\ stop' /\ clock <= stopAt' /\ stopAt' <= clock')
      BY <1>0, <3>1, TimePasses
    <3>3. /\ pc = "late"
          /\ \/ pc' = "report" /\ step' = 0 /\ deadline' = 0
             \/ /\ pc' = "wait" /\ step' = step /\ deadline' = deadline
                /\ step >= FreeSteps /\ ~(clock' >= deadline)
          /\ UNCHANGED <<slot, sent, next, start, packets, reports>>
      BY <2>2 DEF CheckDeadline, Leave, sleeping
    <3> QED
      BY <1>0, <3>2, <3>3, Constants DEF TypeInv
  <2> QED
    BY <2>1, <2>2
<1>2. TypeInv'
  BY <1>0, <1>1, Constants DEF TypeInv, Places
<1>3. TileInv'
  BY <1>0, <1>1, Constants DEF TimingInv, TypeInv, TileInv, ReportsTile
<1>4. StopInv'
  BY <1>0, <1>1, SleepBounds, Constants DEF TimingInv, TypeInv, StopInv, stop
<1>5. BehindInv'
  <2>s. ~stop' => slot' <= clock' + RateInterval
    <3> SUFFICES ASSUME ~stop' PROVE slot' <= clock' + RateInterval
      OBVIOUS
    <3>1. ~stop
      BY <1>1 DEF stop
    <3>2. slot <= clock + RateInterval
      BY <3>1 DEF TimingInv, BehindInv
    <3>3. clock \in Nat /\ clock' \in Nat /\ slot \in Nat /\ clock <= clock' /\ slot' = slot
      BY <1>0, <1>1 DEF TypeInv
    <3> QED
      BY <3>2, <3>3, Constants, Later
  <2>1. /\ step \in Nat /\ clock \in Nat /\ deadline \in Nat /\ step * Late \in Nat
        /\ step <= FreeSteps => step * Late <= FreeSteps * Late
    BY <1>0, StepsTimes DEF TypeInv
  <2>2. FreeSteps * Late \in Nat /\ Asked \in Nat /\ deadline <= Asked + Timeout /\ LongestSleep \in Nat
    BY <1>0, <1>1, SleepBounds, Constants DEF TimingInv, TypeInv, BehindInv, Asked
  <2>3. clock <= Asked + MaxWait + LongestSleep
    BY <1>1, <2>1, <2>2, WaitBounds, Constants DEF TimingInv, BehindInv
  <2>4. clock' <= Asked + MaxWait + LongestSleep + Late
    BY <1>1, <2>1, <2>2, <2>3, WaitBounds, Constants
  <2>5. pc' = "wait" => IF step' < FreeSteps THEN clock' <= deadline' - Timeout + step' * Late
                                            ELSE clock' <= deadline'
    BY <1>1, <2>1, Constants DEF TimingInv, BehindInv
  <2>6. deadline >= Timeout /\ Asked' = Asked
    BY <1>1 DEF TimingInv, BehindInv, Asked
  <2> QED
    BY <1>1, <2>s, <2>2, <2>4, <2>5, <2>6 DEF BehindInv
<1> QED
  BY <1>2, <1>3, <1>4, <1>5 DEF TimingInv

\* A packet is built and sent.
LEMMA SendInv ==
  ASSUME TimingInv, Send
  PROVE  TimingInv'
<1>0. TypeInv
  BY DEF TimingInv
<1>1. /\ pc = "build" /\ pc' = "report"
      /\ clock' \in Nat /\ clock <= clock' /\ clock' <= clock + Late
      /\ stopAt' \in Nat \cup {None}
      /\ stopAt' = stopAt \/ (~stop /\ stop' /\ clock <= stopAt' /\ stopAt' <= clock')
      /\ sent' = sent + 1 /\ packets' = packets + 1
      /\ UNCHANGED <<step, deadline, slot, next, start, reports>>
  BY <1>0, TimePasses, Constants DEF Send, TypeInv
<1>2. TypeInv'
  BY <1>0, <1>1, Constants DEF TypeInv, Places
<1>3. TileInv'
  BY <1>0, <1>1, Constants DEF TimingInv, TypeInv, TileInv, ReportsTile
<1>4. StopInv'
  BY <1>0, <1>1, SleepBounds, Constants DEF TimingInv, TypeInv, StopInv, stop
<1>5. BehindInv'
  <2>s. ~stop' => slot' <= clock' + RateInterval
    <3> SUFFICES ASSUME ~stop' PROVE slot' <= clock' + RateInterval
      OBVIOUS
    <3>1. ~stop
      BY <1>1 DEF stop
    <3>2. slot <= clock + RateInterval
      BY <3>1 DEF TimingInv, BehindInv
    <3>3. clock \in Nat /\ clock' \in Nat /\ slot \in Nat /\ clock <= clock' /\ slot' = slot
      BY <1>0, <1>1 DEF TypeInv
    <3> QED
      BY <3>2, <3>3, Constants, Later
  <2>1. step' = 0 /\ clock' <= Asked' + MaxWait + LongestSleep + Late
    BY <1>0, <1>1, SleepBounds, WaitBounds, Constants DEF TimingInv, TypeInv, BehindInv, Asked
  <2> QED
    BY <1>1, <2>s, <2>1 DEF BehindInv
<1> QED
  BY <1>2, <1>3, <1>4, <1>5 DEF TimingInv

\* A report is made at least a period after the last one; the window ends a little
\* after the timer was looked at.
LEMMA ReportInv ==
  ASSUME TimingInv, Report
  PROVE  TimingInv'
<1>0. TypeInv
  BY DEF TimingInv
<1>1. /\ pc = "report" /\ pc' = "loop" /\ clock >= next
      /\ clock' \in Nat /\ clock <= clock' /\ clock' <= clock + Late
      /\ stopAt' \in Nat \cup {None}
      /\ stopAt' = stopAt \/ (~stop /\ stop' /\ clock <= stopAt' /\ stopAt' <= clock')
      /\ next' = clock + Period /\ packets' = 0 /\ start' = clock'
      /\ reports'.packets = reports.packets + packets
      /\ reports'.elapsed = reports.elapsed + (clock' - start)
      /\ reports'.shortest \in Nat /\ reports'.shortest + Late >= Period
      /\ reports' \in [packets : Nat, elapsed : Nat, shortest : Nat \cup {None}]
      /\ UNCHANGED <<step, deadline, slot, sent>>
  <2> DEFINE e == clock' - start
             m == Min({e} \cup ({reports.shortest} \ {None}))
  <2>0. /\ clock' \in Nat /\ clock + 0 <= clock' /\ clock' <= clock + 0 + Late
        /\ stopAt' \in Nat \cup {None}
        /\ stopAt' = stopAt \/ (~stop /\ stop' /\ clock <= stopAt' /\ stopAt' <= clock')
    BY <1>0, TimePasses DEF Report
  <2>1. /\ clock \in Nat /\ start \in Nat /\ next \in Nat /\ clock >= next
        /\ start <= clock /\ start + Period <= next + Late
        /\ reports.packets \in Nat /\ reports.elapsed \in Nat /\ reports.shortest \in Nat \cup {None}
        /\ packets \in Nat
        /\ reports.shortest # None => reports.shortest + Late >= Period
    BY <1>0 DEF TimingInv, TypeInv, TileInv, ReportsTile, Report, due
  <2>2. e \in Nat /\ e + Late >= Period
    <3>1. PICK after \in Nat : after = clock' /\ clock <= after
      BY <2>0, <2>1
    <3>2. clock <= after
      BY <3>1, Zenon
    <3>3. after - start \in Nat /\ after - start + Late >= Period
      BY <2>1, <3>2, Constants
    <3> QED
      BY <3>1, <3>3, Zenon DEF e
  <2> HIDE DEF e
  <2>3. m \in Nat /\ m + Late >= Period
    <3>1. CASE reports.shortest = None
      <4>1. m = Min({e, e})
        BY <3>1
      <4> QED
        BY <2>2, <4>1, MinOfTwo
    <3>2. CASE reports.shortest # None
      <4>1. m = Min({e, reports.shortest})
        <5>1. {e} \cup ({reports.shortest} \ {None}) = {e, reports.shortest}
          BY <3>2
        <5> QED
          BY <5>1
      <4> QED
        BY <2>1, <2>2, <3>2, <4>1, MinOfTwo
    <3> QED
      BY <3>1, <3>2
  <2>4. reports' = [packets |-> reports.packets + packets, elapsed |-> reports.elapsed + e, shortest |-> m]
    BY DEF Report, Sample, e
  <2> HIDE DEF m
  <2>5. /\ reports'.packets = reports.packets + packets /\ reports'.elapsed = reports.elapsed + e
        /\ reports'.shortest = m
        /\ reports' \in [packets : Nat, elapsed : Nat, shortest : Nat \cup {None}]
    BY <2>1, <2>2, <2>3, <2>4
  <2> QED
    BY <2>0, <2>1, <2>3, <2>5, Constants DEF Report, NextReport, due, e
<1>2. TypeInv'
  BY <1>0, <1>1, Constants DEF TypeInv, Places
<1>3. TileInv'
  <2>1. reports.elapsed = start /\ reports.packets + packets = sent
    BY DEF TimingInv, TileInv, ReportsTile
  <2>0. PICK after \in Nat : after = clock' /\ after = start' /\ clock <= after /\ after <= clock + Late
    BY <1>1
  <2>2. reports'.elapsed = start'
    <3>1. reports'.elapsed = reports.elapsed + (after - start)
      BY <1>1, <2>0, Zenon
    <3>2. reports'.elapsed = after
      BY <1>0, <2>1, <3>1 DEF TypeInv
    <3> QED
      BY <2>0, <3>2, Zenon
  <2>3. reports'.packets + packets' = sent'
    BY <1>0, <1>1, <2>1 DEF TypeInv
  <2>4. start' <= clock' /\ start' + Period <= next' + Late
    <3>1. after <= clock + Late
      BY <2>0, Zenon
    <3>2. after <= after /\ after + Period <= (clock + Period) + Late
      BY <1>0, <3>1, Constants DEF TypeInv
    <3> QED
      BY <1>1, <2>0, <3>2, Zenon
  <2> QED
    BY <1>1, <2>2, <2>3, <2>4 DEF TileInv, ReportsTile
<1>4. StopInv'
  BY <1>0, <1>1, SleepBounds, Constants DEF TimingInv, TypeInv, StopInv, stop
<1>5. BehindInv'
  <2>s. ~stop' => slot' <= clock' + RateInterval
    <3> SUFFICES ASSUME ~stop' PROVE slot' <= clock' + RateInterval
      OBVIOUS
    <3>1. ~stop
      BY <1>1 DEF stop
    <3>2. slot <= clock + RateInterval
      BY <3>1 DEF TimingInv, BehindInv
    <3>3. clock \in Nat /\ clock' \in Nat /\ slot \in Nat /\ clock <= clock' /\ slot' = slot
      BY <1>0, <1>1 DEF TypeInv
    <3> QED
      BY <3>2, <3>3, Constants, Later
  <2>1. step' = 0 /\ clock' <= next' + Late
    BY <1>0, <1>1, Constants DEF TimingInv, TypeInv, BehindInv
  <2> QED
    BY <1>1, <2>s, <2>1 DEF BehindInv
<1> QED
  BY <1>2, <1>3, <1>4, <1>5 DEF TimingInv

\* No report is due yet.
LEMMA NotDueInv ==
  ASSUME TimingInv, NotDue
  PROVE  TimingInv'
<1>0. TypeInv
  BY DEF TimingInv
<1>1. /\ pc = "report" /\ pc' = "loop" /\ clock < next
      /\ UNCHANGED <<clock, stopAt, step, deadline, slot, sent, next, start, packets, reports>>
  BY <1>0 DEF NotDue, due, TypeInv
<1>2. TypeInv'
  BY <1>0, <1>1, Constants DEF TypeInv, Places
<1>3. TileInv'
  BY <1>0, <1>1, Constants DEF TimingInv, TypeInv, TileInv, ReportsTile
<1>4. StopInv'
  BY <1>0, <1>1, SleepBounds, Constants DEF TimingInv, TypeInv, StopInv, stop
<1>5. BehindInv'
  BY <1>0, <1>1, SleepBounds, WaitBounds, Constants DEF TimingInv, TypeInv, BehindInv, Asked, stop
<1> QED
  BY <1>2, <1>3, <1>4, <1>5 DEF TimingInv

\* The consumer and the user.
LEMMA UserInv ==
  ASSUME TimingInv, Drain \/ TogglePause \/ RequestStop
  PROVE  TimingInv'
<1>0. TypeInv
  BY DEF TimingInv
<1>1. /\ pc' = pc
      /\ stopAt' = stopAt \/ (~stop /\ stopAt' = clock)
      /\ UNCHANGED <<clock, step, deadline, slot, sent, next, start, packets, reports>>
  BY DEF Drain, TogglePause, RequestStop
<1>2. TypeInv'
  BY <1>0, <1>1, Constants DEF TypeInv, Places
<1>3. TileInv'
  BY <1>0, <1>1, Constants DEF TimingInv, TypeInv, TileInv, ReportsTile
<1>4. StopInv'
  BY <1>0, <1>1, SleepBounds, Constants DEF TimingInv, TypeInv, StopInv, stop
<1>5. BehindInv'
  BY <1>0, <1>1, SleepBounds, WaitBounds, Constants DEF TimingInv, TypeInv, BehindInv, Asked, stop
<1> QED
  BY <1>2, <1>3, <1>4, <1>5 DEF TimingInv

-----------------------------------------------------------------------------
(* The invariant and what follows from it.                                  *)

LEMMA InitTiming == Init => TimingInv
<1> SUFFICES ASSUME Init PROVE TimingInv
  OBVIOUS
<1>1. /\ clock = 0 /\ pc = "loop" /\ stopAt = None /\ step = 0 /\ deadline = 0 /\ slot = 0 /\ sent = 0
      /\ next \in Nat /\ Period <= next + Late /\ start = 0 /\ packets = 0
      /\ reports.packets = 0 /\ reports.elapsed = 0 /\ reports.shortest = None
      /\ reports \in [packets : Nat, elapsed : Nat, shortest : Nat \cup {None}]
  BY Constants DEF Init
<1>2. TypeInv
  BY <1>1, Constants DEF TypeInv, Places
<1>3. TileInv /\ StopInv
  BY <1>1, Constants DEF TileInv, ReportsTile, StopInv, stop
<1>4. BehindInv
  BY <1>1, Constants DEF BehindInv
<1> QED
  BY <1>2, <1>3, <1>4 DEF TimingInv

LEMMA NextTiming == TimingInv /\ [Next]_vars => TimingInv'
<1> SUFFICES ASSUME TimingInv, [Next]_vars PROVE TimingInv'
  OBVIOUS
<1>1. CASE Next
  BY <1>1, TurnInv, PausedTurnInv, LimiterWaitInv, LimiterSlotInv, FirstAttemptInv, BackOffInv,
    StopWaitingInv, RetryInv, CheckDeadlineInv, SendInv, ReportInv, NotDueInv, UserInv DEF Next
<1>2. CASE UNCHANGED vars
  BY <1>2 DEF vars, TimingInv, TypeInv, TileInv, ReportsTile, StopInv, BehindInv, Asked, stop
<1> QED
  BY <1>1, <1>2

LEMMA AlwaysTiming == Spec => []TimingInv
BY InitTiming, NextTiming, PTL DEF Spec

\* Whatever the loop is doing when stop is requested, and even when the request falls
\* between a look at the stop token and the sleep that follows it, the loop sleeps
\* at most once more.
THEOREM StopIsPrompt == Spec => []StopPrompt
<1>1. TimingInv => StopPrompt
  BY SleepBounds, Constants DEF TimingInv, TypeInv, Places, StopInv, StopPrompt, stop
<1> QED
  BY AlwaysTiming, <1>1, PTL

\* PeriodicTimer and RateWindow agree: the windows of the reports tile the time of
\* the loop, none is shorter than the period by more than the time between their two
\* readings of the clock, and every packet is in one of them.
THEOREM ReportsDoTile == Spec => []ReportsTile
<1>1. TimingInv => ReportsTile
  BY DEF TimingInv, TileInv
<1> QED
  BY AlwaysTiming, <1>1, PTL

\* A report is late by at most one wait for a slot and one wait for room, whatever
\* the timeout, the rate, the period and the lengths of the sleeps.
THEOREM ReportsAreTimely == Spec => []ReportsTimely
<1>1. ASSUME TimingInv PROVE ReportsTimely
  <2>0. TypeInv
    BY <1>1 DEF TimingInv
  <2>1. /\ step \in Nat /\ clock \in Nat /\ deadline \in Nat /\ next \in Nat /\ step * Late \in Nat
        /\ step <= FreeSteps => step * Late <= FreeSteps * Late
        /\ FreeSteps * Late \in Nat /\ pc \in Places
    BY <2>0, StepsTimes, Constants DEF TypeInv
  <2>2. LongestSleep \in Nat
    BY <2>0, SleepBounds
  <2>3. pc # "ended" => clock <= Asked + MaxWait + LongestSleep + Late
    BY <1>1, <2>1, <2>2, WaitBounds, Constants DEF TimingInv, BehindInv, Asked, Places
  <2> QED
    BY <2>1, <2>2, <2>3, WaitBounds, Constants DEF ReportsTimely, Asked, MaxWait
<1> QED
  BY AlwaysTiming, <1>1, PTL

\* One step: only a sleep separates the room from the attempt that takes it, and only
\* the look at the deadline separates a failed attempt from giving up.
LEMMA NextRoom == TimingInv /\ RoomInv /\ [Next]_vars => RoomInv'
<1> SUFFICES ASSUME TimingInv, RoomInv, [Next]_vars PROVE RoomInv'
  OBVIOUS
<1>0. TypeInv /\ clock \in Nat /\ LongestBackOff \in Nat /\ Sleep \in Nat /\ Sleep <= LongestBackOff
  BY SleepBounds DEF TimingInv, TypeInv
<1>1. CASE Turn \/ PausedTurn \/ LimiterWait \/ LimiterSlot \/ FirstAttempt \/ Send
  BY <1>1 DEF RoomInv, Turn, PausedTurn, LimiterWait, LimiterSlot, FirstAttempt, Send
<1>2. CASE BackOff
  <2>1. clock' \in Nat /\ clock' <= clock + Sleep + Late
    BY <1>0, <1>2, TimePasses DEF BackOff
  <2>2. pc = "wait" /\ pc' = "retry" /\ UNCHANGED <<room, roomAt>>
    BY <1>2 DEF BackOff
  <2> QED
    BY <1>0, <2>1, <2>2, Constants DEF RoomInv
<1>3. CASE StopWaiting
  BY <1>3 DEF RoomInv, StopWaiting, Leave
<1>4. CASE Retry
  BY <1>4 DEF RoomInv, Retry, Leave
<1>5. CASE CheckDeadline
  <2>1. clock' \in Nat /\ clock' <= clock + Late
    <3>1. CASE sleeping
      BY <1>0, <1>5, <3>1, TimePasses, Constants DEF CheckDeadline
    <3>2. CASE ~sleeping
      BY <1>0, <1>5, <3>2, Constants DEF CheckDeadline
    <3> QED
      BY <3>1, <3>2
  <2>2. pc = "late" /\ pc' \in {"wait", "report"} /\ UNCHANGED <<room, roomAt>>
    BY <1>5 DEF CheckDeadline, Leave
  <2> QED
    BY <1>0, <2>1, <2>2, Constants DEF RoomInv
<1>6. CASE Report \/ NotDue
  BY <1>6 DEF RoomInv, Report, NotDue
<1>7. CASE Drain
  BY <1>0, <1>7, Constants DEF RoomInv, Drain
<1>8. CASE TogglePause \/ RequestStop \/ UNCHANGED vars
  BY <1>8 DEF RoomInv, TogglePause, RequestStop, vars
<1> QED
  BY <1>1, <1>2, <1>3, <1>4, <1>5, <1>6, <1>7, <1>8 DEF Next

\* For every timeout, every course of the backoff and wherever the deadline falls into
\* it: room that is made while reserve() waits is taken within one sleep, and what
\* reserve() leaves behind was made after its last attempt.
THEOREM RoomIsTakenInTime == Spec => []RoomIsTaken
<1>1. Init => RoomInv
  BY DEF Init, RoomInv
<1>2. ASSUME TimingInv, RoomInv PROVE RoomIsTaken
  <2>1. clock \in Nat /\ LongestBackOff \in Nat
    BY <1>2, SleepBounds DEF TimingInv, TypeInv
  <2> QED
    BY <1>2, <2>1, Constants DEF RoomInv, RoomIsTaken
<1> QED
  BY <1>1, <1>2, AlwaysTiming, NextRoom, PTL DEF Spec

-----------------------------------------------------------------------------
(* The rate limiter, for every interval, every threshold and every run of   *)
(* the clock.  next_ moves on by at least one interval per slot and is      *)
(* always later than the slot it was computed at (SlotsAhead), and it stays *)
(* in step with the cadence (InStep); a slot is granted at next_ or later.  *)

\* Everything that is preserved together.
LimiterInv == SlotInv /\ MinSpacing /\ Cadence

\* One more interval.
LEMMA OneMore ==
  ASSUME NEW a \in Int, NEW d \in Int
  PROVE  (a + 1) * d = a * d + d
BY SMT

\* A slot that is left at time t moves next_ on by an interval at least, and to a
\* time after t.
LEMMA NextSlotMoves ==
  ASSUME NEW t \in Nat, next_ \in Nat
  PROVE  /\ NextSlot(t) \in Nat
         /\ NextSlot(t) >= next_ + Interval
         /\ NextSlot(t) > t
         /\ t - next_ < Interval => NextSlot(t) = next_ + Interval
         /\ ~ (t - next_ < Interval) => NextSlot(t) = t + Interval
BY LimiterAssumption, SMT DEF NextSlot

\* The limiter starts with its invariant.
LEMMA InitLimiterInv == LimiterInit => LimiterInv
<1> SUFFICES ASSUME LimiterInit PROVE LimiterInv
  OBVIOUS
<1>1. TypeOK
  <2>1. stopToken \in BOOLEAN
    BY Zenon DEF LimiterInit
  <2>2. grants \in Seq(Nat) /\ cadence \in Seq(Nat)
    BY DEF LimiterInit
  <2> QED BY <2>1, <2>2 DEF LimiterInit, TypeOK
<1>2. Len(grants) = 0 /\ Len(cadence) = 0 /\ next_ = 0 /\ base = 0
  BY DEF LimiterInit
<1>3. SlotsAhead /\ MinSpacing /\ Cadence
  BY <1>2 DEF SlotsAhead, MinSpacing, Cadence
<1>4. 0 * Interval = 0
  BY LimiterAssumption
<1>5. InStep
  BY <1>2, <1>4 DEF InStep
<1> QED BY <1>1, <1>3, <1>5 DEF LimiterInv, SlotInv

\* Leaving the loop, on time, after a stall or on a stop request, preserves the
\* invariant.
LEMMA ReturnLimiterInv == LimiterInv /\ Return => LimiterInv'
<1> SUFFICES ASSUME LimiterInv, Return PROVE LimiterInv'
  OBVIOUS
<1> USE LimiterAssumption
<1>1. TypeOK /\ SlotsAhead /\ InStep /\ MinSpacing /\ Cadence
  BY DEF LimiterInv, SlotInv
<1>2. /\ next_' \in Nat
      /\ next_' >= next_ + Interval
      /\ next_' > now
      /\ now - next_ < Interval => next_' = next_ + Interval
      /\ ~ (now - next_ < Interval) => next_' = now + Interval
  BY <1>1, NextSlotMoves DEF Return, TypeOK
<1>3. CASE now >= next_
  <2>0. /\ grants' = Append(grants, now)
        /\ base' = IF now - next_ < Interval THEN base ELSE now
        /\ cadence' = IF now - next_ < Interval THEN Append(cadence, now) ELSE <<now>>
        /\ now \in Nat /\ grants \in Seq(Nat) /\ base \in Nat /\ cadence \in Seq(Nat)
    BY <1>1, <1>3 DEF Return, TypeOK
  <2>1. /\ Len(grants') = Len(grants) + 1
        /\ grants' \in Seq(Nat)
        /\ \A i \in 1 .. Len(grants) : grants'[i] = grants[i] /\ grants[i] \in Nat
        /\ grants'[Len(grants) + 1] = now
        /\ Len(grants) \in Nat
    BY <2>0
  <2>2. ~ stopToken \/ caller # "idle"
    BY DEF Return
  <2>3. next_ = base + Len(cadence) * Interval
    BY <1>1, <2>2 DEF InStep, Return
  <2>4. TypeOK'
    <3>1. base' \in Nat /\ cadence' \in Seq(Nat)
      BY <2>0
    <3> QED BY <1>1, <1>2, <2>1, <3>1 DEF Return, TypeOK
  <2>5. SlotsAhead'
    <3> SUFFICES ASSUME NEW i \in 1 .. Len(grants')
                 PROVE  next_' > grants'[i] + (Len(grants') - i) * Interval
      BY DEF SlotsAhead
    <3>1. CASE i = Len(grants) + 1
      <4>1. Len(grants') - i = 0
        BY <2>1, <3>1
      <4>2. 0 * Interval = 0
        BY SMT
      <4> QED BY <1>1, <1>2, <2>1, <3>1, <4>1, <4>2 DEF TypeOK
    <3>2. CASE i # Len(grants) + 1
      <4>1. i \in 1 .. Len(grants)
        BY <2>1, <3>2
      <4>2. next_ > grants[i] + (Len(grants) - i) * Interval
        BY <1>1, <4>1 DEF SlotsAhead
      <4>3. Len(grants') - i = (Len(grants) - i) + 1 /\ Len(grants) - i \in Int
        BY <2>1, <4>1
      <4>4. (Len(grants') - i) * Interval = (Len(grants) - i) * Interval + Interval
        BY <4>3, OneMore
      <4>5. (Len(grants) - i) * Interval \in Int
        BY <4>3
      <4> QED BY <1>1, <1>2, <2>1, <4>1, <4>2, <4>4, <4>5 DEF TypeOK
    <3> QED BY <3>1, <3>2
  <2>6. MinSpacing'
    <3> SUFFICES ASSUME NEW i \in 1 .. Len(grants'), NEW j \in 1 .. Len(grants'), i < j
                 PROVE  grants'[j] - grants'[i] > (j - i - 1) * Interval
      BY DEF MinSpacing
    <3>0. Len(grants') = Len(grants) + 1 /\ Len(grants) \in Nat
      BY <2>1
    <3>1. i \in 1 .. Len(grants)
      BY <3>0
    <3>2. CASE j = Len(grants) + 1
      <4>1. next_ > grants[i] + (Len(grants) - i) * Interval
        BY <1>1, <3>1 DEF SlotsAhead
      <4>2. Len(grants) - i = j - i - 1 /\ Len(grants) - i \in Int
        BY <2>1, <3>1, <3>2
      <4>3. next_ > grants[i] + (j - i - 1) * Interval
        BY <4>1, <4>2
      <4>4. (j - i - 1) * Interval \in Int
        BY <4>2
      <4> QED BY <1>1, <1>3, <2>1, <3>1, <3>2, <4>3, <4>4 DEF TypeOK
    <3>3. CASE j # Len(grants) + 1
      <4>1. j \in 1 .. Len(grants)
        BY <3>0, <3>3
      <4>2. grants[j] - grants[i] > (j - i - 1) * Interval
        BY <1>1, <3>1, <4>1 DEF MinSpacing
      <4> QED BY <2>1, <3>1, <4>1, <4>2
    <3> QED BY <3>2, <3>3
  <2>7. CASE now - next_ < Interval
    <3>1. /\ base' = base
          /\ Len(cadence') = Len(cadence) + 1
          /\ Len(cadence) \in Nat
          /\ \A k \in 1 .. Len(cadence) : cadence'[k] = cadence[k]
          /\ cadence'[Len(cadence) + 1] = now
      BY <2>0, <2>7
    <3>2. Len(cadence') * Interval = Len(cadence) * Interval + Interval
      BY <3>1, OneMore
    <3>3. Len(cadence) * Interval \in Int
      BY <3>1
    <3>4. InStep'
      BY <1>1, <1>2, <2>3, <2>7, <3>1, <3>2, <3>3 DEF InStep, TypeOK
    <3>5. Cadence'
      <4> SUFFICES ASSUME NEW k \in 1 .. Len(cadence')
                   PROVE  /\ cadence'[k] >= base' + (k - 1) * Interval
                          /\ cadence'[k] < base' + k * Interval
        BY DEF Cadence
      <4>1. CASE k = Len(cadence) + 1
        <5>1. (k - 1) * Interval = Len(cadence) * Interval
          BY <3>1, <4>1
        <5>2. k * Interval = Len(cadence) * Interval + Interval
          BY <3>1, <3>2, <4>1
        <5> QED BY <1>1, <1>3, <2>3, <2>7, <3>1, <3>3, <4>1, <5>1, <5>2 DEF TypeOK
      <4>2. CASE k # Len(cadence) + 1
        <5>1. k \in 1 .. Len(cadence)
          BY <3>1, <4>2
        <5> QED BY <1>1, <3>1, <5>1 DEF Cadence
      <4> QED BY <4>1, <4>2
    <3> QED BY <2>4, <2>5, <2>6, <3>4, <3>5 DEF LimiterInv, SlotInv
  <2>8. CASE ~ (now - next_ < Interval)
    <3>1. base' = now /\ cadence' = <<now>>
      BY <2>0, <2>8
    <3>2. Len(cadence') = 1 /\ cadence'[1] = now
      BY <3>1
    <3>3. 1 * Interval = Interval /\ 0 * Interval = 0
      BY SMT
    <3>4. InStep'
      BY <1>1, <1>2, <2>8, <3>1, <3>2, <3>3 DEF InStep, TypeOK
    <3>5. Cadence'
      BY <1>1, <3>1, <3>2, <3>3 DEF Cadence, TypeOK
    <3> QED BY <2>4, <2>5, <2>6, <3>4, <3>5 DEF LimiterInv, SlotInv
  <2> QED BY <2>7, <2>8
<1>4. CASE ~ (now >= next_)
  <2>1. stopToken' /\ caller' = "idle" /\ UNCHANGED history
    BY <1>4 DEF Return
  <2>2. TypeOK'
    BY <1>1, <1>2, <2>1 DEF Return, TypeOK, history
  <2>3. InStep'
    BY <2>1 DEF InStep
  <2>4. MinSpacing' /\ Cadence'
    BY <1>1, <2>1 DEF MinSpacing, Cadence, history
  <2>5. SlotsAhead'
    <3> SUFFICES ASSUME NEW i \in 1 .. Len(grants)
                 PROVE  next_' > grants[i] + (Len(grants) - i) * Interval
      BY <2>1 DEF SlotsAhead, history
    <3>1. next_ > grants[i] + (Len(grants) - i) * Interval
      BY <1>1 DEF SlotsAhead
    <3>2. /\ grants[i] \in Int
          /\ (Len(grants) - i) * Interval \in Int
      BY <1>1 DEF TypeOK
    <3> QED BY <1>1, <1>2, <3>1, <3>2 DEF TypeOK
  <2> QED BY <2>2, <2>3, <2>4, <2>5 DEF LimiterInv, SlotInv
<1> QED BY <1>3, <1>4

\* Every step preserves the invariant; all but Leave keep next_ and the history.
LEMMA NextLimiterInv == LimiterInv /\ [LimiterNext]_limiterVars => LimiterInv'
<1> SUFFICES ASSUME LimiterInv, [LimiterNext]_limiterVars PROVE LimiterInv'
  OBVIOUS
<1> USE LimiterAssumption
<1>1. TypeOK /\ SlotsAhead /\ InStep /\ MinSpacing /\ Cadence
  BY DEF LimiterInv, SlotInv
<1>2. ASSUME UNCHANGED <<next_, history>>, TypeOK', InStep'
      PROVE  LimiterInv'
  BY <1>1, <1>2 DEF LimiterInv, SlotInv, SlotsAhead, MinSpacing, Cadence, history
<1>3. CASE Call
  <2>1. UNCHANGED <<next_, history>> /\ TypeOK'
    BY <1>1, <1>3 DEF Call, TypeOK, history
  <2>2. InStep'
    BY <1>1, <1>3 DEF Call, InStep, history
  <2> QED BY <1>2, <2>1, <2>2
<1>4. CASE Wait
  <2>1. UNCHANGED <<next_, history>>
    BY <1>4 DEF Wait
  <2>2. TypeOK'
    <3>1. wake' \in Int
      BY <1>1, <1>4 DEF Wait, TypeOK, Nap
    <3> QED BY <1>1, <1>4, <3>1 DEF Wait, TypeOK, history
  <2>3. InStep'
    BY <1>1, <1>4 DEF Wait, InStep, history
  <2> QED BY <1>2, <2>1, <2>2, <2>3
<1>5. CASE Reread
  <2>1. UNCHANGED <<next_, history>> /\ TypeOK'
    BY <1>1, <1>5 DEF Reread, TypeOK, history
  <2>2. InStep'
    BY <1>1, <1>5 DEF Reread, InStep, history
  <2> QED BY <1>2, <2>1, <2>2
<1>6. CASE Return
  BY <1>6, ReturnLimiterInv
<1>7. CASE Stop
  <2>1. UNCHANGED <<next_, history>> /\ TypeOK'
    BY <1>1, <1>7 DEF Stop, TypeOK, history
  <2>2. InStep'
    BY <1>1, <1>7 DEF Stop, InStep, history
  <2> QED BY <1>2, <2>1, <2>2
<1>8. CASE Tick
  <2>1. UNCHANGED <<next_, history>> /\ TypeOK'
    BY <1>1, <1>8 DEF Tick, TypeOK, history
  <2>2. InStep'
    BY <1>1, <1>8 DEF Tick, InStep, history
  <2> QED BY <1>2, <2>1, <2>2
<1>9. CASE UNCHANGED limiterVars
  <2>1. UNCHANGED <<next_, history>> /\ TypeOK' /\ InStep'
    BY <1>1, <1>9 DEF limiterVars, history, TypeOK, InStep
  <2> QED BY <1>2, <2>1
<1> QED BY <1>3, <1>4, <1>5, <1>6, <1>7, <1>8, <1>9 DEF LimiterNext

\* The invariant holds in every reachable state of wait_for_slot's callers.
LEMMA LimiterInvariance == LimiterSpec => []LimiterInv
BY InitLimiterInv, NextLimiterInv, PTL DEF LimiterSpec

\* wait_for_slot never lets packets through faster than the rate, even after a
\* stall, whatever the interval and however the clock jumps.
THEOREM RateKept == LimiterSpec => []MinSpacing
<1>1. LimiterInv => MinSpacing
  BY DEF LimiterInv
<1> QED BY <1>1, LimiterInvariance, PTL

\* wait_for_slot keeps its cadence between stalls: delays do not add up.
THEOREM CadenceKept == LimiterSpec => []Cadence
<1>1. LimiterInv => Cadence
  BY DEF LimiterInv
<1> QED BY <1>1, LimiterInvariance, PTL

-----------------------------------------------------------------------------
(* The control threads, for any number of signals and keys.  The terminal   *)
(* is safe because the signals are blocked in every thread before it is     *)
(* touched: from then on nothing can end the program but main() itself,     *)
(* which joins the keyboard thread and puts the terminal back on every path.*)

\* No signal is fatal from the construction of SignalControlSource on.
SignalsBlocked ==
  /\ main = "parse" => open = {"main"}
  /\ main \notin {"parse", "exited", "killed", "slain"} => open = {}

\* Where main() is while the terminal is switched, which it is before the keyboard
\* thread is created.
RawWithin ==
  /\ raw => main \in {"spawn", "app", "unwind", "joinKeyboard", "restore", "slain"}
  /\ main = "spawn" => raw

\* Where main() is while the keyboard thread reads, and that the terminal is then
\* switched; a program that has no such thread has not touched the terminal.
ReaderWithin ==
  /\ kpc \in {"head", "poll", "read"} => raw /\ main \in {"app", "unwind", "joinKeyboard", "slain"}
  /\ kpc = "none" /\ raw => main \in {"spawn", "restore", "slain"}
  /\ main \in {"parse", "keyboard", "spawn"} => kpc = "none"

TerminalInv == raw \in BOOLEAN /\ SignalsBlocked /\ RawWithin /\ ReaderWithin

LEMMA InitTerminalInv == ThreadsInit => TerminalInv
BY DEF ThreadsInit, TerminalInv, SignalsBlocked, RawWithin, ReaderWithin

\* The main thread: construction and destruction.
LEMMA MainTerminalInv ==
  ASSUME TerminalInv, MainThread \/ AppEnds
  PROVE  TerminalInv'
<1> USE DEF TerminalInv, keyboardThread, terminal
<1>1. CASE ConstructSignals
  BY <1>1 DEF ConstructSignals, SignalsBlocked, RawWithin, ReaderWithin
<1>2. CASE ConstructTerminal
  <2>1. SignalsBlocked'
    BY <1>2 DEF ConstructTerminal, SignalsBlocked
  <2>2. main = "keyboard" /\ raw = FALSE /\ kpc = "none" /\ kpc' = kpc
    BY <1>2 DEF ConstructTerminal, RawWithin, ReaderWithin
  <2>3. (main' \in {"app", "stopping"} /\ raw' = raw) \/ (main' = "spawn" /\ raw' = TRUE)
    BY <1>2 DEF ConstructTerminal
  <2> QED
    BY <2>1, <2>2, <2>3 DEF RawWithin, ReaderWithin
<1>3. CASE ConstructKeyboard
  <2>1. SignalsBlocked'
    BY <1>3 DEF ConstructKeyboard, SignalsBlocked
  <2>2. main = "spawn" /\ kpc = "none" /\ raw = TRUE /\ raw' = TRUE
    BY <1>3 DEF ConstructKeyboard, RawWithin, ReaderWithin
  <2>3. (main' = "app" /\ kpc' = "head") \/ (main' = "restore" /\ kpc' = kpc)
    BY <1>3 DEF ConstructKeyboard
  <2> QED
    BY <2>1, <2>2, <2>3 DEF RawWithin, ReaderWithin
<1>4. CASE AppStops \/ AppEnds
  BY <1>4 DEF AppStops, AppEnds, SignalsBlocked, RawWithin, ReaderWithin
<1>5. CASE EndKeyboard
  <2>1. SignalsBlocked'
    BY <1>5 DEF EndKeyboard, SignalsBlocked
  <2>2. kpc' = kpc
    BY <1>5 DEF EndKeyboard
  <2>3. CASE main = "unwind" \/ main = "joinKeyboard"
    BY <1>5, <2>1, <2>2, <2>3 DEF EndKeyboard, RawWithin, ReaderWithin
  <2>4. CASE main = "restore"
    <3>1. main' = "stopping" /\ raw' = FALSE
      BY <1>5, <2>4 DEF EndKeyboard
    <3>2. kpc \notin {"head", "poll", "read"}
      BY <2>4 DEF ReaderWithin
    <3> QED
      BY <2>1, <2>2, <3>1, <3>2 DEF RawWithin, ReaderWithin
  <2> QED
    BY <1>5, <2>3, <2>4 DEF EndKeyboard
<1>6. CASE EndSignals
  BY <1>6 DEF EndSignals, SignalsBlocked, RawWithin, ReaderWithin
<1> QED
  BY <1>1, <1>2, <1>3, <1>4, <1>5, <1>6 DEF MainThread, Construct

\* The two other threads.
LEMMA ThreadsTerminalInv ==
  ASSUME TerminalInv, SignalThread \/ KeyboardThread
  PROVE  TerminalInv'
<1> USE DEF TerminalInv, keyboardThread, terminal
<1>1. CASE SignalThread
  BY <1>1 DEF SignalThread, SigWait, SigCheck, SigAct, SignalsBlocked, RawWithin, ReaderWithin
<1>2. CASE KeyHead
  BY <1>2 DEF KeyHead, SignalsBlocked, RawWithin, ReaderWithin
<1>3. CASE KeyPoll
  BY <1>3 DEF KeyPoll, SignalsBlocked, RawWithin, ReaderWithin
<1>4. CASE KeyRead
  BY <1>4 DEF KeyRead, SignalsBlocked, RawWithin, ReaderWithin
<1> QED
  BY <1>1, <1>2, <1>3, <1>4 DEF KeyboardThread

\* Signals, keys and the loss of the terminal.
LEMMA EnvironmentTerminalInv ==
  ASSUME TerminalInv, SendSignal \/ Slay \/ Type \/ StealKey \/ HangUp
  PROVE  TerminalInv'
<1> USE DEF TerminalInv, keyboardThread, terminal
<1>1. CASE SendSignal
  <2>1. CASE open = {}
    BY <1>1, <2>1 DEF SendSignal, SignalsBlocked, RawWithin, ReaderWithin
  <2>2. CASE open # {}
    <3>1. main = "parse" /\ main' = "killed"
      BY <1>1, <2>2 DEF SendSignal, SignalsBlocked, Ended
    <3> QED
      BY <1>1, <3>1 DEF SendSignal, SignalsBlocked, RawWithin, ReaderWithin
  <2> QED
    BY <2>1, <2>2
<1>2. CASE Slay
  BY <1>2 DEF Slay, SignalsBlocked, RawWithin, ReaderWithin
<1>3. CASE Type \/ StealKey \/ HangUp
  BY <1>3 DEF Type, StealKey, HangUp, SignalsBlocked, RawWithin, ReaderWithin
<1> QED
  BY <1>1, <1>2, <1>3

LEMMA NextTerminalInv == TerminalInv /\ [ThreadsNext]_threadVars => TerminalInv'
<1> SUFFICES ASSUME TerminalInv, [ThreadsNext]_threadVars PROVE TerminalInv'
  OBVIOUS
<1>1. CASE ThreadsNext
  BY <1>1, MainTerminalInv, ThreadsTerminalInv, EnvironmentTerminalInv DEF ThreadsNext
<1>2. CASE UNCHANGED threadVars
  BY <1>2 DEF threadVars, keyboardThread, terminal, TerminalInv, SignalsBlocked, RawWithin, ReaderWithin
<1> QED
  BY <1>1, <1>2

\* Whichever of its signals arrives at whatever moment, and however main() returns,
\* the terminal is left in its old mode, and it is not put back under the keyboard
\* thread; only a signal that the program does not block can leave it switched.
THEOREM TerminalRestored == ThreadsSpec => []TerminalMode
<1>1. TerminalInv => TerminalMode
  BY DEF TerminalInv, RawWithin, ReaderWithin, TerminalMode, Ended
<1> QED
  BY InitTerminalInv, NextTerminalInv, <1>1, PTL DEF ThreadsSpec

=============================================================================
