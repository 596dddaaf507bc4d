---------------------------- MODULE RateLimiter ----------------------------
(***************************************************************************)
(* RateLimiter::wait_for_slot (producer/rate_limiter.cpp) as ProducerApp   *)
(* uses it: the limiter is called before every packet, but any time may    *)
(* pass between two calls, because the program was paused, the ring was    *)
(* full or no consumer was there yet.  The clock is the steady clock in    *)
(* ticks; it moves on at any moment by any amount, so a sleep may last     *)
(* longer than asked for.  An unlimited rate (interval_ zero) returns at   *)
(* once and is left out.                                                   *)
(***************************************************************************)
EXTENDS Integers, Sequences

CONSTANTS
  Interval,       \* interval_: at least one tick, see the constructor
  SpinThreshold,  \* kSpinThreshold
  MaxSleep,       \* kMaxSleep
  MaxTime         \* bound: the last reading of the clock

ASSUME LimiterAssumption ==
  /\ Interval \in Nat \ {0}
  /\ SpinThreshold \in Nat
  /\ MaxSleep \in Nat \ {0}
  /\ MaxTime \in Nat

VARIABLES
  time,       \* Clock::now()
  caller,     \* where the caller is
  now,        \* wait_for_slot: now
  next_,
  wake,       \* when the sleep that was asked for is over
  stopToken,
  grants,     \* history: the reading of the clock at every slot that was due
  base,       \* history: where the current cadence starts
  cadence     \* history: the grants since then

history == <<grants, base, cadence>>
limiterVars == <<time, caller, now, next_, wake, stopToken, history>>

LimiterInit ==
  /\ time = 0
  /\ caller = "idle"
  /\ now = 0
  /\ next_ = 0
  /\ wake = 0
  /\ stopToken = FALSE
  /\ grants = <<>>
  /\ base = 0
  /\ cadence = <<>>

\* The loop of ProducerApp asks for a slot, after a look at the stop token.
Call ==
  /\ caller = "idle"
  /\ ~ stopToken
  /\ now' = time
  /\ caller' = "loop"
  /\ UNCHANGED <<time, next_, wake, stopToken, history>>

\* How long to sleep when so much time remains.
Nap(remaining) ==
  LET nap == remaining - SpinThreshold \div 2
  IN  IF nap < MaxSleep THEN nap ELSE MaxSleep

\* Too early: sleep, or spin when the slot is near.
Wait ==
  /\ caller = "loop"
  /\ now < next_ /\ ~ stopToken
  /\ IF next_ - now > SpinThreshold
     THEN wake' = time + Nap(next_ - now) /\ caller' = "asleep"
     ELSE caller' = "spinning" /\ UNCHANGED wake
  /\ UNCHANGED <<time, now, next_, stopToken, history>>

\* The clock is read again.
Reread ==
  /\ \/ caller = "asleep" /\ time >= wake
     \/ caller = "spinning"
  /\ now' = time
  /\ caller' = "loop"
  /\ UNCHANGED <<time, next_, wake, stopToken, history>>

\* Mutants of NextSlot: missed slots are made up for; every delay is kept.
NextSlotBurst(t) == next_ + Interval
NextSlotDrift(t) == t + Interval

\* The slot after one that is left at time t: in step with the last one, or an
\* interval from now after a stall.
NextSlot(t) == IF t - next_ < Interval THEN next_ + Interval ELSE t + Interval

\* The slot is due, or a stop request ends the wait.
Return ==
  /\ caller = "loop"
  /\ now >= next_ \/ stopToken
  /\ next_' = NextSlot(now)
  /\ caller' = "idle"
  /\ IF now >= next_
     THEN /\ grants' = Append(grants, now)
          /\ base' = IF now - next_ < Interval THEN base ELSE now
          /\ cadence' = IF now - next_ < Interval THEN Append(cadence, now) ELSE <<now>>
     ELSE UNCHANGED history
  /\ UNCHANGED <<time, now, wake, stopToken>>

Stop ==
  /\ ~ stopToken
  /\ stopToken' = TRUE
  /\ UNCHANGED <<time, caller, now, next_, wake, history>>

Tick ==
  /\ \E t \in time + 1 .. MaxTime : time' = t
  /\ UNCHANGED <<caller, now, next_, wake, stopToken, history>>

LimiterNext == Call \/ Wait \/ Reread \/ Return \/ Stop \/ Tick

LimiterSpec == LimiterInit /\ [][LimiterNext]_limiterVars

-----------------------------------------------------------------------------
(* Properties.                                                              *)

TypeOK ==
  /\ time \in Nat
  /\ caller \in {"idle", "loop", "asleep", "spinning"}
  /\ now \in Nat /\ now <= time
  /\ next_ \in Nat
  /\ wake \in Int
  /\ stopToken \in BOOLEAN
  /\ grants \in Seq(Nat)
  /\ base \in Nat
  /\ cadence \in Seq(Nat)

\* The rate is never exceeded, whatever stalls came before: k + 1 slots in a row
\* take more than k - 1 intervals, so a stall is not followed by a burst.
MinSpacing ==
  \A i, j \in 1 .. Len(grants) : i < j => grants[j] - grants[i] > (j - i - 1) * Interval

\* Late wake-ups do not add up: the k-th slot since the last stall is granted
\* within the k-th interval.
Cadence ==
  \A k \in 1 .. Len(cadence) :
    /\ cadence[k] >= base + (k - 1) * Interval
    /\ cadence[k] < base + k * Interval

\* The inductive part.  next_ has moved on by an interval for every slot granted
\* after slot i, and it is in step with the cadence until a stop ends the calls.
SlotsAhead ==
  \A i \in 1 .. Len(grants) : next_ > grants[i] + (Len(grants) - i) * Interval

InStep ==
  \/ stopToken /\ caller = "idle"
  \/ next_ = base + Len(cadence) * Interval

SlotInv == TypeOK /\ SlotsAhead /\ InStep

=============================================================================
