--------------------------- MODULE ControlThreads ---------------------------
(***************************************************************************)
(* The threads of one program around its main loop: SignalControlSource    *)
(* (common/src/signal_source.cpp), which blocks the signals and takes them *)
(* with sigwait() in a thread of its own, KeyboardControlSource            *)
(* (common/src/keyboard_source.cpp), which switches the terminal and polls *)
(* it in a second thread, and the order in which main() builds and         *)
(* destroys them.  What the main loop does is PacketStream; here it ends   *)
(* on a stop request or by itself.                                         *)
(*                                                                         *)
(* SIGINT, SIGTERM and SIGHUP have one effect and are one signal "stop";   *)
(* SIGUSR1 is "pause", SIGUSR2 is "resume".  Pending signals are a set:    *)
(* the kernel merges equal ones, and POSIX leaves open which of several is *)
(* taken first.  Of the signals the program does not block (SIGKILL,       *)
(* SIGQUIT, SIGPIPE), any may end it on the spot.                          *)
(***************************************************************************)
EXTENDS Naturals, Sequences

CONSTANTS
  MaxSignals,  \* bound: signals sent to the program
  MaxKeys      \* bound: keys typed

ASSUME ControlAssumption == MaxSignals \in Nat /\ MaxKeys \in Nat

VARIABLES
  main,      \* where the main thread is
  open,      \* threads in which the signals are not blocked
  pending,   \* signals pending for the process
  woken,     \* the destructor's SIGUSR2 is pending for the signal thread
  spc, took, \* the signal thread, and the signal it has taken
  stopping,  \* SignalControlSource::stopping_
  kpc,       \* the keyboard thread
  kStop,     \* the stop token of its jthread
  keys,      \* typed and not read
  hungUp,    \* the terminal is gone
  raw,       \* the terminal is in non-canonical mode
  stopRequest,       \* RunControl: the stop token
  paused_,           \* RunControl::paused_, an unsigned that is 0 or 1
  signalled, typed   \* counters for the bounds

signalThread   == <<spc, took>>
keyboardThread == <<kpc, kStop>>
terminal       == <<keys, hungUp, raw>>
control        == <<stopRequest, paused_>>
bounds         == <<signalled, typed>>
threadVars == <<main, open, pending, woken, signalThread, stopping, keyboardThread, terminal, control, bounds>>

Signals == {"stop", "pause", "resume"}
Keys    == {"q", "other"}

ThreadsInit ==
  /\ main = "parse"
  /\ open = {"main"}
  /\ pending = {}
  /\ woken = FALSE
  /\ spc = "none" /\ took = "none"
  /\ stopping = FALSE
  /\ kpc = "none" /\ kStop = FALSE
  /\ keys = <<>> /\ hungUp = FALSE /\ raw = FALSE
  /\ stopRequest = FALSE /\ paused_ = 0
  /\ signalled = 0 /\ typed = 0

\* RunControl: paused_.fetch_xor(1) on 0 or 1.
toggle_pause(p) == 1 - p

Ended == main \in {"exited", "killed", "slain"}

-----------------------------------------------------------------------------
(* main(): construction in the order of declaration.                        *)

\* Mutant of ConstructSignals: only the new thread blocks the signals.
ConstructSignalsInThread ==
  /\ main = "parse"
  /\ main' = "keyboard"
  /\ spc' = "wait"
  /\ UNCHANGED <<open, pending, woken, took, stopping, keyboardThread, terminal, control, bounds>>

\* SignalControlSource::SignalControlSource(): the signals are blocked before
\* the thread is created, which inherits the mask; either call may throw.
ConstructSignals ==
  /\ main = "parse"
  /\ \/ /\ open' = open \ {"main"}
        /\ main' = "keyboard"
        /\ spc' = "wait"
     \/ /\ main' = "exited"
        /\ open' \in {open, open \ {"main"}}
        /\ UNCHANGED spc
  /\ UNCHANGED <<pending, woken, took, stopping, keyboardThread, terminal, control, bounds>>

\* RawTerminal::RawTerminal(), unless there is no keyboard to read; tcgetattr
\* and tcsetattr may fail and then nothing has been changed.
ConstructTerminal ==
  /\ main = "keyboard"
  /\ \/ main' = "app" /\ UNCHANGED raw
     \/ main' = "spawn" /\ raw' = TRUE
     \/ main' = "stopping" /\ UNCHANGED raw
  /\ UNCHANGED <<open, pending, woken, signalThread, stopping, keyboardThread, keys, hungUp, control, bounds>>

\* The keyboard thread inherits the signal mask of the main thread; when it
\* cannot be created the terminal is put back.
ConstructKeyboard ==
  /\ main = "spawn"
  /\ \/ /\ kpc' = "head"
        /\ open' = IF "main" \in open THEN open \cup {"keyboard"} ELSE open
        /\ main' = "app"
     \/ /\ main' = "restore"
        /\ UNCHANGED <<open, kpc>>
  /\ UNCHANGED <<pending, woken, signalThread, stopping, kStop, terminal, control, bounds>>

\* The loop of the application sees the stop request, ends by itself, or throws.
AppStops ==
  /\ main = "app"
  /\ stopRequest
  /\ main' = "unwind"
  /\ UNCHANGED <<open, pending, woken, signalThread, stopping, keyboardThread, terminal, control, bounds>>

AppEnds ==
  /\ main = "app"
  /\ main' = "unwind"
  /\ UNCHANGED <<open, pending, woken, signalThread, stopping, keyboardThread, terminal, control, bounds>>

-----------------------------------------------------------------------------
(* main(): destruction in reverse order.                                    *)

\* ~KeyboardControlSource(): the jthread is asked to stop and joined, then
\* ~RawTerminal() puts the terminal back.
EndKeyboard ==
  /\ \/ /\ main = "unwind"
        /\ main' = IF kpc = "none" THEN "stopping" ELSE "joinKeyboard"
        /\ kStop' = (kpc # "none")
        /\ UNCHANGED raw
     \/ /\ main = "joinKeyboard"
        /\ kpc = "done"
        /\ main' = "restore"
        /\ UNCHANGED <<raw, kStop>>
     \/ /\ main = "restore"
        /\ raw' = FALSE
        /\ main' = "stopping"
        /\ UNCHANGED kStop
  /\ UNCHANGED <<open, pending, woken, signalThread, stopping, kpc, keys, hungUp, control, bounds>>

\* Mutant of EndSignals: the thread is woken before stopping_ is set.
EndSignalsSwapped ==
  /\ \/ /\ main = "stopping"
        /\ woken' = TRUE
        /\ main' = "wake"
        /\ UNCHANGED stopping
     \/ /\ main = "wake"
        /\ stopping' = TRUE
        /\ main' = "joinSignals"
        /\ UNCHANGED woken
     \/ /\ main = "joinSignals"
        /\ spc = "done"
        /\ main' = "exited"
        /\ UNCHANGED <<stopping, woken>>
  /\ UNCHANGED <<open, pending, signalThread, keyboardThread, terminal, control, bounds>>

\* ~SignalControlSource(): store stopping_, wake the thread with SIGUSR2, join.
EndSignals ==
  /\ \/ /\ main = "stopping"
        /\ stopping' = TRUE
        /\ main' = "wake"
        /\ UNCHANGED woken
     \/ /\ main = "wake"
        /\ woken' = TRUE
        /\ main' = "joinSignals"
        /\ UNCHANGED stopping
     \/ /\ main = "joinSignals"
        /\ spc = "done"
        /\ main' = "exited"
        /\ UNCHANGED <<stopping, woken>>
  /\ UNCHANGED <<open, pending, signalThread, keyboardThread, terminal, control, bounds>>

-----------------------------------------------------------------------------
(* SignalControlSource::run().                                              *)

\* sigwait() returns some pending signal, of the process or of the thread.
SigWait ==
  /\ spc = "wait"
  /\ ~ Ended
  /\ \/ \E s \in pending : took' = s /\ pending' = pending \ {s} /\ UNCHANGED woken
     \/ woken /\ took' = "wake" /\ woken' = FALSE /\ UNCHANGED pending
  /\ spc' = "check"
  /\ UNCHANGED <<main, open, stopping, keyboardThread, terminal, control, bounds>>

SigCheck ==
  /\ spc = "check"
  /\ ~ Ended
  /\ spc' = IF stopping THEN "done" ELSE "act"
  /\ UNCHANGED <<main, open, pending, woken, took, stopping, keyboardThread, terminal, control, bounds>>

\* Mutant of SigAct: a stop request is only taken from a running program.
SigActUnlessPaused ==
  /\ spc = "act"
  /\ ~ Ended
  /\ stopRequest' = (stopRequest \/ (took = "stop" /\ paused_ = 0))
  /\ paused_' = CASE took = "stop" -> paused_ [] took = "pause" -> 1 [] OTHER -> 0
  /\ spc' = "wait"
  /\ UNCHANGED <<main, open, pending, woken, took, stopping, keyboardThread, terminal, bounds>>

\* The switch; the wake-up is a SIGUSR2 like any other here.
SigAct ==
  /\ spc = "act"
  /\ ~ Ended
  /\ stopRequest' = (stopRequest \/ took = "stop")
  /\ paused_' = CASE took = "stop" -> paused_ [] took = "pause" -> 1 [] OTHER -> 0
  /\ spc' = "wait"
  /\ UNCHANGED <<main, open, pending, woken, took, stopping, keyboardThread, terminal, bounds>>

SignalThread == SigWait \/ SigCheck \/ SigAct

-----------------------------------------------------------------------------
(* KeyboardControlSource::run().                                            *)

\* The loop condition.
KeyHead ==
  /\ kpc = "head"
  /\ ~ Ended
  /\ kpc' = IF kStop \/ stopRequest THEN "done" ELSE "poll"
  /\ UNCHANGED <<main, open, pending, woken, signalThread, stopping, kStop, terminal, control, bounds>>

\* poll() times out, reports that the terminal is gone, or that a key is there.
KeyPoll ==
  /\ kpc = "poll"
  /\ ~ Ended
  /\ \/ keys = <<>> /\ ~ hungUp /\ kpc' = "head"
     \/ hungUp /\ kpc' = "done"
     \/ keys # <<>> /\ ~ hungUp /\ kpc' = "read"
  /\ UNCHANGED <<main, open, pending, woken, signalThread, stopping, kStop, terminal, control, bounds>>

\* poll() has seen a key, but another reader of the terminal was faster: read()
\* blocks.
Robbed == kpc = "read" /\ keys = <<>> /\ ~ hungUp

\* read() fails, finds the end of input because the terminal went away after
\* poll(), or returns a key: q stops, any other key toggles the pause.
KeyRead ==
  /\ kpc = "read"
  /\ ~ Ended /\ ~ Robbed
  /\ \/ /\ kpc' = "head"
        /\ UNCHANGED <<keys, control>>
     \/ /\ hungUp
        /\ kpc' = "done"
        /\ UNCHANGED <<keys, control>>
     \/ /\ ~ hungUp
        /\ stopRequest' = (stopRequest \/ Head(keys) = "q")
        /\ paused_' = IF Head(keys) = "q" THEN paused_ ELSE toggle_pause(paused_)
        /\ keys' = Tail(keys)
        /\ kpc' = "head"
  /\ UNCHANGED <<main, open, pending, woken, signalThread, stopping, kStop, hungUp, raw, bounds>>

KeyboardThread == KeyHead \/ KeyPoll \/ KeyRead

-----------------------------------------------------------------------------
(* The environment.                                                         *)

\* kill(2): a signal that some thread does not block has its default action,
\* which for all of them ends the process on the spot.
SendSignal ==
  /\ ~ Ended
  /\ signalled < MaxSignals
  /\ signalled' = signalled + 1
  /\ IF open = {}
     THEN \E s \in Signals : pending' = pending \cup {s} /\ UNCHANGED main
     ELSE main' = "killed" /\ UNCHANGED pending
  /\ UNCHANGED <<open, woken, signalThread, stopping, keyboardThread, terminal, control, typed>>

\* A signal that is not in the mask: nothing of the program runs any more.
Slay ==
  /\ ~ Ended
  /\ main' = "slain"
  /\ UNCHANGED <<open, pending, woken, signalThread, stopping, keyboardThread, terminal, control, bounds>>

Type ==
  /\ ~ Ended /\ raw /\ ~ hungUp
  /\ typed < MaxKeys
  /\ typed' = typed + 1
  /\ \E k \in Keys : keys' = Append(keys, k)
  /\ UNCHANGED <<main, open, pending, woken, signalThread, stopping, keyboardThread, hungUp, raw, control, signalled>>

\* Another program of the foreground process group reads the same terminal.
StealKey ==
  /\ ~ Ended /\ keys # <<>>
  /\ keys' = Tail(keys)
  /\ UNCHANGED <<main, open, pending, woken, signalThread, stopping, keyboardThread, hungUp, raw, control, bounds>>

HangUp ==
  /\ ~ Ended /\ raw /\ ~ hungUp
  /\ hungUp' = TRUE
  /\ UNCHANGED <<main, open, pending, woken, signalThread, stopping, keyboardThread, keys, raw, control, bounds>>

Construct  == ConstructSignals \/ ConstructTerminal \/ ConstructKeyboard
MainThread == Construct \/ AppStops \/ EndKeyboard \/ EndSignals

ThreadsNext ==
  \/ MainThread \/ AppEnds
  \/ SignalThread
  \/ KeyboardThread
  \/ SendSignal \/ Slay \/ Type \/ StealKey \/ HangUp

ThreadsSpec == ThreadsInit /\ [][ThreadsNext]_threadVars

\* The three threads are scheduled.  That a program that was not asked to stop
\* ends by itself, that signals are sent or keys typed, is not assumed.
FairSpec == ThreadsSpec /\ WF_threadVars(MainThread) /\ WF_threadVars(SignalThread) /\ WF_threadVars(KeyboardThread)

-----------------------------------------------------------------------------
(* Properties.                                                              *)

\* When the program ends by itself, by an exception, by a key or by one of the
\* signals it handles, at whatever moment of its start or of its shutdown the signal
\* arrives, the terminal is back in its old mode; an ending by another signal leaves
\* it as it is.  It is not put back while the keyboard thread may still read it.
TerminalMode ==
  /\ main \in {"exited", "killed"} => ~ raw
  /\ ~ Ended /\ kpc \in {"head", "poll", "read"} => raw

\* A stop signal ends the program whatever it is doing: pending signals are
\* merged and taken in any order, but a stop is never lost.  Only a key that
\* another reader of the terminal snatched away may stand against it.
StopSignalObeyed == "stop" \in pending ~> Ended \/ Robbed

\* A program that leaves its loop comes to its end: neither join waits for ever,
\* but for a keyboard thread whose key was snatched away.  It may be slain before.
ShutdownCompletes == main = "unwind" ~> main \in {"exited", "slain"} \/ Robbed

=============================================================================
