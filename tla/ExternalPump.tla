---------------------------- MODULE ExternalPump ----------------------------
(***************************************************************************)
(* The external message pump of the native host: CEF asks, from any        *)
(* thread, for CefDoMessageLoopWork to be called now or after a delay; the *)
(* pump turns the request into a message of the main thread, and a delay   *)
(* into a timer. CefDoMessageLoopWork may run a modal loop of its own,     *)
(* which dispatches messages too.                                          *)
(*   src/cef3/tests/shared/browser/main_message_loop_external_pump.cc      *)
(*   src/cef3/tests/shared/browser/main_message_loop_external_pump_win.cc  *)
(***************************************************************************)
EXTENDS Integers, Sequences

CONSTANTS
  kMaxTimerDelay,          \* the longest timer the pump sets
  kTimerDelayPlaceholder,  \* INT_MAX, the delay of the pump's own request for a timer
  LParams,                 \* how many values an LPARAM has (2^32 or 2^64)
  Delays,                  \* the delays CEF asks for
  DrainRounds,             \* calls to CefDoMessageLoopWork after the loop
  ModalInDrain,            \* may those calls run a modal loop?
  MaxQueue,                \* bound: messages queued when CEF asks
  MaxPostponed             \* bound: delayed requests between two works

\* What a delay becomes in the LPARAM of a message and back (a signed value).
AsLParam(d) == ((d + LParams \div 2) % LParams) - (LParams \div 2)

ASSUME PumpAssumption ==
  /\ kMaxTimerDelay \in Nat \ {0}
  /\ kTimerDelayPlaceholder \in Nat /\ kTimerDelayPlaceholder > kMaxTimerDelay
  /\ LParams \in Nat \ {0} /\ Delays \subseteq Int
  /\ DrainRounds \in Nat \ {0} /\ ModalInDrain \in BOOLEAN
  /\ MaxQueue \in Nat /\ MaxPostponed \in Nat

VARIABLES
  queue,      \* the delays of the kMsgHaveWork messages of the main thread
  timer,      \* timer_pending_ and the time it has left, Off when none is pending
  expired,    \* a WM_TIMER message waits to be dispatched
  is_active_,
  reentrancy_detected_,
  works,      \* how many CefDoMessageLoopWork calls are on the main thread's stack
  phase,      \* Run: in its message loop, draining after it, or done
  rounds,     \* the drain calls made
  quitting,   \* WM_QUIT has been posted
  unserved,   \* history: CEF has asked since the last work began
  due,        \* history: the time left until work is due by the last request handled
  waited,     \* history: the time since the last work, Off before the first
  postponed,  \* history: delayed requests since the last work began
  responsive  \* whether the main thread handles messages in no time, or may be late

vars == <<queue, timer, expired, is_active_, reentrancy_detected_, works, phase,
          rounds, quitting, unserved, due, waited, postponed, responsive>>

Off == -1
Shorter(a, b) == IF a < b THEN a ELSE b
\* The longest wait that p delayed requests may lead to, and the next longer one, the longest
\* told apart.
LongestWait(p) == kMaxTimerDelay * (p + 1)
Later(t) == Shorter(t + 1, LongestWait(MaxPostponed) + 1)
Sooner(t) == IF t > 0 THEN t - 1 ELSE t

Init ==
  /\ queue = <<>> /\ timer = Off /\ expired = FALSE
  /\ is_active_ = FALSE /\ reentrancy_detected_ = FALSE /\ works = 0
  /\ phase = "run" /\ rounds = 0 /\ quitting = FALSE
  /\ unserved = FALSE /\ due = Off /\ waited = Off /\ postponed = 0
  /\ responsive \in BOOLEAN

\* A loop that dispatches the window's messages runs: Run's own, or a modal one
\* inside CefDoMessageLoopWork.
Dispatching ==
  \/ phase = "run"
  \/ phase = "drain" /\ ModalInDrain /\ works = 1
-----------------------------------------------------------------------------
(* CEF's requests. *)

OnScheduleMessagePumpWork(d) ==
  /\ phase # "done" /\ Len(queue) < MaxQueue
  /\ AsLParam(d) > 0 => postponed < MaxPostponed
  /\ queue' = Append(queue, AsLParam(d))
  /\ unserved' = TRUE
  /\ postponed' = IF AsLParam(d) > 0 THEN postponed + 1 ELSE postponed
  /\ UNCHANGED <<timer, expired, is_active_, reentrancy_detected_, works, phase,
                 rounds, quitting, due, waited, responsive>>
-----------------------------------------------------------------------------
(* The work. *)

\* Mutant: the pump does not ask for a next work unless one was discarded.
RescheduleDiscarded(was_reentrant, q, t) == IF was_reentrant THEN Append(q, 0) ELSE q

\* Mutant: the pump ignores what became of the work.
RescheduleNever(was_reentrant, q, t) == q

\* The queue after DoWork has looked at the outcome of the work; t is the timer.
Reschedule(was_reentrant, q, t) ==
  CASE was_reentrant -> Append(q, 0)
    [] ~was_reentrant /\ t = Off -> Append(q, kTimerDelayPlaceholder)
    [] OTHER -> q

\* CefDoMessageLoopWork is entered.
EnterWork ==
  /\ works' = works + 1
  /\ unserved' = FALSE /\ due' = Off /\ postponed' = 0

\* Mutant: no guard against re-entrant work.
DoWorkUnguarded(q) ==
  /\ is_active_' = TRUE /\ reentrancy_detected_' = FALSE
  /\ queue' = q
  /\ EnterWork

\* DoWork, called with no timer pending, up to the work; q is the queue. While
\* work is active it is discarded, which the active call will see.
DoWork(q) ==
  \/ /\ is_active_
     /\ reentrancy_detected_' = TRUE
     /\ queue' = Reschedule(FALSE, q, Off)
     /\ due' = 0
     /\ UNCHANGED <<is_active_, works, unserved, postponed>>
  \/ /\ ~is_active_
     /\ is_active_' = TRUE /\ reentrancy_detected_' = FALSE
     /\ queue' = q
     /\ EnterWork

\* CefDoMessageLoopWork returns to PerformMessageLoopWork, and that to DoWork.
WorkReturns ==
  /\ is_active_
  /\ is_active_' = FALSE
  /\ works' = works - 1
  /\ queue' = Reschedule(reentrancy_detected_, queue, timer)
  /\ waited' = 0
  /\ UNCHANGED <<timer, expired, reentrancy_detected_, phase, rounds, quitting,
                 unserved, due, postponed, responsive>>
-----------------------------------------------------------------------------
(* The messages. *)

\* Mutant: any pending timer is kept.
KeepsAnyTimer(d) == timer # Off

\* The pump's own request sets no timer when one is pending.
KeepsTimer(d) == d = kTimerDelayPlaceholder /\ timer # Off

\* Mutant: the delay CEF asks for is not limited.
ClampedNever(d) == d

Clamped(d) == Shorter(d, kMaxTimerDelay)

\* When work is due by a request for d; the pump's own request postpones nothing.
DueBy(d) ==
  CASE d = kTimerDelayPlaceholder /\ due # Off -> due
    [] d <= 0 -> 0
    [] OTHER -> Shorter(d, kMaxTimerDelay)

OnScheduleWork(d, q) ==
  \/ /\ KeepsTimer(d)
     /\ queue' = q
     /\ due' = DueBy(d)
     /\ UNCHANGED <<timer, is_active_, reentrancy_detected_, works, unserved, postponed>>
  \/ /\ ~KeepsTimer(d) /\ d <= 0
     /\ timer' = Off
     /\ DoWork(q)
  \/ /\ ~KeepsTimer(d) /\ d > 0
     /\ timer' = Clamped(d)
     /\ due' = DueBy(d)
     /\ queue' = q
     /\ UNCHANGED <<is_active_, reentrancy_detected_, works, unserved, postponed>>

\* WndProc, a kMsgHaveWork message.
HaveWork ==
  /\ Dispatching /\ queue # <<>>
  /\ OnScheduleWork(Head(queue), Tail(queue))
  /\ UNCHANGED <<expired, phase, rounds, quitting, waited, responsive>>

\* WndProc, a WM_TIMER message, which Windows delivers when no other is queued. A
\* message that was generated before its timer was killed is delivered too.
OnTimerTimeout ==
  /\ Dispatching /\ expired /\ queue = <<>>
  /\ expired' = FALSE
  /\ timer' = Off
  /\ DoWork(queue)
  /\ UNCHANGED <<phase, rounds, quitting, waited, responsive>>

\* Windows generates the message of a timer whose time has come.
TimerElapses ==
  /\ timer = 0 /\ ~expired
  /\ expired' = TRUE
  /\ UNCHANGED <<queue, timer, is_active_, reentrancy_detected_, works, phase, rounds,
                 quitting, unserved, due, waited, postponed, responsive>>

\* Time passes. Where the main thread is responsive, only when it has nothing to do.
Tick ==
  /\ responsive => queue = <<>> /\ ~expired /\ timer # 0 /\ works = 0
  /\ timer' = Sooner(timer)
  /\ due' = Sooner(due)
  /\ waited' = IF waited = Off \/ works > 0 THEN waited ELSE Later(waited)
  /\ UNCHANGED <<queue, expired, is_active_, reentrancy_detected_, works, phase, rounds,
                 quitting, unserved, postponed, responsive>>
-----------------------------------------------------------------------------
(* The end of the loop. *)

\* Quit: the application posts WM_QUIT. Its place among the messages is left open, as
\* a modal loop posts it again.
Quit ==
  /\ phase = "run" /\ ~quitting
  /\ quitting' = TRUE
  /\ UNCHANGED <<queue, timer, expired, is_active_, reentrancy_detected_, works, phase,
                 rounds, unserved, due, waited, postponed, responsive>>

\* GetMessage returns 0.
LoopEnds ==
  /\ phase = "run" /\ quitting /\ works = 0
  /\ phase' = "drain"
  /\ timer' = Off
  /\ UNCHANGED <<queue, expired, is_active_, reentrancy_detected_, works, rounds,
                 quitting, unserved, due, waited, postponed, responsive>>

\* Run calls CefDoMessageLoopWork directly.
DrainWork ==
  /\ phase = "drain" /\ works = 0
  /\ EnterWork
  /\ UNCHANGED <<queue, timer, expired, is_active_, reentrancy_detected_, phase, rounds,
                 quitting, waited, responsive>>

DrainReturns ==
  /\ phase = "drain" /\ works = 1 /\ ~is_active_
  /\ works' = 0
  /\ rounds' = rounds + 1
  /\ phase' = IF rounds + 1 = DrainRounds THEN "done" ELSE "drain"
  /\ UNCHANGED <<queue, timer, expired, is_active_, reentrancy_detected_, quitting,
                 unserved, due, waited, postponed, responsive>>
-----------------------------------------------------------------------------
MainThread == HaveWork \/ OnTimerTimeout \/ WorkReturns \/ LoopEnds \/ DrainWork \/ DrainReturns

Next ==
  \/ \E d \in Delays : OnScheduleMessagePumpWork(d)
  \/ MainThread
  \/ TimerElapses \/ Tick \/ Quit

Spec == Init /\ [][Next]_vars

\* The main thread goes on dispatching and CefDoMessageLoopWork returns, though it may
\* dispatch any number of messages before; Windows' clock and timers run.
FairSpec ==
  /\ Spec
  /\ WF_vars(HaveWork) /\ WF_vars(OnTimerTimeout) /\ WF_vars(WorkReturns)
  /\ WF_vars(LoopEnds) /\ WF_vars(DrainWork) /\ WF_vars(DrainReturns)
  /\ WF_vars(TimerElapses) /\ WF_vars(Tick)
-----------------------------------------------------------------------------
\* Every variable has its type; in particular no timer is set for longer than
\* kMaxTimerDelay.
TypeOK ==
  /\ queue \in Seq(Int)
  /\ timer \in Off..kMaxTimerDelay /\ expired \in BOOLEAN
  /\ is_active_ \in BOOLEAN /\ reentrancy_detected_ \in BOOLEAN
  /\ works \in 0..2 /\ phase \in {"run", "drain", "done"} /\ rounds \in 0..DrainRounds
  /\ quitting \in BOOLEAN /\ unserved \in BOOLEAN
  /\ due \in Off..kMaxTimerDelay /\ waited \in Off..(LongestWait(MaxPostponed) + 1)
  /\ postponed \in 0..MaxPostponed /\ responsive \in BOOLEAN

\* No lost wake-up: from CEF's first request to the end of the loop, whenever no work
\* is on the stack, a message or a timer is there to start the next one. Each of DoWork's
\* three outcomes, in OnScheduleWork and OnTimerTimeout, must leave one behind.
AlwaysArmed ==
  phase = "run" /\ works = 0 /\ (unserved \/ waited # Off)
    => queue # <<>> \/ timer # Off \/ expired

\* The last request decides: what wakes the pump is never later than the last request
\* handled asks for (or kMaxTimerDelay), and work that was discarded because other work
\* was active is asked for again at once, not left to a timer.
WakesInTime ==
  phase = "run" /\ works = 0 /\ due # Off
    => \/ timer # Off /\ timer <= due
       \/ expired
       \/ \E i \in 1..Len(queue) : queue[i] <= 0

\* CefDoMessageLoopWork is never called while a call of it is on the stack.
WorkNotNested == works <= 1

\* On a main thread that handles its messages in no time, no more than kMaxTimerDelay passes
\* between two calls of DoWork and once more for each delayed request, which restarts the
\* timer: the pump's maximum holds from one request to the next, not between two works as
\* the comment on kMaxTimerDelay says.
WaitBounded ==
  phase = "run" /\ responsive /\ works = 0 => waited <= LongestWait(postponed)

\* Each request CEF makes is followed by work, if CEF does not postpone it for ever (bound
\* MaxPostponed), whatever is discarded while modal loops run.
EveryRequestServed == unserved ~> (~unserved \/ phase = "done")
=============================================================================
