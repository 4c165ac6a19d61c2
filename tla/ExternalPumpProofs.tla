-------------------------- MODULE ExternalPumpProofs --------------------------
(***************************************************************************)
(* Proofs about ExternalPump, for every set of delays and every value of   *)
(* the bounds, where the works of Run's drain loop run no modal loop.      *)
(***************************************************************************)
EXTENDS ExternalPump, TLAPS

\* A request for work at once is queued.
Now(q) == \E i \in 1..Len(q) : q[i] <= 0

\* A request that will set the timer anew is queued, t being the timer.
Restarts(q, t) == \E i \in 1..Len(q) : q[i] > 0 /\ (q[i] # kTimerDelayPlaceholder \/ t = Off)

\* The stack of works, and is_active_, which tells those that DoWork has called; and how
\* many calls Run has still to make.
Stack ==
  /\ works \in 0..1
  /\ phase = "run" => (is_active_ <=> works = 1)
  /\ phase # "run" => ~is_active_
  /\ phase # "done" => rounds < DrainRounds

\* WakesInTime, and while work is active: what has been discarded is remembered, what has
\* been scheduled is not postponed.
Wakes ==
  phase = "run" /\ due # Off =>
    \/ is_active_ /\ reentrancy_detected_
    \/ timer # Off /\ timer <= due
    \/ expired
    \/ Now(queue)

\* The time waited and the time to wait, by the requests that have restarted the timer and
\* those that will.
Waits ==
  phase = "run" /\ responsive /\ works = 0 =>
    /\ waited <= LongestWait(postponed)
    /\ timer # Off => waited + timer <= LongestWait(postponed)
    /\ Restarts(queue, timer) => waited <= kMaxTimerDelay * postponed

IInv == TypeOK /\ Stack /\ AlwaysArmed /\ Wakes /\ Waits
-----------------------------------------------------------------------------
(* Helpers. *)

LEMMA Constants ==
  /\ kMaxTimerDelay \in Nat /\ kMaxTimerDelay > 0
  /\ kTimerDelayPlaceholder \in Nat /\ kTimerDelayPlaceholder > kMaxTimerDelay
  /\ DrainRounds \in Nat /\ DrainRounds > 0 /\ MaxPostponed \in Nat
BY PumpAssumption

LEMMA AsLParamType == ASSUME NEW d \in Delays PROVE AsLParam(d) \in Int
<1>1. d \in Int /\ LParams \in Nat \ {0} BY PumpAssumption
<1>2. LParams \div 2 \in Int BY <1>1
<1>3. (d + LParams \div 2) % LParams \in Int BY <1>1, <1>2
<1> QED BY <1>2, <1>3 DEF AsLParam

\* How the longest wait grows with the requests.
LEMMA LongestWaitIs ==
  ASSUME NEW p \in Nat
  PROVE  /\ kMaxTimerDelay * p \in Nat /\ LongestWait(p) \in Nat
         /\ LongestWait(p) = kMaxTimerDelay * p + kMaxTimerDelay
         /\ LongestWait(p) = kMaxTimerDelay * (p + 1)
BY Constants DEF LongestWait

\* What a queue asks for is what its head or its tail asks for.
LEMMA HeadOrTail ==
  ASSUME NEW q \in Seq(Int), q # <<>>, NEW t
  PROVE  /\ Head(q) \in Int /\ Tail(q) \in Seq(Int)
         /\ Now(q) => Head(q) <= 0 \/ Now(Tail(q))
         /\ Restarts(Tail(q), t) => Restarts(q, t)
         /\ Head(q) > 0 /\ (Head(q) # kTimerDelayPlaceholder \/ t = Off) => Restarts(q, t)
<1>1. /\ Head(q) \in Int /\ Tail(q) \in Seq(Int) /\ Len(q) \in Nat \ {0}
      /\ Len(Tail(q)) = Len(q) - 1 /\ Head(q) = q[1]
      /\ \A i \in 1..Len(Tail(q)) : Tail(q)[i] = q[i + 1]
  OBVIOUS
<1>2. Now(q) => Head(q) <= 0 \/ Now(Tail(q))
  <2> SUFFICES ASSUME NEW i \in 1..Len(q), q[i] <= 0, ~(Head(q) <= 0) PROVE Now(Tail(q))
    BY DEF Now
  <2>1. i # 1 BY <1>1
  <2>2. i - 1 \in 1..Len(Tail(q)) /\ (i - 1) + 1 = i BY <1>1, <2>1
  <2>3. Tail(q)[i - 1] = q[i] BY <1>1, <2>2
  <2> QED BY <2>2, <2>3 DEF Now
<1>3. Restarts(Tail(q), t) => Restarts(q, t)
  <2> SUFFICES ASSUME NEW i \in 1..Len(Tail(q)), Tail(q)[i] > 0,
                      Tail(q)[i] # kTimerDelayPlaceholder \/ t = Off
               PROVE  Restarts(q, t)
    BY DEF Restarts
  <2>1. i + 1 \in 1..Len(q) /\ q[i + 1] = Tail(q)[i] BY <1>1
  <2> QED BY <2>1 DEF Restarts
<1>4. Head(q) > 0 /\ (Head(q) # kTimerDelayPlaceholder \/ t = Off) => Restarts(q, t)
  <2>1. 1 \in 1..Len(q) BY <1>1
  <2> QED BY <1>1, <2>1 DEF Restarts
<1> QED BY <1>1, <1>2, <1>3, <1>4

\* One request more.
LEMMA AppendAsks ==
  ASSUME NEW q \in Seq(Int), NEW d \in Int, NEW t
  PROVE  /\ Append(q, d) \in Seq(Int) /\ Append(q, d) # <<>>
         /\ Now(q) => Now(Append(q, d))
         /\ d <= 0 => Now(Append(q, d))
         /\ Restarts(Append(q, d), t) => Restarts(q, t) \/ d > 0
<1>1. /\ Append(q, d) \in Seq(Int) /\ Append(q, d) # <<>> /\ Len(q) \in Nat
      /\ Len(Append(q, d)) = Len(q) + 1 /\ Append(q, d)[Len(q) + 1] = d
      /\ \A i \in 1..Len(q) : Append(q, d)[i] = q[i]
  OBVIOUS
<1>2. Now(q) => Now(Append(q, d)) BY <1>1 DEF Now
<1>3. d <= 0 => Now(Append(q, d))
  <2>1. Len(q) + 1 \in 1..Len(Append(q, d)) BY <1>1
  <2> QED BY <1>1, <2>1 DEF Now
<1>4. Restarts(Append(q, d), t) => Restarts(q, t) \/ d > 0
  <2> SUFFICES ASSUME NEW i \in 1..Len(Append(q, d)), Append(q, d)[i] > 0, ~(d > 0),
                      Append(q, d)[i] # kTimerDelayPlaceholder \/ t = Off
               PROVE  Restarts(q, t)
    BY DEF Restarts
  <2>1. i # Len(q) + 1 BY <1>1
  <2>2. i \in 1..Len(q) BY <1>1, <2>1
  <2> QED BY <1>1, <2>2 DEF Restarts
<1> QED BY <1>1, <1>2, <1>3, <1>4

\* A queue is as short of restarts when the timer is pending as when it is not.
LEMMA RestartsOff ==
  ASSUME NEW q, NEW t, NEW u, t # Off, Restarts(q, t)
  PROVE  Restarts(q, u)
BY DEF Restarts

LEMMA RescheduleType ==
  ASSUME NEW q \in Seq(Int), NEW r \in BOOLEAN, NEW t
  PROVE  /\ Reschedule(r, q, t) \in Seq(Int)
         /\ r => Now(Reschedule(r, q, t)) /\ Reschedule(r, q, t) # <<>>
         /\ t = Off => Reschedule(r, q, t) # <<>>
         /\ Now(q) => Now(Reschedule(r, q, t))
<1>1. kTimerDelayPlaceholder \in Int /\ 0 \in Int BY Constants
<1>2. CASE r
  <2>1. Reschedule(r, q, t) = Append(q, 0) BY <1>2 DEF Reschedule
  <2>2. Append(q, 0) \in Seq(Int) /\ Append(q, 0) # <<>> /\ Now(Append(q, 0))
    BY <1>1, AppendAsks
  <2> QED BY <2>1, <2>2
<1>3. CASE ~r /\ t = Off
  <2>1. Reschedule(r, q, t) = Append(q, kTimerDelayPlaceholder) BY <1>3 DEF Reschedule
  <2> QED BY <1>1, <1>3, <2>1, AppendAsks
<1>4. CASE ~r /\ t # Off
  <2>1. Reschedule(r, q, t) = q BY <1>4 DEF Reschedule
  <2> QED BY <1>4, <2>1
<1> QED BY <1>2, <1>3, <1>4

LEMMA ClampedIs ==
  ASSUME NEW d \in Int, d > 0
  PROVE  Clamped(d) \in 1..kMaxTimerDelay /\ Shorter(d, kMaxTimerDelay) = Clamped(d)
BY Constants DEF Clamped, Shorter
-----------------------------------------------------------------------------
LEMMA InitIInv == Init => IInv
<1> SUFFICES ASSUME Init PROVE IInv OBVIOUS
<1>1. LongestWait(0) \in Nat /\ LongestWait(MaxPostponed) \in Nat /\ kMaxTimerDelay * 0 = 0
  BY LongestWaitIs, Constants
<1>2. TypeOK
  <2>1. /\ Off \in Off..kMaxTimerDelay /\ Off \in Off..(LongestWait(MaxPostponed) + 1)
        /\ 0 \in 0..DrainRounds /\ 0 \in 0..MaxPostponed
    BY <1>1, Constants DEF Off
  <2>2. /\ timer \in Off..kMaxTimerDelay /\ due \in Off..kMaxTimerDelay
        /\ waited \in Off..(LongestWait(MaxPostponed) + 1)
        /\ rounds \in 0..DrainRounds /\ postponed \in 0..MaxPostponed /\ works \in 0..2
    BY <2>1 DEF Init
  <2>3. /\ expired \in BOOLEAN /\ is_active_ \in BOOLEAN /\ reentrancy_detected_ \in BOOLEAN
        /\ quitting \in BOOLEAN /\ unserved \in BOOLEAN /\ responsive \in BOOLEAN
    BY DEF Init
  <2> QED BY <2>2, <2>3 DEF Init, TypeOK
<1>3. Stack /\ AlwaysArmed /\ Wakes BY Constants DEF Init, Stack, AlwaysArmed, Wakes
<1>4. Waits
  <2>1. ~Restarts(queue, timer) BY DEF Init, Restarts
  <2> QED BY <1>1, <2>1 DEF Init, Waits, Off
<1> QED BY <1>2, <1>3, <1>4 DEF IInv

LEMMA OnScheduleMessagePumpWorkKeeps ==
  ASSUME IInv, NEW d \in Delays, OnScheduleMessagePumpWork(d)
  PROVE  IInv'
<1> USE DEF IInv
<1>1. /\ queue' = Append(queue, AsLParam(d)) /\ unserved' = TRUE
      /\ AsLParam(d) > 0 => postponed < MaxPostponed
      /\ postponed' = IF AsLParam(d) > 0 THEN postponed + 1 ELSE postponed
      /\ UNCHANGED <<timer, expired, is_active_, reentrancy_detected_, works, phase,
                     rounds, quitting, due, waited, responsive>>
  BY DEF OnScheduleMessagePumpWork
<1>2. AsLParam(d) \in Int BY AsLParamType
<1> DEFINE a == AsLParam(d)
<1> HIDE DEF a
<1>3. /\ a \in Int /\ queue' = Append(queue, a) /\ queue \in Seq(Int)
      /\ postponed' = IF a > 0 THEN postponed + 1 ELSE postponed
      /\ a > 0 => postponed < MaxPostponed
  BY <1>1, <1>2 DEF a, TypeOK
<1>4. /\ queue' \in Seq(Int) /\ queue' # <<>> /\ (Now(queue) => Now(queue'))
      /\ Restarts(queue', timer) => Restarts(queue, timer) \/ a > 0
  BY <1>3, AppendAsks
<1>5. postponed \in Nat /\ postponed' \in Nat /\ postponed' <= MaxPostponed
  BY <1>3, Constants DEF TypeOK
<1>6. TypeOK' BY <1>1, <1>4, <1>5 DEF TypeOK, LongestWait
<1>7. Stack' BY <1>1 DEF Stack
<1>8. AlwaysArmed' BY <1>4 DEF AlwaysArmed
<1>9. Wakes' BY <1>1, <1>4 DEF Wakes
<1>10. Waits'
  <2> SUFFICES ASSUME phase = "run", responsive, works = 0
               PROVE  /\ waited <= LongestWait(postponed')
                      /\ timer # Off => waited + timer <= LongestWait(postponed')
                      /\ Restarts(queue', timer) => waited <= kMaxTimerDelay * postponed'
    BY <1>1 DEF Waits
  <2>1. waited \in Int /\ timer \in Int BY DEF TypeOK, Off
  <2>2. CASE a > 0
    <3>1. postponed' = postponed + 1 BY <1>3, <2>2
    <3>2. /\ LongestWait(postponed) = kMaxTimerDelay * postponed' /\ LongestWait(postponed) \in Nat
          /\ LongestWait(postponed') = kMaxTimerDelay * postponed' + kMaxTimerDelay
      BY <1>5, <3>1, LongestWaitIs
    <3>3. LongestWait(postponed) <= LongestWait(postponed') /\ LongestWait(postponed') \in Int
      BY <3>2, Constants
    <3>4. waited <= LongestWait(postponed) /\ (timer # Off => waited + timer <= LongestWait(postponed))
      BY DEF Waits
    <3>5. waited + timer \in Int BY <2>1
    <3>6. waited <= kMaxTimerDelay * postponed' BY <3>2, <3>4
    <3>7. waited <= LongestWait(postponed') BY <2>1, <3>2, <3>3, <3>4
    <3>8. timer # Off => waited + timer <= LongestWait(postponed') BY <3>2, <3>3, <3>4, <3>5
    <3> QED BY <3>6, <3>7, <3>8
  <2>3. CASE ~(a > 0) BY <1>3, <1>4, <2>3 DEF Waits
  <2> QED BY <2>2, <2>3
<1> QED BY <1>6, <1>7, <1>8, <1>9, <1>10

LEMMA WorkReturnsKeeps ==
  ASSUME IInv, WorkReturns
  PROVE  IInv'
<1> USE DEF IInv
<1>1. /\ is_active_ /\ is_active_' = FALSE /\ works' = works - 1 /\ waited' = 0
      /\ queue' = Reschedule(reentrancy_detected_, queue, timer)
      /\ UNCHANGED <<timer, expired, reentrancy_detected_, phase, rounds, quitting,
                     unserved, due, postponed, responsive>>
  BY DEF WorkReturns
<1>2. phase = "run" /\ works = 1 /\ works' = 0 BY <1>1 DEF Stack, TypeOK
<1>3. /\ queue' \in Seq(Int) /\ (reentrancy_detected_ => Now(queue') /\ queue' # <<>>)
      /\ (timer = Off => queue' # <<>>) /\ (Now(queue) => Now(queue'))
  BY <1>1, RescheduleType DEF TypeOK
<1>4. TypeOK'
  <2>1. LongestWait(MaxPostponed) \in Nat BY Constants, LongestWaitIs
  <2>2. waited' \in Off..(LongestWait(MaxPostponed) + 1) BY <1>1, <2>1 DEF Off
  <2>3. is_active_' \in BOOLEAN BY <1>1
  <2>4. works' \in 0..2 BY <1>2
  <2> QED BY <1>1, <1>3, <2>2, <2>3, <2>4 DEF TypeOK
<1>5. Stack' BY <1>1, <1>2 DEF Stack
<1>6. AlwaysArmed' BY <1>1, <1>3 DEF AlwaysArmed
<1>7. Wakes' BY <1>1, <1>3 DEF Wakes
<1>8. Waits'
  <2>1. postponed \in Nat /\ timer \in Int /\ timer <= kMaxTimerDelay
    BY Constants DEF TypeOK, Off
  <2>2. /\ LongestWait(postponed) = kMaxTimerDelay * postponed + kMaxTimerDelay
        /\ kMaxTimerDelay * postponed \in Nat
    BY <2>1, LongestWaitIs
  <2>3. 0 <= LongestWait(postponed) /\ 0 + timer <= LongestWait(postponed)
        /\ 0 <= kMaxTimerDelay * postponed
    BY <2>1, <2>2, Constants
  <2> QED BY <1>1, <2>3 DEF Waits
<1> QED BY <1>4, <1>5, <1>6, <1>7, <1>8

\* DoWork with no timer pending, q being what is queued.
LEMMA DoWorkKeeps ==
  ASSUME IInv, NEW q \in Seq(Int), phase = "run", timer' = Off, DoWork(q),
         expired' \in BOOLEAN, UNCHANGED <<phase, rounds, quitting, waited, responsive>>
  PROVE  IInv'
<1> USE DEF IInv
<1>1. CASE is_active_
  <2>1. /\ reentrancy_detected_' = TRUE /\ queue' = Reschedule(FALSE, q, Off) /\ due' = 0
        /\ UNCHANGED <<is_active_, works, unserved, postponed>>
    BY <1>1 DEF DoWork
  <2>2. queue' \in Seq(Int) /\ queue' # <<>> BY <2>1, RescheduleType
  <2>3. works = 1 BY <1>1 DEF Stack
  <2>4. TypeOK'
    <3>1. Off \in Off..kMaxTimerDelay /\ 0 \in Off..kMaxTimerDelay BY Constants DEF Off
    <3> QED BY <2>1, <2>2, <3>1 DEF TypeOK
  <2>5. Stack' BY <2>1 DEF Stack
  <2>6. AlwaysArmed' BY <2>2 DEF AlwaysArmed
  <2>7. Wakes' BY <1>1, <2>1 DEF Wakes
  <2>8. Waits' BY <2>1, <2>3 DEF Waits
  <2> QED BY <2>4, <2>5, <2>6, <2>7, <2>8
<1>2. CASE ~is_active_
  <2>1. /\ is_active_' = TRUE /\ reentrancy_detected_' = FALSE /\ queue' = q
        /\ works' = works + 1 /\ unserved' = FALSE /\ due' = Off /\ postponed' = 0
    BY <1>2 DEF DoWork, EnterWork
  <2>2. works = 0 /\ works' = 1 BY <1>2, <2>1 DEF Stack
  <2>3. TypeOK'
    <3>1. /\ due' \in Off..kMaxTimerDelay /\ timer' \in Off..kMaxTimerDelay
          /\ postponed' \in 0..MaxPostponed /\ works' \in 0..2
      BY <2>1, <2>2, Constants DEF Off
    <3>2. is_active_' \in BOOLEAN /\ reentrancy_detected_' \in BOOLEAN /\ unserved' \in BOOLEAN
      BY <2>1
    <3> QED BY <2>1, <3>1, <3>2 DEF TypeOK
  <2>4. Stack' BY <2>1, <2>2 DEF Stack
  <2>5. AlwaysArmed' BY <2>2 DEF AlwaysArmed
  <2>6. Wakes' BY <2>1 DEF Wakes
  <2>7. Waits' BY <2>2 DEF Waits
  <2> QED BY <2>3, <2>4, <2>5, <2>6, <2>7
<1> QED BY <1>1, <1>2

\* A request that keeps the timer.
LEMMA TimerKept ==
  ASSUME IInv, phase = "run", queue # <<>>, KeepsTimer(Head(queue)),
         queue' = Tail(queue), due' = DueBy(Head(queue)),
         UNCHANGED <<timer, is_active_, reentrancy_detected_, works, unserved, postponed,
                     expired, phase, rounds, quitting, waited, responsive>>
  PROVE  IInv'
<1> USE DEF IInv
<1> DEFINE h == Head(queue)
<1>1. queue \in Seq(Int) BY DEF TypeOK
<1>2. /\ h \in Int /\ queue' \in Seq(Int) /\ (Now(queue) => h <= 0 \/ Now(queue'))
      /\ Restarts(queue', timer) => Restarts(queue, timer)
  BY <1>1, HeadOrTail
<1>3. h = kTimerDelayPlaceholder /\ timer # Off /\ h > 0 BY Constants DEF KeepsTimer
<1>4. due' = IF due # Off THEN due ELSE kMaxTimerDelay
  BY <1>2, <1>3, Constants DEF DueBy, Shorter
<1>5. timer \in Int /\ timer <= kMaxTimerDelay BY Constants DEF TypeOK, Off
<1>6. TypeOK'
  <2>1. due' \in Off..kMaxTimerDelay BY <1>4, Constants DEF TypeOK, Off
  <2> QED BY <1>2, <2>1 DEF TypeOK, LongestWait
<1>7. Stack' BY DEF Stack
<1>8. AlwaysArmed' BY <1>3 DEF AlwaysArmed
<1>9. Wakes' BY <1>2, <1>3, <1>4, <1>5 DEF Wakes
<1>10. Waits' BY <1>2 DEF Waits
<1> QED BY <1>6, <1>7, <1>8, <1>9, <1>10

\* A request that sets the timer anew.
LEMMA TimerSet ==
  ASSUME IInv, phase = "run", queue # <<>>, ~KeepsTimer(Head(queue)), Head(queue) > 0,
         timer' = Clamped(Head(queue)), queue' = Tail(queue), due' = DueBy(Head(queue)),
         UNCHANGED <<is_active_, reentrancy_detected_, works, unserved, postponed,
                     expired, phase, rounds, quitting, waited, responsive>>
  PROVE  IInv'
<1> USE DEF IInv
<1> DEFINE h == Head(queue)
<1>1. queue \in Seq(Int) BY DEF TypeOK
<1>2. /\ h \in Int /\ queue' \in Seq(Int) /\ (Now(queue) => h <= 0 \/ Now(queue'))
      /\ Restarts(queue', timer) => Restarts(queue, timer)
      /\ (h # kTimerDelayPlaceholder \/ timer = Off) => Restarts(queue, timer)
  BY <1>1, HeadOrTail
<1>3. h # kTimerDelayPlaceholder \/ timer = Off BY DEF KeepsTimer
<1>4. timer' \in 1..kMaxTimerDelay /\ Shorter(h, kMaxTimerDelay) = timer' BY <1>2, ClampedIs
<1>5. timer' # Off /\ timer' \in Int /\ timer' <= kMaxTimerDelay BY <1>4, Constants DEF Off
<1>6. due' = IF h = kTimerDelayPlaceholder /\ due # Off THEN due ELSE timer'
  BY <1>2, <1>4 DEF DueBy
<1>7. TypeOK'
  <2>1. timer' \in Off..kMaxTimerDelay BY <1>4, Constants DEF Off
  <2>2. due' \in Off..kMaxTimerDelay BY <1>6, <2>1 DEF TypeOK
  <2> QED BY <1>2, <2>1, <2>2 DEF TypeOK, LongestWait
<1>8. Stack' BY DEF Stack
<1>9. AlwaysArmed' BY <1>5 DEF AlwaysArmed
<1>10. Wakes'
  <2>1. CASE h = kTimerDelayPlaceholder /\ due # Off
    <3>1. timer = Off /\ due' = due BY <1>3, <1>6, <2>1
    <3> QED BY <1>2, <3>1, <2>1 DEF Wakes
  <2>2. CASE ~(h = kTimerDelayPlaceholder /\ due # Off)
    <3>1. due' = timer' BY <1>6, <2>2
    <3> QED BY <1>5, <3>1 DEF Wakes
  <2> QED BY <2>1, <2>2
<1>11. Waits'
  <2> SUFFICES ASSUME responsive, works = 0
               PROVE  /\ waited <= LongestWait(postponed)
                      /\ waited + timer' <= LongestWait(postponed)
                      /\ Restarts(queue', timer') => waited <= kMaxTimerDelay * postponed
    BY DEF Waits
  <2>1. waited <= kMaxTimerDelay * postponed BY <1>2, <1>3 DEF Waits
  <2>2. waited \in Int /\ postponed \in Nat BY DEF TypeOK, Off
  <2>3. /\ LongestWait(postponed) = kMaxTimerDelay * postponed + kMaxTimerDelay
        /\ kMaxTimerDelay * postponed \in Nat
    BY <2>2, LongestWaitIs
  <2>4. waited <= LongestWait(postponed) /\ waited + timer' <= LongestWait(postponed)
    BY <2>1, <2>2, <2>3, <1>5, Constants
  <2> QED BY <2>1, <2>4
<1> QED BY <1>7, <1>8, <1>9, <1>10, <1>11

LEMMA HaveWorkKeeps ==
  ASSUME IInv, ~ModalInDrain, HaveWork
  PROVE  IInv'
<1> DEFINE h == Head(queue)
<1>1. /\ phase = "run" /\ queue # <<>> /\ OnScheduleWork(h, Tail(queue))
      /\ UNCHANGED <<expired, phase, rounds, quitting, waited, responsive>>
  BY DEF HaveWork, Dispatching
<1>2. queue \in Seq(Int) /\ h \in Int /\ Tail(queue) \in Seq(Int) /\ expired' \in BOOLEAN
  BY <1>1 DEF IInv, TypeOK
<1>3. CASE KeepsTimer(h)
  BY <1>1, <1>3, TimerKept DEF OnScheduleWork
<1>4. CASE ~KeepsTimer(h) /\ h <= 0
  <2>1. timer' = Off /\ DoWork(Tail(queue)) BY <1>1, <1>2, <1>4 DEF OnScheduleWork
  <2> QED BY <1>1, <1>2, <2>1, DoWorkKeeps
<1>5. CASE ~KeepsTimer(h) /\ h > 0
  <2>1. /\ timer' = Clamped(h) /\ due' = DueBy(h) /\ queue' = Tail(queue)
        /\ UNCHANGED <<is_active_, reentrancy_detected_, works, unserved, postponed>>
    BY <1>1, <1>2, <1>5 DEF OnScheduleWork
  <2> QED BY <1>1, <1>5, <2>1, TimerSet
<1> QED BY <1>2, <1>3, <1>4, <1>5

LEMMA OnTimerTimeoutKeeps ==
  ASSUME IInv, ~ModalInDrain, OnTimerTimeout
  PROVE  IInv'
<1>1. /\ phase = "run" /\ expired' = FALSE /\ timer' = Off /\ DoWork(queue)
      /\ UNCHANGED <<phase, rounds, quitting, waited, responsive>>
  BY DEF OnTimerTimeout, Dispatching
<1>2. queue \in Seq(Int) BY DEF IInv, TypeOK
<1> QED BY <1>1, <1>2, DoWorkKeeps

LEMMA TimerElapsesKeeps ==
  ASSUME IInv, TimerElapses
  PROVE  IInv'
BY DEF IInv, TimerElapses, TypeOK, Stack, AlwaysArmed, Wakes, Waits, LongestWait

LEMMA TickKeeps ==
  ASSUME IInv, Tick
  PROVE  IInv'
<1> USE DEF IInv
<1>1. /\ responsive => queue = <<>> /\ ~expired /\ timer # 0 /\ works = 0
      /\ timer' = Sooner(timer) /\ due' = Sooner(due)
      /\ waited' = IF waited = Off \/ works > 0 THEN waited ELSE Later(waited)
      /\ UNCHANGED <<queue, expired, is_active_, reentrancy_detected_, works, phase, rounds,
                     quitting, unserved, postponed, responsive>>
  BY DEF Tick
<1>2. /\ timer \in Off..kMaxTimerDelay /\ due \in Off..kMaxTimerDelay /\ kMaxTimerDelay \in Nat
      /\ waited \in Off..(LongestWait(MaxPostponed) + 1) /\ LongestWait(MaxPostponed) \in Nat
  BY Constants, LongestWaitIs DEF TypeOK
<1>3. /\ timer' \in Off..kMaxTimerDelay /\ due' \in Off..kMaxTimerDelay
      /\ (timer = Off <=> timer' = Off) /\ (due = Off <=> due' = Off)
      /\ timer # Off /\ timer <= due => timer' <= due'
      /\ timer # Off /\ timer # 0 => timer' = timer - 1
  BY <1>1, <1>2 DEF Sooner, Off
<1>4. /\ waited' \in Off..(LongestWait(MaxPostponed) + 1) /\ waited' <= waited + 1
      /\ (waited = Off <=> waited' = Off)
  <2>1. CASE waited = Off \/ works > 0 BY <1>1, <1>2, <2>1 DEF Off
  <2>2. CASE ~(waited = Off \/ works > 0)
    <3>1. waited' = Shorter(waited + 1, LongestWait(MaxPostponed) + 1) BY <1>1, <2>2 DEF Later
    <3> QED BY <1>2, <2>2, <3>1 DEF Shorter, Off
  <2> QED BY <2>1, <2>2
<1>5. TypeOK' BY <1>1, <1>3, <1>4 DEF TypeOK, LongestWait
<1>6. Stack' BY <1>1 DEF Stack
<1>7. AlwaysArmed' BY <1>1, <1>3, <1>4 DEF AlwaysArmed
<1>8. Wakes' BY <1>1, <1>3 DEF Wakes
<1>9. Waits'
  <2> SUFFICES ASSUME phase = "run", responsive, works = 0
               PROVE  /\ waited' <= LongestWait(postponed)
                      /\ timer' # Off => waited' + timer' <= LongestWait(postponed)
                      /\ Restarts(queue, timer') => waited' <= kMaxTimerDelay * postponed
    BY <1>1 DEF Waits
  <2>1. ~Restarts(queue, timer') BY <1>1 DEF Restarts
  <2>2. postponed \in Nat /\ LongestWait(postponed) \in Nat BY LongestWaitIs DEF TypeOK
  <2>3. CASE waited = Off
    <3>1. waited' = Off BY <1>4, <2>3
    <3>2. timer # Off => Off + timer <= LongestWait(postponed) BY <2>3 DEF Waits
    <3>3. timer # Off => timer' = timer - 1 BY <1>1, <1>3
    <3> QED BY <1>2, <1>3, <2>1, <2>2, <3>1, <3>2, <3>3 DEF Off
  <2>4. CASE waited # Off
    <3>1. timer # Off BY <1>1, <2>4 DEF AlwaysArmed
    <3>2. timer' = timer - 1 /\ timer >= 1 BY <1>1, <1>2, <1>3, <3>1 DEF Off
    <3>3. waited + timer <= LongestWait(postponed) BY <3>1 DEF Waits
    <3> QED BY <1>2, <1>4, <2>1, <2>2, <3>2, <3>3 DEF Off
  <2> QED BY <2>3, <2>4
<1> QED BY <1>5, <1>6, <1>7, <1>8, <1>9

LEMMA QuitKeeps ==
  ASSUME IInv, Quit
  PROVE  IInv'
BY DEF IInv, Quit, TypeOK, Stack, AlwaysArmed, Wakes, Waits, LongestWait

LEMMA LoopEndsKeeps ==
  ASSUME IInv, LoopEnds
  PROVE  IInv'
<1> USE DEF IInv
<1>1. /\ phase = "run" /\ works = 0 /\ phase' = "drain" /\ timer' = Off
      /\ UNCHANGED <<queue, expired, is_active_, reentrancy_detected_, works, rounds,
                     quitting, unserved, due, waited, postponed, responsive>>
  BY DEF LoopEnds
<1>2. TypeOK' BY <1>1, Constants DEF TypeOK, LongestWait, Off
<1>3. Stack' BY <1>1 DEF Stack
<1> QED BY <1>1, <1>2, <1>3 DEF AlwaysArmed, Wakes, Waits

LEMMA DrainWorkKeeps ==
  ASSUME IInv, DrainWork
  PROVE  IInv'
<1> USE DEF IInv
<1>1. /\ phase = "drain" /\ works = 0 /\ works' = 1 /\ unserved' = FALSE /\ due' = Off
      /\ postponed' = 0
      /\ UNCHANGED <<queue, timer, expired, is_active_, reentrancy_detected_, phase, rounds,
                     quitting, waited, responsive>>
  BY DEF DrainWork, EnterWork
<1>2. TypeOK'
  <2>1. due' \in Off..kMaxTimerDelay /\ postponed' \in 0..MaxPostponed /\ works' \in 0..2
    BY <1>1, Constants DEF Off
  <2>2. unserved' \in BOOLEAN BY <1>1
  <2> QED BY <1>1, <2>1, <2>2 DEF TypeOK
<1>3. Stack' BY <1>1 DEF Stack
<1> QED BY <1>1, <1>2, <1>3 DEF AlwaysArmed, Wakes, Waits

LEMMA DrainReturnsKeeps ==
  ASSUME IInv, DrainReturns
  PROVE  IInv'
<1> USE DEF IInv
<1>1. /\ phase = "drain" /\ works' = 0 /\ rounds' = rounds + 1
      /\ phase' = IF rounds + 1 = DrainRounds THEN "done" ELSE "drain"
      /\ UNCHANGED <<queue, timer, expired, is_active_, reentrancy_detected_, quitting,
                     unserved, due, waited, postponed, responsive>>
  BY DEF DrainReturns
<1>2. rounds < DrainRounds /\ ~is_active_ BY <1>1 DEF Stack
<1>3. TypeOK' BY <1>1, <1>2, Constants DEF TypeOK, LongestWait
<1>4. Stack' BY <1>1, <1>2, Constants DEF Stack, TypeOK
<1> QED BY <1>1, <1>3, <1>4 DEF AlwaysArmed, Wakes, Waits

LEMMA NextKeeps == ASSUME ~ModalInDrain PROVE IInv /\ [Next]_vars => IInv'
<1> SUFFICES ASSUME IInv, [Next]_vars PROVE IInv' OBVIOUS
<1>1. CASE \E d \in Delays : OnScheduleMessagePumpWork(d)
  BY <1>1, OnScheduleMessagePumpWorkKeeps
<1>2. CASE HaveWork BY <1>2, HaveWorkKeeps
<1>3. CASE OnTimerTimeout BY <1>3, OnTimerTimeoutKeeps
<1>4. CASE WorkReturns BY <1>4, WorkReturnsKeeps
<1>5. CASE LoopEnds BY <1>5, LoopEndsKeeps
<1>6. CASE DrainWork BY <1>6, DrainWorkKeeps
<1>7. CASE DrainReturns BY <1>7, DrainReturnsKeeps
<1>8. CASE TimerElapses BY <1>8, TimerElapsesKeeps
<1>9. CASE Tick BY <1>9, TickKeeps
<1>10. CASE Quit BY <1>10, QuitKeeps
<1>11. CASE UNCHANGED vars
  BY <1>11 DEF vars, IInv, TypeOK, Stack, AlwaysArmed, Wakes, Waits, LongestWait
<1> QED BY <1>1, <1>2, <1>3, <1>4, <1>5, <1>6, <1>7, <1>8, <1>9, <1>10, <1>11
    DEF Next, MainThread

LEMMA Inductive == ASSUME ~ModalInDrain PROVE Spec => []IInv
BY InitIInv, NextKeeps, PTL DEF Spec
-----------------------------------------------------------------------------
\* Every variable stays within its type: no timer is ever set for longer than the maximum.
THEOREM TypeCorrect == ASSUME ~ModalInDrain PROVE Spec => []TypeOK
<1>1. IInv => TypeOK BY DEF IInv
<1> QED BY <1>1, Inductive, PTL

\* The pump never goes to sleep with nothing to wake it.
THEOREM NeverAsleep == ASSUME ~ModalInDrain PROVE Spec => []AlwaysArmed
<1>1. IInv => AlwaysArmed BY DEF IInv
<1> QED BY <1>1, Inductive, PTL

\* What wakes the pump comes no later than the last request handled asks for.
THEOREM WakesByRequest == ASSUME ~ModalInDrain PROVE Spec => []WakesInTime
<1>1. IInv => WakesInTime
  <2> SUFFICES ASSUME IInv, phase = "run", works = 0, due # Off
               PROVE  \/ timer # Off /\ timer <= due
                      \/ expired
                      \/ \E i \in 1..Len(queue) : queue[i] <= 0
    BY DEF WakesInTime
  <2>1. ~is_active_ BY DEF IInv, Stack
  <2> QED BY <2>1 DEF IInv, Wakes, Now
<1> QED BY <1>1, Inductive, PTL

\* CefDoMessageLoopWork is never re-entered.
THEOREM NotNested == ASSUME ~ModalInDrain PROVE Spec => []WorkNotNested
<1>1. IInv => WorkNotNested BY DEF IInv, Stack, WorkNotNested
<1> QED BY <1>1, Inductive, PTL

\* On a responsive main thread the time between two works is bounded by the requests that
\* have restarted the timer.
THEOREM WaitIsBounded == ASSUME ~ModalInDrain PROVE Spec => []WaitBounded
<1>1. IInv => WaitBounded BY DEF IInv, Waits, WaitBounded
<1> QED BY <1>1, Inductive, PTL
=============================================================================
