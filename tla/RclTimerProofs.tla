--------------------------- MODULE RclTimerProofs ---------------------------
(***************************************************************************)
(* Proofs about RclTimer, for any set of periods and any bounds.           *)
(***************************************************************************)
EXTENDS RclTimer, TLAPS

-----------------------------------------------------------------------------
(* The operators of TimerOps *)

\* What \div means for a positive divisor.
LEMMA DivBounds ==
    ASSUME NEW a \in Int, NEW p \in Nat \ {0}
    PROVE  /\ a \div p \in Int
           /\ p * (a \div p) =< a
           /\ a < p * (a \div p) + p
  OBVIOUS

\* A multiple of the period leaves no remainder.
LEMMA MultipleMod ==
    ASSUME NEW k \in Int, NEW p \in Nat \ {0}
    PROVE  (k * p) % p = 0
  OBVIOUS

\* next_call_time is the first slot after now of the grid of the period: after
\* now, a whole number of periods away, and not a period too late unless it is
\* the very next slot (rcl_timer_call_with_info).
LEMMA NextCallTime ==
    ASSUME NEW next \in Int, NEW now \in Int, NEW p \in Nat \ {0}
    PROVE  LET n == next_call_time(next, p, now)
           IN  /\ n \in Int
               /\ n > now
               /\ (n - next) % p = 0
               /\ n = next + p \/ n - p =< now
<1> DEFINE n == next_call_time(next, p, now)
           q == (now - (next + p)) \div p
<1>1. CASE next + p > now
  <2>1. n = next + p
    BY <1>1 DEF next_call_time
  <2>2. n - next = 1 * p
    BY <2>1
  <2>3. (n - next) % p = 0
    BY <2>2, MultipleMod
  <2> QED
    BY <1>1, <2>1, <2>3
<1>2. CASE ~(next + p > now)
  <2>1. q \in Int /\ p * q =< now - (next + p) /\ now - (next + p) < p * q + p
    BY DivBounds
  <2>2. n = next + p + (1 + q) * p
    BY <1>2 DEF next_call_time
  <2> HIDE DEF q
  <2>3. (1 + q) * p = p * q + p
    BY <2>1
  <2>4. n - next = (2 + q) * p
    BY <2>1, <2>2
  <2>5. (n - next) % p = 0
    BY <2>1, <2>4, MultipleMod
  <2>6. n \in Int /\ n > now /\ n - p =< now
    <3> HIDE DEF n
    <3> DEFINE pq == p * q
    <3>1. pq \in Int /\ pq =< now - (next + p) /\ now - (next + p) < pq + p
      BY <2>1
    <3>2. n = next + p + pq + p
      BY <2>1, <2>2, <2>3
    <3> HIDE DEF pq
    <3> QED
      BY <3>1, <3>2
  <2> QED
    BY <2>5, <2>6
<1> QED
  BY <1>1, <1>2

-----------------------------------------------------------------------------
(* Type correctness *)

\* Calling and time jumps yield a timer again.
LEMMA TimerOpsType ==
    ASSUME NEW tm \in TimerType, NEW now \in Int, NEW change \in BOOLEAN
    PROVE  /\ rcl_timer_call(tm, now) \in TimerType
           /\ time_jump_before(tm, change, now) \in TimerType
           /\ time_jump_after(tm, change, now) \in TimerType
           /\ rcl_timer_cancel(tm) \in TimerType
           /\ rcl_timer_reset(tm, now) \in TimerType
<1>1. tm.period \in Nat
  BY TimerAssumption DEF TimerType
<1>2. next_call_time(tm.next, tm.period, now) \in Int
  <2>1. CASE tm.period = 0
    BY <2>1 DEF next_call_time, TimerType
  <2>2. CASE tm.period # 0
    BY <1>1, <2>2, NextCallTime DEF TimerType
  <2> QED
    BY <2>1, <2>2
<1>3. rcl_timer_call(tm, now) \in TimerType
  BY <1>2 DEF rcl_timer_call, TimerType
<1>4. time_jump_before(tm, change, now) \in TimerType
  BY DEF time_jump_before, TimerType
<1>5. time_jump_after(tm, change, now) \in TimerType
  <2>1. tm.credit \in Int /\ tm.next \in Int /\ tm.last \in Int
    BY DEF TimerType
  <2>2. \A n, l, c \in Int :
          [tm EXCEPT !.credit = c] \in TimerType
          /\ [tm EXCEPT !.next = n, !.last = l] \in TimerType
          /\ [tm EXCEPT !.credit = c, !.next = n, !.last = l] \in TimerType
    BY DEF TimerType
  <2>3. now - tm.credit + tm.period \in Int /\ now - tm.credit \in Int
        /\ now + tm.period \in Int
    BY <1>1, <2>1
  <2> QED
    <3>1. CASE change /\ (now = 0 \/ tm.credit = 0)
      <4>1. (IF now = 0 THEN tm.credit ELSE 0) \in Int
        BY <2>1
      <4> QED
        BY <2>2, <3>1, <4>1 DEF time_jump_after
    <3>2. CASE change /\ ~(now = 0 \/ tm.credit = 0)
      <4> DEFINE n == now - tm.credit + tm.period
                 l == now - tm.credit
      <4>1. time_jump_after(tm, change, now) =
              [tm EXCEPT !.credit = 0, !.next = n, !.last = l]
        BY <3>2 DEF time_jump_after
      <4>2. n \in Int /\ l \in Int /\ 0 \in Int
        BY <2>3
      <4> HIDE DEF n, l
      <4>3. [tm EXCEPT !.credit = 0, !.next = n, !.last = l] \in TimerType
        BY <2>2, <4>2, ZenonT(40)
      <4> QED
        BY <4>1, <4>3
    <3>3. CASE ~change
      BY <2>2, <2>3, <3>3 DEF time_jump_after
    <3> QED
      BY <3>1, <3>2, <3>3
<1>6. rcl_timer_cancel(tm) \in TimerType
  BY DEF rcl_timer_cancel, TimerType
<1>7. rcl_timer_reset(tm, now) \in TimerType
  <2>1. now + tm.period \in Int
    BY <1>1
  <2>2. \A n \in Int : [tm EXCEPT !.next = n, !.canceled = FALSE] \in TimerType
    BY DEF TimerType
  <2> QED
    BY <2>1, <2>2 DEF rcl_timer_reset
<1> QED
  BY <1>3, <1>4, <1>5, <1>6, <1>7

LEMMA NowType == TypeOK => Now \in Int
  BY DEF TypeOK, Now

LEMMA InitType == Init => TypeOK
<1> SUFFICES ASSUME Init PROVE TypeOK
  OBVIOUS
<1>1. PICK p \in Periods : timer = rcl_timer_init(Now, p)
  BY DEF Init
<1>2. p \in Nat /\ Now \in Int
  BY TimerAssumption DEF Init, Now
<1>3. timer \in TimerType
  BY <1>1, <1>2 DEF rcl_timer_init, TimerType
<1>4. MaxRos \in Nat \ {0} /\ MaxSys \in Nat \ {0} /\ MaxChanges \in Nat
  BY TimerAssumption
<1> QED
  <2>1. sys \in 0..MaxSys /\ ros \in 0..MaxRos /\ changes \in 0..MaxChanges
    BY <1>4 DEF Init
  <2>2. /\ active \in BOOLEAN /\ trig \in BOOLEAN /\ inset \in BOOLEAN
        /\ cpc = "idle" /\ wpc = "run" /\ deadline = NoDeadline
    BY DEF Init
  <2> QED
    BY <1>3, <2>1, <2>2 DEF TypeOK

LEMMA StepType == TypeOK /\ [Next]_vars => TypeOK'
<1> SUFFICES ASSUME TypeOK, [Next]_vars PROVE TypeOK'
  OBVIOUS
<1>a. /\ Now \in Int /\ timer \in TimerType
      /\ MaxSys \in Nat /\ MaxRos \in Nat /\ MaxChanges \in Nat
  BY NowType, TimerAssumption DEF TypeOK
<1>1. CASE Tick
  BY <1>1, <1>a DEF TypeOK, Tick
<1>2. CASE \E v \in 0..MaxRos : rcl_set_ros_time_override(v)
  BY <1>2, <1>a DEF TypeOK, rcl_set_ros_time_override
<1>3. CASE ClockChangeBefore
  <2>1. timer' \in TimerType
    BY <1>3, <1>a, TimerOpsType DEF ClockChangeBefore
  <2> QED
    <3>1. changes' \in 0..MaxChanges
      BY <1>3, <1>a DEF TypeOK, ClockChangeBefore
    <3> QED
      BY <1>3, <2>1, <3>1 DEF TypeOK, ClockChangeBefore
<1>4. CASE ClockChangeFlip
  BY <1>4 DEF TypeOK, ClockChangeFlip
<1>5. CASE JumpAfter
  <2>1. timer' \in TimerType
    BY <1>5, <1>a, TimerOpsType DEF JumpAfter
  <2>2. trig' \in BOOLEAN
    BY <1>5 DEF JumpAfter, TypeOK, time_jump_triggers
  <2> QED
    BY <1>5, <2>1, <2>2 DEF TypeOK, JumpAfter
<1>6. CASE rcl_wait
  <2>1. deadline' \in Nat \cup {NoDeadline}
    BY <1>6, <1>a DEF rcl_wait, WakeUpTime, TypeOK, TimerType
  <2>2. inset' \in BOOLEAN
    BY <1>6 DEF rcl_wait, TypeOK
  <2> QED
    BY <1>6, <2>1, <2>2 DEF TypeOK, rcl_wait
<1>7. CASE rcl_wait_return
  BY <1>7 DEF TypeOK, rcl_wait_return
<1>8. CASE CallTimer
  <2>1. timer' \in TimerType
    BY <1>8, <1>a, TimerOpsType DEF CallTimer
  <2> QED
    BY <1>8, <2>1 DEF TypeOK, CallTimer
<1>9. CASE UserCancel
  <2>1. timer' \in TimerType
    BY <1>9, <1>a, TimerOpsType DEF UserCancel
  <2> QED
    BY <1>9, <2>1 DEF TypeOK, UserCancel
<1>10. CASE UserReset
  <2>1. timer' \in TimerType
    BY <1>10, <1>a, TimerOpsType DEF UserReset
  <2> QED
    BY <1>10, <2>1 DEF TypeOK, UserReset
<1>11. CASE \E p \in Periods : UserExchangePeriod(p)
  BY <1>11 DEF TypeOK, TimerType, UserExchangePeriod, rcl_timer_exchange_period
<1>12. CASE UNCHANGED vars
  BY <1>12 DEF TypeOK, vars
<1> QED
  BY <1>1, <1>2, <1>3, <1>4, <1>5, <1>6, <1>7, <1>8, <1>9, <1>10, <1>11, <1>12
     DEF Next

\* The timer, the clock and the executor keep the shape their types give them,
\* for every set of periods and every bound: in particular rcl_wait never passes
\* a negative wake-up time to rmw_wait.
THEOREM TypeCorrect == Spec => []TypeOK
  BY InitType, StepType, PTL DEF Spec

-----------------------------------------------------------------------------
(* Wake-ups *)

\* Why no wake-up is lost.  While the override is never switched, the time
\* source is only ever between the store of a jump and its callback, and an
\* executor asleep without timeout or trigger either runs on system time with a
\* canceled timer, or on ROS time with a timer that is not ready.
WakeupInv ==
    (changes = 0 /\ 0 \notin Periods) =>
        /\ cpc = "idle" \/ (cpc = "jumped" /\ active)
        /\ (wpc = "asleep" /\ deadline = NoDeadline /\ ~trig) =>
              IF active THEN cpc = "idle" => timer.canceled \/ timer.next > ros
              ELSE timer.canceled

LEMMA WakeupInvEnough == TypeOK /\ WakeupInv => NoLostWakeup
  BY DEF TypeOK, WakeupInv, NoLostWakeup, GuardConditionWakesUs, rcl_timer_is_ready, Now,
         TimerType

LEMMA InitWakeup == Init => WakeupInv
  BY DEF Init, WakeupInv

LEMMA StepWakeup == TypeOK /\ WakeupInv /\ [Next]_vars => WakeupInv'
<1> SUFFICES ASSUME TypeOK, WakeupInv, [Next]_vars, changes' = 0, 0 \notin Periods
             PROVE  WakeupInv'
  BY DEF WakeupInv
<1> USE DEF WakeupInv
<1>a. timer.period \in Nat \ {0} /\ MaxChanges \in Nat
  BY TimerAssumption DEF TypeOK, TimerType
<1>1. CASE Tick
  BY <1>1 DEF Tick
<1>2. CASE \E v \in 0..MaxRos : rcl_set_ros_time_override(v)
  BY <1>2 DEF rcl_set_ros_time_override
<1>3. CASE ClockChangeBefore
  BY <1>3 DEF ClockChangeBefore, TypeOK
<1>4. CASE ClockChangeFlip
  BY <1>4 DEF ClockChangeFlip
<1>5. CASE JumpAfter
  <2>1. cpc = "jumped" /\ active /\ Now = ros
    BY <1>5 DEF JumpAfter, Now
  <2>2. trig' \/ timer'.next > ros
    <3>1. timer.next \in Int /\ timer.last \in Int /\ ros \in Int /\ timer \in TimerType
      BY DEF TypeOK, TimerType
    <3>2. ros + timer.period \in Int /\ ros + timer.period > ros
      BY <1>a, <3>1
    <3>3. CASE timer.next =< ros
      BY <1>5, <2>1, <3>3 DEF JumpAfter, time_jump_triggers
    <3>4. CASE ~(timer.next =< ros) /\ ros < timer.last
      <4>1. timer' = [timer EXCEPT !.next = ros + timer.period, !.last = ros]
        BY <1>5, <2>1, <3>4 DEF JumpAfter, time_jump_after
      <4> QED
        BY <3>1, <3>2, <4>1 DEF TimerType
    <3>5. CASE ~(timer.next =< ros) /\ ~(ros < timer.last)
      <4>1. timer' = timer
        BY <1>5, <2>1, <3>5 DEF JumpAfter, time_jump_after
      <4> QED
        BY <3>1, <3>5, <4>1
    <3> QED
      BY <3>3, <3>4, <3>5
  <2> QED
    BY <1>5, <2>1, <2>2 DEF JumpAfter
<1>6. CASE rcl_wait
  BY <1>6 DEF rcl_wait, WakeUpTime, rcl_timer_is_ready, Now, NoDeadline, TypeOK, TimerType
<1>7. CASE rcl_wait_return
  BY <1>7 DEF rcl_wait_return
<1>8. CASE CallTimer
  BY <1>8 DEF CallTimer
<1>9. CASE UserCancel
  BY <1>9 DEF UserCancel, rcl_timer_cancel, TypeOK, TimerType
<1>10. CASE UserReset
  BY <1>10 DEF UserReset
<1>11. CASE \E p \in Periods : UserExchangePeriod(p)
  BY <1>11 DEF UserExchangePeriod, rcl_timer_exchange_period, TypeOK, TimerType
<1>12. CASE UNCHANGED vars
  BY <1>12 DEF vars
<1> QED
  BY <1>1, <1>2, <1>3, <1>4, <1>5, <1>6, <1>7, <1>8, <1>9, <1>10, <1>11, <1>12
     DEF Next

\* For every set of positive periods and every sequence of jumps of ROS time, an
\* executor asleep in rcl_wait without a timeout never has a ready timer and no
\* trigger, unless the override is switched.
THEOREM WakeupNeverLost == Spec => []NoLostWakeup
  BY InitType, StepType, InitWakeup, StepWakeup, WakeupInvEnough, PTL DEF Spec

-----------------------------------------------------------------------------
(* The grid of calls *)

\* Every call schedules the first slot of the timer's grid after now, for every
\* period and however late the call comes.
THEOREM CallsStayOnGrid == Spec => CallSchedulesNextSlot
<1>1. TypeOK /\ [Next]_vars =>
        [ (wpc = "call" /\ wpc' = "run" /\ ~timer.canceled /\ timer.period > 0)
          => /\ timer'.next > Now
             /\ (timer'.next - timer.next) % timer.period = 0
             /\ \/ timer'.next = timer.next + timer.period
                \/ timer'.next - timer.period =< Now ]_vars
  <2> SUFFICES ASSUME TypeOK, Next, wpc = "call", wpc' = "run", ~timer.canceled,
                      timer.period > 0
               PROVE  /\ timer'.next > Now
                      /\ (timer'.next - timer.next) % timer.period = 0
                      /\ \/ timer'.next = timer.next + timer.period
                         \/ timer'.next - timer.period =< Now
    OBVIOUS
  <2>1. CallTimer
    BY DEF Next, Tick, rcl_set_ros_time_override, ClockChangeBefore, ClockChangeFlip,
           JumpAfter, rcl_wait, rcl_wait_return, UserCancel, UserReset,
           UserExchangePeriod
  <2>2. timer'.next = next_call_time(timer.next, timer.period, Now)
    BY <2>1 DEF CallTimer, rcl_timer_call, TypeOK, TimerType
  <2>3. timer.period \in Nat \ {0} /\ timer.next \in Int /\ Now \in Int
    <3>1. timer.period \in Periods /\ timer.next \in Int /\ Now \in Int
      BY NowType DEF TypeOK, TimerType
    <3>2. timer.period \in Nat
      BY <3>1, TimerAssumption
    <3> QED
      BY <3>1, <3>2
  <2>4. LET n == next_call_time(timer.next, timer.period, Now)
        IN  /\ n > Now
            /\ (n - timer.next) % timer.period = 0
            /\ n = timer.next + timer.period \/ n - timer.period =< Now
    BY <2>3, NextCallTime
  <2> QED
    BY <2>2, <2>4
<1> QED
  BY <1>1, InitType, StepType, PTL DEF Spec, CallSchedulesNextSlot
=============================================================================
