------------------------------ MODULE RclTimer ------------------------------
(***************************************************************************)
(* One rcl timer on an RCL_ROS_TIME clock, and one thread that waits for   *)
(* it in rcl_wait and calls it (an executor).                              *)
(*                                                                         *)
(* Three actors interleave:                                                *)
(*   - the time source, which sets, enables and disables the ROS time      *)
(*     override (rcl/src/rcl/time.c); every change runs the timer's jump   *)
(*     callback before and after it;                                       *)
(*   - the executor thread, asleep in rmw_wait with the timeout rcl_wait   *)
(*     computed (rcl/src/rcl/wait.c), woken by that timeout or by the      *)
(*     timer's guard condition;                                            *)
(*   - user code that cancels, resets or re-periods the timer.             *)
(* System time advances on its own.                                        *)
(***************************************************************************)
EXTENDS Integers, TimerOps

CONSTANTS
    Periods,      \* periods the timer may be given
    MaxSys,       \* horizon of system time (bound)
    MaxRos,       \* largest ROS time the time source sets (bound)
    MaxChanges    \* number of times the override is enabled or disabled (bound)

ASSUME TimerAssumption ==
    /\ Periods \subseteq Nat /\ Periods # {}
    /\ MaxSys \in Nat \ {0} /\ MaxRos \in Nat \ {0} /\ MaxChanges \in Nat

VARIABLES
    sys,      \* system time
    ros,      \* rcl_ros_clock_storage_t.current_time
    active,   \* rcl_ros_clock_storage_t.active
    cpc,      \* where the time source is inside an override operation
    changes,  \* clock changes so far (bound only)
    timer,    \* rcl_timer_impl_t
    trig,     \* the timer's guard condition is triggered
    wpc,      \* executor thread: running, asleep in rmw_wait, or about to call
    deadline, \* system time at which rmw_wait times out (NoDeadline: never)
    inset     \* the timer was left in the wait set by rcl_wait

vars == <<sys, ros, active, cpc, changes, timer, trig, wpc, deadline, inset>>

NoDeadline == -1

\* rcl_get_ros_time
Now == IF active THEN ros ELSE sys

TimerType == [period : Periods, last : Int, next : Int, credit : Int, canceled : BOOLEAN]

TypeOK ==
    /\ sys \in 0..MaxSys
    /\ ros \in 0..MaxRos
    /\ active \in BOOLEAN
    /\ cpc \in {"idle", "flip", "changed", "jumped"}
    /\ changes \in 0..MaxChanges
    /\ timer \in TimerType
    /\ trig \in BOOLEAN
    /\ wpc \in {"run", "asleep", "call"}
    /\ deadline \in Nat \cup {NoDeadline}
    /\ inset \in BOOLEAN

Init ==
    /\ sys = 1
    /\ ros \in {0, 1}
    /\ active \in BOOLEAN
    /\ cpc = "idle"
    /\ changes = 0
    /\ \E p \in Periods : timer = rcl_timer_init(Now, p)
    /\ trig = FALSE
    /\ wpc = "run"
    /\ deadline = NoDeadline
    /\ inset = FALSE

-----------------------------------------------------------------------------
(* The clock. *)

Tick ==
    /\ sys < MaxSys
    /\ sys' = sys + 1
    /\ UNCHANGED <<ros, active, cpc, changes, timer, trig, wpc, deadline, inset>>

\* rcl_set_ros_time_override: with the override active the jump callback runs
\* after the store (the call before the store does nothing without a clock
\* change).  A jump of zero is below both thresholds of the callback.
rcl_set_ros_time_override(v) ==
    /\ cpc = "idle"
    /\ v # ros
    /\ ros' = v
    /\ cpc' = IF active THEN "jumped" ELSE "idle"
    /\ UNCHANGED <<sys, active, changes, timer, trig, wpc, deadline, inset>>

\* rcl_enable_ros_time_override / rcl_disable_ros_time_override, first half:
\* the callback before the change.
ClockChangeBefore ==
    /\ cpc = "idle"
    /\ changes < MaxChanges
    /\ cpc' = "flip"
    /\ changes' = changes + 1
    /\ timer' = time_jump_before(timer, TRUE, Now)
    /\ UNCHANGED <<sys, ros, active, trig, wpc, deadline, inset>>

ClockChangeFlip ==
    /\ cpc = "flip"
    /\ active' = ~active
    /\ cpc' = "changed"
    /\ UNCHANGED <<sys, ros, changes, timer, trig, wpc, deadline, inset>>

\* The callback after the change, or after the jump.
JumpAfter ==
    /\ cpc \in {"changed", "jumped"}
    /\ timer' = time_jump_after(timer, cpc = "changed", Now)
    /\ trig' = (trig \/ time_jump_triggers(timer, cpc = "changed", Now))
    /\ cpc' = "idle"
    /\ UNCHANGED <<sys, ros, active, changes, wpc, deadline, inset>>

-----------------------------------------------------------------------------
(* The executor thread. *)

\* Mutant: the wait for a time that has passed is negative.
WakeUpTime_negative(next) == next

\* The timeout of rcl_wait for a timer due at next, as a point in system time; a
\* negative timeout is raised to zero.
WakeUpTime(next) == IF next < sys THEN sys ELSE next

\* rcl_wait up to rmw_wait: under an active override a ready timer makes the
\* wait non-blocking (deadline now) and any other timer contributes no timeout;
\* otherwise the timeout lasts until next_call_time, and a canceled timer is
\* taken out of the wait set.
rcl_wait ==
    /\ wpc = "run"
    /\ wpc' = "asleep"
    /\ deadline' = IF active
                   THEN IF rcl_timer_is_ready(timer, Now) THEN sys ELSE NoDeadline
                   ELSE IF timer.canceled THEN NoDeadline ELSE WakeUpTime(timer.next)
    /\ inset' = (active \/ ~timer.canceled)
    /\ UNCHANGED <<sys, ros, active, cpc, changes, timer, trig>>

\* rmw_wait returns, because of the guard condition (which it clears) or of the
\* timeout; then rcl_wait keeps the timer in the wait set iff it is ready.  A
\* timeout beyond the horizon of the model expires at the horizon: returning
\* early with nothing ready is harmless, the caller waits again.
rcl_wait_return ==
    /\ wpc = "asleep"
    /\ \/ trig
       \/ deadline # NoDeadline /\ (sys >= deadline \/ sys = MaxSys)
    /\ trig' = FALSE
    /\ wpc' = IF inset /\ rcl_timer_is_ready(timer, Now) THEN "call" ELSE "run"
    /\ deadline' = NoDeadline
    /\ inset' = FALSE
    /\ UNCHANGED <<sys, ros, active, cpc, changes, timer>>

\* The executor calls the timer: a timer canceled meanwhile is left alone.
CallTimer ==
    /\ wpc = "call"
    /\ wpc' = "run"
    /\ timer' = IF timer.canceled THEN timer ELSE rcl_timer_call(timer, Now)
    /\ UNCHANGED <<sys, ros, active, cpc, changes, trig, deadline, inset>>

-----------------------------------------------------------------------------
(* User code. *)

UserCancel ==
    /\ timer' = rcl_timer_cancel(timer)
    /\ UNCHANGED <<sys, ros, active, cpc, changes, trig, wpc, deadline, inset>>

\* Mutant: a reset that does not wake the wait set.
UserReset_no_trigger ==
    /\ timer' = rcl_timer_reset(timer, Now)
    /\ UNCHANGED <<sys, ros, active, cpc, changes, trig, wpc, deadline, inset>>

UserReset ==
    /\ timer' = rcl_timer_reset(timer, Now)
    /\ trig' = TRUE
    /\ UNCHANGED <<sys, ros, active, cpc, changes, wpc, deadline, inset>>

UserExchangePeriod(p) ==
    /\ timer' = rcl_timer_exchange_period(timer, p)
    /\ UNCHANGED <<sys, ros, active, cpc, changes, trig, wpc, deadline, inset>>

-----------------------------------------------------------------------------
Next ==
    \/ Tick
    \/ \E v \in 0..MaxRos : rcl_set_ros_time_override(v)
    \/ ClockChangeBefore
    \/ ClockChangeFlip
    \/ JumpAfter
    \/ rcl_wait
    \/ rcl_wait_return
    \/ CallTimer
    \/ UserCancel
    \/ UserReset
    \/ \E p \in Periods : UserExchangePeriod(p)

Spec == Init /\ [][Next]_vars

\* System time passes, the time source finishes what it began, and an executor
\* that spins keeps waiting, waking and calling.  User code and the time source
\* promise nothing.
Fairness ==
    /\ WF_vars(Tick)
    /\ WF_vars(ClockChangeFlip)
    /\ WF_vars(JumpAfter)
    /\ WF_vars(rcl_wait)
    /\ WF_vars(rcl_wait_return)
    /\ WF_vars(CallTimer)

FairSpec == Spec /\ Fairness

-----------------------------------------------------------------------------
(* Properties *)

\* Calling a timer schedules the first slot of its grid that lies after now:
\* slots are next_call_time plus multiples of the period, so that a late call
\* neither drifts, nor fires again at once for the slots it missed, nor skips a
\* slot it could still serve (rcl_timer_call_with_info: "rounding up").
CallSchedulesNextSlot ==
    [][ (wpc = "call" /\ wpc' = "run" /\ ~timer.canceled /\ timer.period > 0)
        => /\ timer'.next > Now
           /\ (timer'.next - timer.next) % timer.period = 0
           /\ \/ timer'.next = timer.next + timer.period
              \/ timer'.next - timer.period =< Now ]_vars

\* What wait.c says of a timer under an active override, which contributes no
\* timeout: "In case this timer becomes ready, the guard_condition above will
\* wake us".
GuardConditionWakesUs ==
    (wpc = "asleep" /\ deadline = NoDeadline /\ ~trig /\ cpc = "idle")
        => ~rcl_timer_is_ready(timer, Now)

\* No lost wake-up: an executor thread that sleeps without a timeout and with
\* no trigger pending never has a ready timer.  rcl_wait gives an overridden
\* timer no timeout, so every step that makes the timer ready (a reset, a
\* forward jump) must trigger the guard condition.  Holds for any jumps of ROS
\* time, as long as the override itself is neither enabled nor disabled and no
\* period is zero.
NoLostWakeup == (changes = 0 /\ 0 \notin Periods) => GuardConditionWakesUs

\* A timer that is ready is served: the executor gets to call it, unless the
\* timer stops being ready first (it is canceled, reset, or time jumps back)
\* or the override is switched.
ReadyTimerIsServed ==
    (changes = 0 /\ rcl_timer_is_ready(timer, Now))
        ~> (wpc = "call" \/ ~rcl_timer_is_ready(timer, Now) \/ changes > 0)

\* What the comment in _rcl_timer_time_jump promises of a change of the time
\* source: "the timer only waits the remainder in the new epoch".  The credit
\* holds the remainder as it was before the change.
OnlyRemainderIsWaited ==
    [][ (cpc = "changed" /\ cpc' = "idle" /\ Now # 0 /\ timer.credit > 0)
        => timer'.next - Now = timer.credit ]_vars
=============================================================================
