------------------------------ MODULE TimerOps ------------------------------
(***************************************************************************)
(* The operations of rcl/src/rcl/timer.c on one rcl_timer_impl_t, as       *)
(* operators on a record                                                   *)
(*                                                                         *)
(*    [period, last, next, credit, canceled]                               *)
(*                                                                         *)
(* (period, last_call_time, next_call_time, time_credit, canceled of the   *)
(* struct).  `now' is what rcl_clock_get_now returned to the operation.    *)
(* The model of the timer (RclTimer) and the expire timer of the action    *)
(* server (ActionServer) are both built from them.                         *)
(***************************************************************************)
EXTENDS Integers

\* rcl_timer_init2 with autostart = true
rcl_timer_init(now, period) ==
    [period |-> period, last |-> now, next |-> now + period,
     credit |-> 0, canceled |-> FALSE]

rcl_timer_cancel(timer) == [timer EXCEPT !.canceled = TRUE]

\* Mutant: a reset that forgets to un-cancel the timer.
timer_reset_stays_canceled(timer, now) ==
    [timer EXCEPT !.next = now + timer.period]

\* The next call is one period (the period stored now) away.
rcl_timer_reset(timer, now) ==
    [timer EXCEPT !.next = now + timer.period, !.canceled = FALSE]

\* Only the period is exchanged: a call already scheduled keeps its time.
rcl_timer_exchange_period(timer, new_period) ==
    [timer EXCEPT !.period = new_period]

rcl_timer_is_ready(timer, now) == ~timer.canceled /\ timer.next - now =< 0

\* Mutant: the number of missed periods is rounded down instead of up.
next_call_time_rounded_down(next, period, now) ==
    LET n == next + period
    IN  IF n > now THEN n
        ELSE IF period = 0 THEN now
        ELSE n + ((now - n) \div period) * period

\* The next_call_time rcl_timer_call stores: move by exactly one period, then
\* by as many further periods as were missed (rounding up); a zero period is
\* always ready.
next_call_time(next, period, now) ==
    LET n == next + period
    IN  IF n > now THEN n
        ELSE IF period = 0 THEN now
        ELSE n + (1 + (now - n) \div period) * period

\* rcl_timer_call_with_info on a timer that is not canceled
rcl_timer_call(timer, now) ==
    [timer EXCEPT !.last = now,
                  !.next = next_call_time(timer.next, timer.period, now)]

-----------------------------------------------------------------------------
\* _rcl_timer_time_jump with before_jump = true: on a clock change, remember
\* next_call_time - now; no credit is taken from an uninitialised clock.
time_jump_before(timer, clock_change, now) ==
    IF clock_change /\ now # 0
    THEN [timer EXCEPT !.credit = timer.next - now]
    ELSE timer

\* _rcl_timer_time_jump with before_jump = false: the timer afterwards.
time_jump_after(timer, clock_change, now) ==
    IF clock_change
    THEN IF now = 0 \/ timer.credit = 0
         THEN [timer EXCEPT !.credit = IF now = 0 THEN @ ELSE 0]
         ELSE [timer EXCEPT !.credit = 0,
                            !.next = now - timer.credit + timer.period,
                            !.last = now - timer.credit]
    ELSE IF timer.next =< now THEN timer
    ELSE IF now < timer.last
         THEN [timer EXCEPT !.next = now + timer.period, !.last = now]
         ELSE timer

\* Mutant: a forward jump over the next call leaves the wait set asleep.
time_jump_never_triggers(timer, clock_change, now) == FALSE

\* ... and whether it triggers the timer's guard condition.
time_jump_triggers(timer, clock_change, now) ==
    ~clock_change /\ timer.next =< now
=============================================================================
