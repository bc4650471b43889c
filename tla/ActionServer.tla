---------------------------- MODULE ActionServer ----------------------------
(***************************************************************************)
(* The server side of a ROS 2 action: rcl_action's action_server.c and     *)
(* rclcpp_action's ServerBase, Server<ActionT> and ServerGoalHandle.       *)
(*                                                                         *)
(* Actors.  Executor threads run the four handlers of ServerBase::execute  *)
(* (goal, cancel and result requests, the expire timer).  The user code of *)
(* every goal runs in a thread of its own and calls execute(), succeed(),  *)
(* abort(), canceled() on its goal handle, or drops it.  A handler or a    *)
(* handle method is cut into one step per critical section:                *)
(* action_server_reentrant_mutex_ ("A") guards what rcl_action keeps,      *)
(* unordered_map_mutex_ ("M") the three maps of ServerBase,                *)
(* goal_handles_mutex_ ("T") the weak pointers of Server<ActionT>, and     *)
(* rcl_handle_mutex_ ("H") the state of one goal handle.                   *)
(*                                                                         *)
(* A member of Goals is one goal request; UUIDOf gives the goal id the     *)
(* client put in it.  Ids are random, so they differ unless a client       *)
(* repeats one.                                                            *)
(***************************************************************************)
EXTENDS Integers, FiniteSets, Sequences, GoalStateMachine, TimerOps

CONSTANTS
    Threads,      \* executor threads
    Goals,        \* goal requests
    UUIDs,        \* goal ids
    UUIDOf,       \* the id of each goal request
    Requests,     \* result requests
    Cancels,      \* cancel requests
    CancelStamps, \* time stamps cancel requests carry (0: none)
    Responses,    \* how goal requests are answered: a GoalResponse, or "LOST"
    UserOps,      \* what user code does with a goal handle
    Reentrant,    \* TRUE iff the callback group is reentrant
    Timeout,      \* result_timeout
    MaxTime,      \* horizon of the clock (bound)
    None          \* a null pointer, an absent map entry, a missing message

ASSUME ServerAssumption ==
    /\ UUIDOf \in [Goals -> UUIDs]
    /\ CancelStamps \subseteq Nat
    /\ Responses \subseteq {"REJECT", "EXECUTE", "DEFER", "LOST"}
    /\ UserOps \subseteq {"EXECUTE", "SUCCEED", "ABORT", "CANCELED", "DROP"}
    /\ Reentrant \in BOOLEAN
    /\ Timeout \in Nat
    /\ MaxTime \in Nat \ {0}
    /\ None \notin Goals /\ None \notin UUIDs
    /\ None \notin Requests /\ None \notin Cancels
    /\ None \notin [uuid : UUIDs \cup {None}, stamp : CancelStamps]

VARIABLES
    now,              \* rcl_clock_get_now
    goals,            \* rcl: impl->goal_handles, the goals the server tracks
    gstate,           \* rcl: impl->state of each goal handle
    stamp,            \* rcl: goal_info.stamp, when the goal was accepted
    timer,            \* rcl: impl->expire_timer
    goal_results_,    \* ServerBase: status of the stored result per id
    result_requests_, \* ServerBase: pending result requests per id
    goal_handles_,    \* ServerBase: shared pointer to the rcl handle per id
    typed_handles_,   \* Server<ActionT>::goal_handles_, weak pointers
    pc,               \* executor thread: its place in a handler
    tgoal,            \* ... the goal, or goal handle, it works on
    treq,             \* ... the request it has taken
    tcode,            \* ... GoalResponse, or return code of a cancel request
    tlist,            \* ... ids still to be asked to cancel
    tok,              \* ... ids that accepted to cancel (goals_canceling)
    uref,             \* user code holds the shared pointer to its goal handle
    upc,              \* user code: its place in a goal handle method
    result_msg,       \* ... status of the result it is publishing
    thrown,           \* goals whose handler or method ended in an exception
    goalResp,         \* the response to each goal request
    asked,            \* the id each result request asks for
    answer,           \* the result responses sent to each result request
    cancelReq,        \* the content of each cancel request
    cancelResp,       \* the response to each cancel request
    status            \* the last GoalStatusArray published

rclVars == <<goals, gstate, stamp, timer>>
mapVars == <<goal_results_, result_requests_, goal_handles_>>
threadVars == <<pc, tgoal, treq, tcode, tlist, tok>>
userVars == <<uref, upc, result_msg>>
msgVars == <<goalResp, asked, answer, cancelReq, cancelResp, status>>

vars == <<now, rclVars, mapVars, typed_handles_, threadVars, userVars, thrown, msgVars>>

-----------------------------------------------------------------------------
(* State *)

HandlerPCs == {"idle", "g_accept", "g_store", "g_execute", "g_status",
               "g_register", "g_user", "g_destroy", "c_next", "c_callback",
               "c_release", "c_destroy", "r_lookup", "e_expire", "e_erase"}

TerminalPCs == {"t_exists", "t_store", "t_status", "t_notify", "t_erase"}

\* "d_cancel": the last reference to the handle is gone, its destructor begins
UserPCs == {"none", "idle", "x_status", "d_cancel", "terminated"} \cup TerminalPCs

CancelCodes == {"NONE", "REJECTED", "UNKNOWN_GOAL_ID", "GOAL_TERMINATED"}

ExpireTimerType == [period : 0..Timeout, last : Int, next : Int, credit : Int,
                    canceled : BOOLEAN]

TypeOK ==
    /\ now \in 1..MaxTime
    /\ goals \subseteq Goals
    /\ gstate \in [Goals -> GoalStates]
    /\ stamp \in [Goals -> 0..MaxTime]
    /\ timer \in ExpireTimerType
    /\ goal_results_ \in [UUIDs -> TerminalStates \cup {None}]
    /\ result_requests_ \in [UUIDs -> SUBSET Requests]
    /\ goal_handles_ \in [UUIDs -> Goals \cup {None}]
    /\ typed_handles_ \in [UUIDs -> Goals \cup {None}]
    /\ pc \in [Threads -> HandlerPCs]
    /\ tgoal \in [Threads -> Goals \cup {None}]
    /\ treq \in [Threads -> Requests \cup Cancels \cup {None}]
    /\ tcode \in [Threads -> CancelCodes \cup {"EXECUTE", "DEFER"}]
    /\ tlist \in [Threads -> SUBSET UUIDs]
    /\ tok \in [Threads -> SUBSET UUIDs]
    /\ uref \in [Goals -> BOOLEAN]
    /\ upc \in [Goals -> UserPCs]
    /\ result_msg \in [Goals -> TerminalStates \cup {None}]
    /\ thrown \subseteq Goals
    /\ goalResp \in [Goals -> {"none", "accepted", "rejected", "lost"}]
    /\ asked \in [Requests -> UUIDs \cup {None}]
    /\ answer \in [Requests -> Seq(TerminalStates \cup {"UNKNOWN"})]
    /\ cancelReq \in [Cancels -> [uuid : UUIDs \cup {None}, stamp : CancelStamps]
                                 \cup {None}]
    /\ cancelResp \in [Cancels -> [code : CancelCodes, goals : SUBSET UUIDs] \cup {None}]
    /\ status \in [Goals -> GoalStates]

\* rcl_action_server_init creates the expire timer with the result timeout as
\* its period and cancels it.
Init ==
    /\ now = 1
    /\ goals = {}
    /\ gstate = [g \in Goals |-> "UNKNOWN"]
    /\ stamp = [g \in Goals |-> 0]
    /\ timer = rcl_timer_cancel(rcl_timer_init(1, Timeout))
    /\ goal_results_ = [u \in UUIDs |-> None]
    /\ result_requests_ = [u \in UUIDs |-> {}]
    /\ goal_handles_ = [u \in UUIDs |-> None]
    /\ typed_handles_ = [u \in UUIDs |-> None]
    /\ pc = [t \in Threads |-> "idle"]
    /\ tgoal = [t \in Threads |-> None]
    /\ treq = [t \in Threads |-> None]
    /\ tcode = [t \in Threads |-> "NONE"]
    /\ tlist = [t \in Threads |-> {}]
    /\ tok = [t \in Threads |-> {}]
    /\ uref = [g \in Goals |-> FALSE]
    /\ upc = [g \in Goals |-> "none"]
    /\ result_msg = [g \in Goals |-> None]
    /\ thrown = {}
    /\ goalResp = [g \in Goals |-> "none"]
    /\ asked = [r \in Requests |-> None]
    /\ answer = [r \in Requests |-> <<>>]
    /\ cancelReq = [c \in Cancels |-> None]
    /\ cancelResp = [c \in Cancels |-> None]
    /\ status = [g \in Goals |-> "UNKNOWN"]

-----------------------------------------------------------------------------
(* rcl_action *)

IsActive(g) == rcl_action_goal_handle_is_active(gstate[g])

IsCancelable(g) == rcl_action_goal_handle_is_cancelable(gstate[g])

rcl_action_server_goal_exists(u) == \E g \in goals : UUIDOf[g] = u

\* _recalculate_expire_timer for the goals gs.  The period p is the smallest
\* time left to a terminal goal, between 0 and the timeout.
TimeLeft(g) == Timeout - (now - stamp[g])

MinimumPeriod(p, gs) ==
    /\ \A g \in gs : p =< TimeLeft(g) \/ p = 0
    /\ p = Timeout \/ \E g \in gs : p >= TimeLeft(g)

\* Mutant: a goal that is overdue already makes the period negative.
recalculate_unclamped(gs) ==
    LET inactive == {g \in gs : ~IsActive(g)}
    IN  \/ /\ inactive = {}
           /\ timer' = rcl_timer_cancel(timer)
        \/ /\ inactive # {}
           /\ \E g \in inactive :
                /\ \A h \in inactive : TimeLeft(g) =< TimeLeft(h)
                /\ timer' = rcl_timer_exchange_period(rcl_timer_reset(timer, now),
                                                     TimeLeft(g))

_recalculate_expire_timer(gs) ==
    LET inactive == {g \in gs : ~IsActive(g)}
    IN  \/ /\ inactive = {}
           /\ timer' = rcl_timer_cancel(timer)
        \/ /\ inactive # {}
           /\ \E p \in 0..Timeout :
                /\ MinimumPeriod(p, inactive)
                /\ timer' = rcl_timer_exchange_period(rcl_timer_reset(timer, now), p)

\* rcl_action_expire_goals: the goals it may expire, measured from their stamp
ExpiredGoals == {g \in goals : ~IsActive(g) /\ now - stamp[g] > Timeout}

\* rcl_action_process_cancel_request: the goals it selects and the return code.
\* An id without a stamp (0) names one goal; otherwise every cancelable goal
\* accepted up to the stamp, or with that id, is selected (no id, no stamp: all).
OneGoal(u, s) == u # None /\ s = 0

GoalsToCancel(u, s) ==
    {g \in goals :
        /\ IsCancelable(g)
        /\ IF OneGoal(u, s) THEN UUIDOf[g] = u
           ELSE UUIDOf[g] = u \/ stamp[g] =< s \/ (u = None /\ s = 0)}

CancelCode(u, s) ==
    IF ~OneGoal(u, s) \/ GoalsToCancel(u, s) # {} THEN "NONE"
    ELSE IF rcl_action_server_goal_exists(u) THEN "GOAL_TERMINATED"
    ELSE "UNKNOWN_GOAL_ID"

\* ServerBase::publish_status: a snapshot of every tracked goal, taken and
\* published under A.
publish_status ==
    status' = [g \in Goals |-> IF g \in goals THEN gstate[g] ELSE "UNKNOWN"]

-----------------------------------------------------------------------------
(* Executor threads *)

\* Mutant: the callback group is ignored.
CanTake_any_thread(t) == pc[t] = "idle"

\* An executor takes an event of the server: any thread in a reentrant callback
\* group, but one handler at a time in a mutually exclusive one.
CanTake(t) ==
    /\ pc[t] = "idle"
    /\ Reentrant \/ \A s \in Threads : pc[s] = "idle"

Goto(t, label) == pc' = [pc EXCEPT ![t] = label]

-----------------------------------------------------------------------------
(* Goal requests: ServerBase::execute_goal_request_received *)

\* The request is taken, the user's handle_goal_ decides, and the response is
\* sent.  A rejection, or a response that times out, ends the handler.
GoalRequestReceived(t, g) ==
    /\ CanTake(t)
    /\ goalResp[g] = "none"
    /\ \/ /\ "REJECT" \in Responses
          /\ goalResp' = [goalResp EXCEPT ![g] = "rejected"]
          /\ UNCHANGED threadVars
       \/ /\ "LOST" \in Responses
          /\ goalResp' = [goalResp EXCEPT ![g] = "lost"]
          /\ UNCHANGED threadVars
       \/ \E response \in Responses \cap {"EXECUTE", "DEFER"} :
          /\ goalResp' = [goalResp EXCEPT ![g] = "accepted"]
          /\ Goto(t, "g_accept")
          /\ tgoal' = [tgoal EXCEPT ![t] = g]
          /\ tcode' = [tcode EXCEPT ![t] = response]
          /\ UNCHANGED <<treq, tlist, tok>>
    /\ UNCHANGED <<now, rclVars, mapVars, typed_handles_, userVars, thrown,
                   asked, answer, cancelReq, cancelResp, status>>

\* The end of a handler: its locals are gone.
GoalHandlerDone(t) ==
    /\ Goto(t, "idle")
    /\ tgoal' = [tgoal EXCEPT ![t] = None]
    /\ tcode' = [tcode EXCEPT ![t] = "NONE"]
    /\ UNCHANGED <<treq, tlist, tok>>

\* rcl_action_accept_new_goal (A).  A goal id that is already tracked is
\* refused: the handler throws, although the client was told "accepted".
GoalAccept(t) ==
    LET g == tgoal[t]
    IN  /\ pc[t] = "g_accept"
        /\ \/ /\ rcl_action_server_goal_exists(UUIDOf[g])
              /\ thrown' = thrown \cup {g}
              /\ GoalHandlerDone(t)
              /\ UNCHANGED rclVars
           \/ /\ ~rcl_action_server_goal_exists(UUIDOf[g])
              /\ goals' = goals \cup {g}
              /\ gstate' = [gstate EXCEPT ![g] = "ACCEPTED"]
              /\ stamp' = [stamp EXCEPT ![g] = now]
              /\ Goto(t, "g_store")
              /\ UNCHANGED <<timer, tgoal, treq, tcode, tlist, tok, thrown>>
        /\ UNCHANGED <<now, mapVars, typed_handles_, userVars, msgVars>>

\* Mutant: the handle is not kept.
GoalStore_not_kept(t) ==
    /\ pc[t] = "g_store"
    /\ Goto(t, IF tcode[t] = "EXECUTE" THEN "g_execute" ELSE "g_status")
    /\ UNCHANGED <<now, rclVars, mapVars, typed_handles_, tgoal, treq, tcode, tlist,
                   tok, userVars, thrown, msgVars>>

\* goal_handles_[uuid] = handle (M)
GoalStore(t) ==
    LET g == tgoal[t]
    IN  /\ pc[t] = "g_store"
        /\ goal_handles_' = [goal_handles_ EXCEPT ![UUIDOf[g]] = g]
        /\ Goto(t, IF tcode[t] = "EXECUTE" THEN "g_execute" ELSE "g_status")
        /\ UNCHANGED <<now, rclVars, goal_results_, result_requests_, typed_handles_,
                       tgoal, treq, tcode, tlist, tok, userVars, thrown, msgVars>>

\* GOAL_EVENT_EXECUTE without a lock: nobody else has the handle yet.  Were the
\* transition invalid the handler would throw.
GoalExecute(t) ==
    LET g == tgoal[t]
        ok == rcl_action_update_goal_state_ok(gstate[g], "EXECUTE")
    IN  /\ pc[t] = "g_execute"
        /\ IF ok
           THEN /\ gstate' = [gstate EXCEPT ![g] =
                                rcl_action_transition_goal_state(@, "EXECUTE")]
                /\ Goto(t, "g_status")
                /\ UNCHANGED <<tgoal, treq, tcode, tlist, tok, thrown>>
           ELSE /\ GoalHandlerDone(t)
                /\ thrown' = thrown \cup {g}
                /\ UNCHANGED gstate
        /\ UNCHANGED <<now, goals, stamp, timer, mapVars, typed_handles_, userVars,
                       msgVars>>

\* publish_status (A)
GoalPublishStatus(t) ==
    /\ pc[t] = "g_status"
    /\ publish_status
    /\ Goto(t, "g_register")
    /\ UNCHANGED <<now, rclVars, mapVars, typed_handles_, tgoal, treq, tcode, tlist,
                   tok, userVars, thrown, goalResp, asked, answer, cancelReq,
                   cancelResp>>

\* call_goal_accepted_callback: the typed handle is registered (T) and passed
\* to handle_accepted_, where user code keeps a reference to it.
GoalRegister(t) ==
    LET g == tgoal[t]
    IN  /\ pc[t] = "g_register"
        /\ typed_handles_' = [typed_handles_ EXCEPT ![UUIDOf[g]] = g]
        /\ uref' = [uref EXCEPT ![g] = TRUE]
        /\ upc' = [upc EXCEPT ![g] = "idle"]
        /\ Goto(t, "g_user")
        /\ UNCHANGED <<now, rclVars, mapVars, tgoal, treq, tcode, tlist, tok,
                       result_msg, thrown, msgVars>>

-----------------------------------------------------------------------------
(* The lifetime of the typed goal handle *)

\* Threads that hold a shared pointer to the typed handle of g
Holders(g) ==
    {t \in Threads : tgoal[t] = g /\ pc[t] \in {"g_user", "c_callback", "c_release"}}

\* weak_ptr::lock on an entry h of the typed map yields the handle
Lockable(h) == h # None /\ (uref[h] \/ Holders(h) # {})

\* ServerGoalHandleBase::try_canceling (H): whether it succeeds
Canceling(g) ==
    IF IsCancelable(g)
    THEN rcl_action_transition_goal_state(gstate[g], "CANCEL_GOAL")
    ELSE gstate[g]

try_canceling(g) ==
    /\ Canceling(g) = "CANCELING"
    /\ rcl_action_update_goal_state_ok(Canceling(g), "CANCELED")

\* ServerGoalHandle::~ServerGoalHandle, whoever dropped the last reference.  The
\* weak pointers fail from that moment on, the goal is canceled only here (H); on
\* success the terminal steps run before the destructor returns.
DestroyHandle(g) ==
    /\ upc[g] = "d_cancel"
    /\ \/ /\ try_canceling(g)
          /\ gstate' = [gstate EXCEPT ![g] =
                          rcl_action_transition_goal_state(Canceling(g), "CANCELED")]
          /\ result_msg' = [result_msg EXCEPT ![g] = "CANCELED"]
          /\ upc' = [upc EXCEPT ![g] = "t_exists"]
       \/ /\ ~try_canceling(g)
          /\ upc' = [upc EXCEPT ![g] = "idle"]
          /\ UNCHANGED <<gstate, result_msg>>
    /\ UNCHANGED <<now, goals, stamp, timer, mapVars, typed_handles_, threadVars, uref,
                   thrown, msgVars>>

\* Thread t holds the last reference to g.
HoldsLast(t, g) == ~uref[g] /\ Holders(g) = {t}

\* handle_accepted_ returns.  Until then user code may have run the goal in
\* this thread, or have handed it to another one.
AcceptedReturn(t) ==
    LET g == tgoal[t]
    IN  /\ pc[t] = "g_user"
        /\ \/ /\ HoldsLast(t, g)
              /\ upc' = [upc EXCEPT ![g] = "d_cancel"]
              /\ Goto(t, "g_destroy")
              /\ UNCHANGED <<tgoal, treq, tcode, tlist, tok>>
           \/ /\ ~HoldsLast(t, g)
              /\ GoalHandlerDone(t)
              /\ UNCHANGED upc
        /\ UNCHANGED <<now, rclVars, mapVars, typed_handles_, uref, result_msg, thrown,
                       msgVars>>

\* The destructor this handler ran has returned.
AcceptedDestroyed(t) ==
    /\ pc[t] = "g_destroy"
    /\ upc[tgoal[t]] = "idle"
    /\ GoalHandlerDone(t)
    /\ UNCHANGED <<now, rclVars, mapVars, typed_handles_, userVars, thrown, msgVars>>

-----------------------------------------------------------------------------
(* Cancel requests: ServerBase::execute_cancel_request_received *)

\* The request is taken and rcl_action_process_cancel_request runs (A).  tcode
\* is the return code should no selected goal accept to cancel.
CancelRequestReceived(t, c, u, s) ==
    /\ CanTake(t)
    /\ cancelReq[c] = None
    /\ cancelReq' = [cancelReq EXCEPT ![c] = [uuid |-> u, stamp |-> s]]
    /\ treq' = [treq EXCEPT ![t] = c]
    /\ tlist' = [tlist EXCEPT ![t] = {UUIDOf[g] : g \in GoalsToCancel(u, s)}]
    /\ tcode' = [tcode EXCEPT ![t] =
                   IF GoalsToCancel(u, s) # {} THEN "REJECTED" ELSE CancelCode(u, s)]
    /\ Goto(t, "c_next")
    /\ UNCHANGED <<now, rclVars, mapVars, typed_handles_, tgoal, tok, userVars, thrown,
                   goalResp, asked, answer, cancelResp, status>>

\* call_handle_cancel_callback: look for the typed handle (T).  Without one the
\* goal counts as rejecting, and the user is not asked.
CancelLookup(t, u) ==
    LET h == typed_handles_[u]
    IN  /\ pc[t] = "c_next"
        /\ u \in tlist[t]
        /\ tlist' = [tlist EXCEPT ![t] = @ \ {u}]
        /\ \/ /\ Lockable(h)
              /\ tgoal' = [tgoal EXCEPT ![t] = h]
              /\ Goto(t, "c_callback")
           \/ /\ ~Lockable(h)
              /\ UNCHANGED <<tgoal, pc>>
        /\ UNCHANGED <<now, rclVars, mapVars, typed_handles_, treq, tcode, tok,
                       userVars, thrown, msgVars>>

\* The user's handle_cancel_ decides; even if it accepts, _cancel_goal (H) may
\* fail, because the goal has moved on since it was selected.
CancelCallback(t) ==
    LET g == tgoal[t]
    IN  /\ pc[t] = "c_callback"
        /\ \/ /\ rcl_action_update_goal_state_ok(gstate[g], "CANCEL_GOAL")
              /\ gstate' = [gstate EXCEPT ![g] =
                              rcl_action_transition_goal_state(@, "CANCEL_GOAL")]
              /\ tok' = [tok EXCEPT ![t] = @ \cup {UUIDOf[g]}]
           \/ UNCHANGED <<gstate, tok>>
        /\ Goto(t, "c_release")
        /\ UNCHANGED <<now, goals, stamp, timer, mapVars, typed_handles_, tgoal, treq,
                       tcode, tlist, userVars, thrown, msgVars>>

\* The handler's reference to the goal handle goes out of scope.
CancelRelease(t) ==
    LET g == tgoal[t]
    IN  /\ pc[t] = "c_release"
        /\ \/ /\ HoldsLast(t, g)
              /\ upc' = [upc EXCEPT ![g] = "d_cancel"]
              /\ Goto(t, "c_destroy")
              /\ UNCHANGED tgoal
           \/ /\ ~HoldsLast(t, g)
              /\ Goto(t, "c_next")
              /\ tgoal' = [tgoal EXCEPT ![t] = None]
              /\ UNCHANGED upc
        /\ UNCHANGED <<now, rclVars, mapVars, typed_handles_, treq, tcode, tlist, tok,
                       uref, result_msg, thrown, msgVars>>

CancelDestroyed(t) ==
    /\ pc[t] = "c_destroy"
    /\ upc[tgoal[t]] = "idle"
    /\ Goto(t, "c_next")
    /\ tgoal' = [tgoal EXCEPT ![t] = None]
    /\ UNCHANGED <<now, rclVars, mapVars, typed_handles_, treq, tcode, tlist, tok,
                   userVars, thrown, msgVars>>

\* Mutant: no status is published for the goals that are now canceling.
CancelRespond_no_status(t) ==
    /\ pc[t] = "c_next"
    /\ tlist[t] = {}
    /\ cancelResp' = [cancelResp EXCEPT ![treq[t]] =
                        [code |-> IF tok[t] # {} THEN "NONE" ELSE tcode[t],
                         goals |-> tok[t]]]
    /\ Goto(t, "idle")
    /\ treq' = [treq EXCEPT ![t] = None]
    /\ tcode' = [tcode EXCEPT ![t] = "NONE"]
    /\ tok' = [tok EXCEPT ![t] = {}]
    /\ UNCHANGED <<now, rclVars, mapVars, typed_handles_, tgoal, tlist, userVars, thrown,
                   goalResp, asked, answer, cancelReq, status>>

\* All selected goals were asked: publish_status if any is canceling (A), then
\* send the response (A); that it may time out changes nothing here.
CancelRespond(t) ==
    /\ pc[t] = "c_next"
    /\ tlist[t] = {}
    /\ IF tok[t] # {} THEN publish_status ELSE UNCHANGED status
    /\ cancelResp' = [cancelResp EXCEPT ![treq[t]] =
                        [code |-> IF tok[t] # {} THEN "NONE" ELSE tcode[t],
                         goals |-> tok[t]]]
    /\ Goto(t, "idle")
    /\ treq' = [treq EXCEPT ![t] = None]
    /\ tcode' = [tcode EXCEPT ![t] = "NONE"]
    /\ tok' = [tok EXCEPT ![t] = {}]
    /\ UNCHANGED <<now, rclVars, mapVars, typed_handles_, tgoal, tlist, userVars, thrown,
                   goalResp, asked, answer, cancelReq>>

-----------------------------------------------------------------------------
(* Result requests: ServerBase::execute_result_request_received *)

\* The request is taken and the goal looked up (A); an unknown goal is answered
\* at once.
ResultRequestReceived(t, r, u) ==
    /\ CanTake(t)
    /\ asked[r] = None
    /\ asked' = [asked EXCEPT ![r] = u]
    /\ \/ /\ ~rcl_action_server_goal_exists(u)
          /\ answer' = [answer EXCEPT ![r] = Append(@, "UNKNOWN")]
          /\ UNCHANGED <<pc, treq>>
       \/ /\ rcl_action_server_goal_exists(u)
          /\ Goto(t, "r_lookup")
          /\ treq' = [treq EXCEPT ![t] = r]
          /\ UNCHANGED answer
    /\ UNCHANGED <<now, rclVars, mapVars, typed_handles_, tgoal, tcode, tlist, tok,
                   userVars, thrown, goalResp, cancelReq, cancelResp, status>>

\* Mutant: the request is kept without looking for a result first.
ResultLookup_keeps_only(t) ==
    LET r == treq[t]
    IN  /\ pc[t] = "r_lookup"
        /\ result_requests_' = [result_requests_ EXCEPT ![asked[r]] = @ \cup {r}]
        /\ Goto(t, "idle")
        /\ treq' = [treq EXCEPT ![t] = None]
        /\ UNCHANGED <<now, rclVars, goal_results_, goal_handles_, typed_handles_, tgoal,
                       tcode, tlist, tok, userVars, thrown, msgVars>>

\* The result is sent if there is one, or the request kept for publish_result;
\* looking and keeping happen in one critical section (M).
ResultLookup(t) ==
    LET r == treq[t]
        u == asked[r]
    IN  /\ pc[t] = "r_lookup"
        /\ \/ /\ goal_results_[u] # None
              /\ answer' = [answer EXCEPT ![r] = Append(@, goal_results_[u])]
              /\ UNCHANGED result_requests_
           \/ /\ goal_results_[u] = None
              /\ result_requests_' = [result_requests_ EXCEPT ![u] = @ \cup {r}]
              /\ UNCHANGED answer
        /\ Goto(t, "idle")
        /\ treq' = [treq EXCEPT ![t] = None]
        /\ UNCHANGED <<now, rclVars, goal_results_, goal_handles_, typed_handles_, tgoal,
                       tcode, tlist, tok, userVars, thrown, goalResp, asked, cancelReq,
                       cancelResp, status>>

-----------------------------------------------------------------------------
(* Expired goals: ServerBase::execute_check_expired_goals *)

\* The expire timer woke the executor.
ExpireTimerReady(t) ==
    /\ CanTake(t)
    /\ rcl_timer_is_ready(timer, now)
    /\ Goto(t, "e_expire")
    /\ UNCHANGED <<now, rclVars, mapVars, typed_handles_, tgoal, treq, tcode, tlist, tok,
                   userVars, thrown, msgVars>>

\* One turn of the loop: rcl_action_expire_goals with room for one goal (A),
\* which also recalculates the timer.
ExpireGoals(t) ==
    /\ pc[t] = "e_expire"
    /\ \/ /\ ExpiredGoals = {}
          /\ Goto(t, "idle")
          /\ UNCHANGED <<goals, tgoal>>
       \/ \E g \in ExpiredGoals :
            /\ goals' = goals \ {g}
            /\ tgoal' = [tgoal EXCEPT ![t] = g]
            /\ Goto(t, "e_erase")
    /\ _recalculate_expire_timer(goals')
    /\ UNCHANGED <<now, gstate, stamp, mapVars, typed_handles_, treq, tcode, tlist, tok,
                   userVars, thrown, msgVars>>

\* ... and, in a critical section of its own (M), the id is erased everywhere.
ExpireErase(t) ==
    LET u == UUIDOf[tgoal[t]]
    IN  /\ pc[t] = "e_erase"
        /\ goal_results_' = [goal_results_ EXCEPT ![u] = None]
        /\ result_requests_' = [result_requests_ EXCEPT ![u] = {}]
        /\ goal_handles_' = [goal_handles_ EXCEPT ![u] = None]
        /\ Goto(t, "e_expire")
        /\ tgoal' = [tgoal EXCEPT ![t] = None]
        /\ UNCHANGED <<now, rclVars, typed_handles_, treq, tcode, tlist, tok, userVars,
                       thrown, msgVars>>

-----------------------------------------------------------------------------
(* User code of goal g: the methods of ServerGoalHandle *)

\* execute() on a deferred goal (H), then on_executing_ publishes (A).
UserExecute(g) ==
    /\ "EXECUTE" \in UserOps
    /\ uref[g] /\ upc[g] = "idle"
    /\ rcl_action_update_goal_state_ok(gstate[g], "EXECUTE")
    /\ gstate' = [gstate EXCEPT ![g] = rcl_action_transition_goal_state(@, "EXECUTE")]
    /\ upc' = [upc EXCEPT ![g] = "x_status"]
    /\ UNCHANGED <<now, goals, stamp, timer, mapVars, typed_handles_, threadVars, uref,
                   result_msg, thrown, msgVars>>

UserExecuteStatus(g) ==
    /\ upc[g] = "x_status"
    /\ publish_status
    /\ upc' = [upc EXCEPT ![g] = "idle"]
    /\ UNCHANGED <<now, rclVars, mapVars, typed_handles_, threadVars, uref, result_msg,
                   thrown, goalResp, asked, answer, cancelReq, cancelResp>>

\* Mutant: abort() reports the status of succeed().
FinishStatus_copied(event) == IF event = "CANCELED" THEN "CANCELED" ELSE "SUCCEEDED"

\* succeed(), abort(), canceled(): the transition (H) and the status put in the
\* result message.  In any other state the method throws and changes nothing.
FinishStatus(event) ==
    CASE event = "SUCCEED"  -> "SUCCEEDED"
      [] event = "ABORT"    -> "ABORTED"
      [] event = "CANCELED" -> "CANCELED"

UserFinish(g, event) ==
    /\ uref[g] /\ upc[g] = "idle"
    /\ rcl_action_update_goal_state_ok(gstate[g], event)
    /\ gstate' = [gstate EXCEPT ![g] = rcl_action_transition_goal_state(@, event)]
    /\ result_msg' = [result_msg EXCEPT ![g] = FinishStatus(event)]
    /\ upc' = [upc EXCEPT ![g] = "t_exists"]
    /\ UNCHANGED <<now, goals, stamp, timer, mapVars, typed_handles_, threadVars, uref,
                   thrown, msgVars>>

\* User code lets go of the handle.  Its destructor begins unless an executor
\* thread still holds a reference.
UserDrop(g) ==
    /\ "DROP" \in UserOps
    /\ uref[g] /\ upc[g] = "idle"
    /\ uref' = [uref EXCEPT ![g] = FALSE]
    /\ IF Holders(g) = {} THEN upc' = [upc EXCEPT ![g] = "d_cancel"] ELSE UNCHANGED upc
    /\ UNCHANGED <<now, rclVars, mapVars, typed_handles_, threadVars, result_msg, thrown,
                   msgVars>>

-----------------------------------------------------------------------------
(* on_terminal_state, run by whoever ended the goal *)

\* publish_result, first part: does the goal still exist (A)?  If not, it throws
\* and the remaining steps are skipped.  Thrown out of the destructor of the goal
\* handle (nobody refers to the handle any more) the exception is std::terminate:
\* this thread stops for good, the others run on until the process is gone.
PublishResultExists(g) ==
    /\ upc[g] = "t_exists"
    /\ \/ /\ rcl_action_server_goal_exists(UUIDOf[g])
          /\ upc' = [upc EXCEPT ![g] = "t_store"]
          /\ UNCHANGED thrown
       \/ /\ ~rcl_action_server_goal_exists(UUIDOf[g])
          /\ upc' = [upc EXCEPT ![g] = IF uref[g] THEN "idle" ELSE "terminated"]
          /\ thrown' = thrown \cup {g}
    /\ UNCHANGED <<now, rclVars, mapVars, typed_handles_, threadVars, uref, result_msg,
                   msgVars>>

\* Mutant: the result is stored but nobody who asked for it is told.
PublishResultStore_not_sent(g) ==
    /\ upc[g] = "t_store"
    /\ goal_results_' = [goal_results_ EXCEPT ![UUIDOf[g]] = result_msg[g]]
    /\ upc' = [upc EXCEPT ![g] = "t_status"]
    /\ UNCHANGED <<now, rclVars, result_requests_, goal_handles_, typed_handles_,
                   threadVars, uref, result_msg, thrown, msgVars>>

\* publish_result, second part (M, and A inside it): store the result and send
\* it to everyone who asked.  The requests stay in the map until the goal expires.
PublishResultStore(g) ==
    LET u == UUIDOf[g]
    IN  /\ upc[g] = "t_store"
        /\ goal_results_' = [goal_results_ EXCEPT ![u] = result_msg[g]]
        /\ answer' = [r \in Requests |->
                        IF r \in result_requests_[u]
                        THEN Append(answer[r], result_msg[g]) ELSE answer[r]]
        /\ upc' = [upc EXCEPT ![g] = "t_status"]
        /\ UNCHANGED <<now, rclVars, result_requests_, goal_handles_, typed_handles_,
                       threadVars, uref, result_msg, thrown, goalResp, asked, cancelReq,
                       cancelResp, status>>

\* publish_status (A)
TerminalStatus(g) ==
    /\ upc[g] = "t_status"
    /\ publish_status
    /\ upc' = [upc EXCEPT ![g] = "t_notify"]
    /\ UNCHANGED <<now, rclVars, mapVars, typed_handles_, threadVars, uref, result_msg,
                   thrown, goalResp, asked, answer, cancelReq, cancelResp>>

\* notify_goal_terminal_state: rcl_action_notify_goal_done (A)
NotifyGoalDone(g) ==
    /\ upc[g] = "t_notify"
    /\ _recalculate_expire_timer(goals)
    /\ upc' = [upc EXCEPT ![g] = "t_erase"]
    /\ UNCHANGED <<now, goals, gstate, stamp, mapVars, typed_handles_, threadVars, uref,
                   result_msg, thrown, msgVars>>

\* The weak pointer is erased (T).
TerminalErase(g) ==
    /\ upc[g] = "t_erase"
    /\ typed_handles_' = [typed_handles_ EXCEPT ![UUIDOf[g]] = None]
    /\ upc' = [upc EXCEPT ![g] = "idle"]
    /\ UNCHANGED <<now, rclVars, mapVars, threadVars, uref, result_msg, thrown, msgVars>>

-----------------------------------------------------------------------------
Tick ==
    /\ now < MaxTime
    /\ now' = now + 1
    /\ UNCHANGED <<rclVars, mapVars, typed_handles_, threadVars, userVars, thrown, msgVars>>

ThreadStep(t) ==
    \/ GoalAccept(t) \/ GoalStore(t) \/ GoalExecute(t) \/ GoalPublishStatus(t)
    \/ GoalRegister(t) \/ AcceptedReturn(t) \/ AcceptedDestroyed(t)
    \/ \E u \in UUIDs : CancelLookup(t, u)
    \/ CancelCallback(t) \/ CancelRelease(t) \/ CancelDestroyed(t) \/ CancelRespond(t)
    \/ ResultLookup(t)
    \/ ExpireGoals(t) \/ ExpireErase(t)

TerminalStep(g) ==
    \/ PublishResultExists(g) \/ PublishResultStore(g) \/ TerminalStatus(g)
    \/ NotifyGoalDone(g) \/ TerminalErase(g)

UserStep(g) ==
    \/ UserExecute(g)
    \/ \E event \in UserOps \cap {"SUCCEED", "ABORT", "CANCELED"} : UserFinish(g, event)
    \/ UserDrop(g)
    \/ DestroyHandle(g)

Next ==
    \/ Tick
    \/ \E t \in Threads :
         \/ \E g \in Goals : GoalRequestReceived(t, g)
         \/ \E c \in Cancels, u \in UUIDs \cup {None}, s \in CancelStamps :
              CancelRequestReceived(t, c, u, s)
         \/ \E r \in Requests, u \in UUIDs : ResultRequestReceived(t, r, u)
         \/ ExpireTimerReady(t)
         \/ ThreadStep(t)
    \/ \E g \in Goals : UserStep(g) \/ UserExecuteStatus(g) \/ TerminalStep(g)

Spec == Init /\ [][Next]_vars

\* A spinning executor runs its handlers to the end and serves the expire timer;
\* a goal handle method and destructor runs to its end; and user code, which owns
\* the outcome of a goal, eventually ends or drops every goal it holds.
Fairness ==
    /\ \A t \in Threads : WF_vars(ThreadStep(t)) /\ WF_vars(ExpireTimerReady(t))
    /\ \A g \in Goals : /\ WF_vars(TerminalStep(g))
                        /\ WF_vars(UserExecuteStatus(g))
                        /\ WF_vars(UserStep(g))

FairSpec == Spec /\ Fairness

-----------------------------------------------------------------------------
(* Safety *)

\* A goal with id u has ended in state s.
EndedAs(u, s) == s \in TerminalStates /\ \E g \in Goals : UUIDOf[g] = u /\ gstate[g] = s

\* Whatever interleaving of handlers, user threads and expiry produced it, a
\* result kept by the server and a result sent to a client carry the state in
\* which a goal with that id ended (publish_result, execute_result_request_received).
AnswersAreFinal ==
    /\ \A u \in UUIDs : goal_results_[u] # None => EndedAs(u, goal_results_[u])
    /\ \A r \in Requests : \A i \in 1..Len(answer[r]) :
         answer[r][i] # "UNKNOWN" => EndedAs(asked[r], answer[r][i])

\* No result request falls between publish_result and the handler that keeps
\* requests: once a result is stored, every kept request has been answered.
NoRequestForgotten ==
    \A u \in UUIDs : \A r \in result_requests_[u] :
        goal_results_[u] # None => answer[r] # <<>>

\* Kept requests are not removed when they are answered, yet no request is
\* answered twice.
AnsweredOnce == \A r \in Requests : Len(answer[r]) =< 1

\* A goal is told to cancel by one request only, even if two cancel requests
\* select it at the same time: their goals_canceling are disjoint.
CanceledByOneRequest ==
    \A c, d \in Cancels :
        (c # d /\ cancelResp[c] # None /\ cancelResp[d] # None)
            => cancelResp[c].goals \cap cancelResp[d].goals = {}

\* The handle of goal g that goal_handles_ or a thread on the way to it, or the
\* typed handle (also while it is being destroyed), keeps from being freed.
HandleOwned(g) ==
    \/ goal_handles_[UUIDOf[g]] = g
    \/ uref[g]
    \/ upc[g] \in TerminalPCs \cup {"d_cancel"}
    \/ \E t \in Threads :
         /\ tgoal[t] = g
         /\ pc[t] \in {"g_store", "g_execute", "g_status", "g_register", "g_user",
                       "c_callback", "c_release"}

\* rcl_action only borrows goal handles: "rcl goal handles are kept so api to
\* send result doesn't try to access freed memory" (server.cpp).  A goal that
\* rcl_action still tracks has an owner.
TrackedHandleIsOwned == \A g \in goals : HandleOwned(g)

\* The expire timer is armed, and due within one timeout, whenever a goal whose
\* end was notified is still tracked: no tracked goal waits for ever to expire.
ExpiryArmed ==
    \A g \in goals :
        (~IsActive(g) /\ upc[g] \notin TerminalPCs)
            => ~timer.canceled /\ timer.next =< now + Timeout

\* Some handler or method is on its way to publish_status.
StatusPending ==
    \/ \E t \in Threads :
         \/ pc[t] \in {"g_store", "g_execute", "g_status"}
         \/ tok[t] # {}
    \/ \E g \in Goals : upc[g] \in {"x_status", "t_exists", "t_store", "t_status"}

\* The status topic does not go stale: unless someone is about to publish, the
\* last message shows the current state of every tracked goal, although states
\* change under one mutex and are published under another.
StatusUpToDate ==
    StatusPending \/ \A g \in goals : status[g] = gstate[g]

\* A client that was told its goal is accepted does not get "unknown goal" for
\* its result, unless the goal has expired since (or its id was a duplicate).
AcceptedGoalIsKnown ==
    [][ \A r \in Requests :
          (answer[r] = <<>> /\ answer'[r] = <<"UNKNOWN">>)
            => \A g \in Goals :
                 (UUIDOf[g] = asked'[r] /\ goalResp[g] = "accepted" /\ g \notin thrown)
                     => gstate[g] \in TerminalStates ]_vars

\* A cancelable goal that a cancel request selected is not passed over without
\* asking the user's cancel callback, unless the destructor of its handle is about
\* to cancel it (execute_cancel_request_received, call_handle_cancel_callback).
SelectedGoalIsAsked ==
    [][ \A t \in Threads :
          (pc[t] = "c_next" /\ pc'[t] = "c_next")
            => \A g \in goals :
                 UUIDOf[g] \in tlist[t] \ tlist'[t]
                     => ~IsCancelable(g) \/ upc[g] = "d_cancel" ]_vars

-----------------------------------------------------------------------------
(* Liveness *)

\* The goals with id u have ended and are no longer tracked.
Expired(u) ==
    \E g \in Goals : UUIDOf[g] = u /\ gstate[g] \in TerminalStates /\ g \notin goals

\* Every result request is answered in the end, unless its goal expires first:
\* execute_check_expired_goals drops the requests that are still kept, even of a
\* goal that outlived its timeout and is about to publish its result.
EveryRequestAnswered ==
    \A r \in Requests : asked[r] # None ~> (answer[r] # <<>> \/ Expired(asked[r]))

=============================================================================
