------------------------- MODULE ActionServerProofs -------------------------
(***************************************************************************)
(* Proofs about ActionServer for any number of threads, goals, requests    *)
(* and cancel requests, any assignment of ids, any timeout and horizon,    *)
(* and both kinds of callback group.                                       *)
(***************************************************************************)
EXTENDS ActionServer, TLAPS

-----------------------------------------------------------------------------
(* The goal state machine *)

LEMMA TransitionType ==
    ASSUME NEW s, NEW e
    PROVE  rcl_action_transition_goal_state(s, e) \in GoalStates
  BY DEF rcl_action_transition_goal_state, GoalStates, ActiveStates, TerminalStates

\* An event that is accepted was accepted in an active state.
LEMMA TransitionFromActive ==
    ASSUME NEW s, NEW e, rcl_action_update_goal_state_ok(s, e)
    PROVE  s \in ActiveStates
  BY DEF rcl_action_update_goal_state_ok, rcl_action_transition_goal_state, ActiveStates

\* The events of succeed(), abort() and canceled() lead to the state their
\* result message carries.
LEMMA FinishTransition ==
    ASSUME NEW s, NEW e \in {"SUCCEED", "ABORT", "CANCELED"},
           rcl_action_update_goal_state_ok(s, e)
    PROVE  /\ rcl_action_transition_goal_state(s, e) = FinishStatus(e)
           /\ FinishStatus(e) \in TerminalStates
  BY DEF rcl_action_update_goal_state_ok, rcl_action_transition_goal_state, FinishStatus,
         TerminalStates

\* The other two events leave a goal active.
LEMMA ActiveTransition ==
    ASSUME NEW s, NEW e \in {"EXECUTE", "CANCEL_GOAL"},
           rcl_action_update_goal_state_ok(s, e)
    PROVE  rcl_action_transition_goal_state(s, e) \in ActiveStates
  BY DEF rcl_action_update_goal_state_ok, rcl_action_transition_goal_state, ActiveStates

\* A goal the destructor cancels was active, and ends CANCELED.
LEMMA CancelingFacts ==
    ASSUME NEW g \in Goals, try_canceling(g)
    PROVE  /\ gstate[g] \in ActiveStates
           /\ rcl_action_transition_goal_state(Canceling(g), "CANCELED") = "CANCELED"
  BY DEF try_canceling, Canceling, IsCancelable, rcl_action_goal_handle_is_cancelable,
         rcl_action_update_goal_state_ok, rcl_action_transition_goal_state, ActiveStates

LEMMA StatesDisjoint ==
    /\ ActiveStates \cap TerminalStates = {}
    /\ "UNKNOWN" \notin ActiveStates \cup TerminalStates
    /\ ActiveStates \subseteq GoalStates /\ TerminalStates \subseteq GoalStates
    /\ "UNKNOWN" \in GoalStates
  BY DEF ActiveStates, TerminalStates, GoalStates

-----------------------------------------------------------------------------
(* The inductive invariant *)

\* What the program counter of an executor thread says of its locals.
GoalPCs == {"g_accept", "g_store", "g_execute", "g_status", "g_register", "g_user",
            "g_destroy", "c_callback", "c_release", "c_destroy", "e_erase"}

CancelPCs == {"c_next", "c_callback", "c_release", "c_destroy"}

LocalsOK ==
    \A t \in Threads :
        /\ pc[t] \in GoalPCs => tgoal[t] \in Goals
        /\ pc[t] \in CancelPCs => treq[t] \in Cancels /\ tcode[t] \in CancelCodes
        /\ pc[t] = "r_lookup" => treq[t] \in Requests /\ asked[treq[t]] \in UUIDs

\* A goal on its way to rcl_action_accept_new_goal is in one handler only and
\* has no state yet.
FreshOK ==
    /\ \A g \in Goals : goalResp[g] = "none" => gstate[g] = "UNKNOWN"
    /\ \A t \in Threads : pc[t] = "g_accept" =>
         gstate[tgoal[t]] = "UNKNOWN" /\ goalResp[tgoal[t]] = "accepted"
    /\ \A s, t \in Threads :
         (s # t /\ pc[s] = "g_accept" /\ pc[t] = "g_accept") => tgoal[s] # tgoal[t]

\* A result on its way to publish_result carries the terminal state of its goal.
ResultOK ==
    \A g \in Goals : upc[g] \in {"t_exists", "t_store"} =>
        gstate[g] \in TerminalStates /\ result_msg[g] = gstate[g]

CoreInv == TypeOK /\ LocalsOK /\ FreshOK /\ ResultOK

LEMMA RecalculateType ==
    ASSUME TypeOK, NEW gs, _recalculate_expire_timer(gs)
    PROVE  timer' \in ExpireTimerType
<1>1. timer \in ExpireTimerType /\ now \in Int /\ Timeout \in Nat
  BY ServerAssumption DEF TypeOK
<1>2. now + timer.period \in Int
  BY <1>1 DEF ExpireTimerType
<1>3. \A n \in Int, p \in 0..Timeout :
        [[timer EXCEPT !.next = n, !.canceled = FALSE] EXCEPT !.period = p] \in ExpireTimerType
  BY <1>1 DEF ExpireTimerType
<1>4. rcl_timer_cancel(timer) \in ExpireTimerType
  BY <1>1 DEF rcl_timer_cancel, ExpireTimerType
<1>5. \A p \in 0..Timeout :
        rcl_timer_exchange_period(rcl_timer_reset(timer, now), p) \in ExpireTimerType
  BY <1>2, <1>3 DEF rcl_timer_exchange_period, rcl_timer_reset
<1> QED
  BY <1>4, <1>5 DEF _recalculate_expire_timer

LEMMA PublishStatusType ==
    ASSUME TypeOK, publish_status
    PROVE  status' \in [Goals -> GoalStates]
  BY StatesDisjoint DEF TypeOK, publish_status

LEMMA AppendType ==
    ASSUME TypeOK, NEW r \in Requests, NEW v \in TerminalStates \cup {"UNKNOWN"},
           answer' = [answer EXCEPT ![r] = Append(answer[r], v)]
    PROVE  answer' \in [Requests -> Seq(TerminalStates \cup {"UNKNOWN"})]
<1> DEFINE S == TerminalStates \cup {"UNKNOWN"}
<1>1. answer \in [Requests -> Seq(S)]
  BY DEF TypeOK
<1>2. v \in S
  OBVIOUS
<1> HIDE DEF S
<1>3. Append(answer[r], v) \in Seq(S)
  BY <1>1, <1>2
<1>4. answer' \in [Requests -> Seq(S)]
  BY <1>1, <1>3
<1> QED
  BY <1>4 DEF S

\* A destructor either cancels the goal, which was active, or leaves it alone.
LEMMA DestroyCases ==
    ASSUME NEW g \in Goals, DestroyHandle(g)
    PROVE  \/ /\ gstate[g] \in ActiveStates
              /\ gstate' = [gstate EXCEPT ![g] = "CANCELED"]
              /\ result_msg' = [result_msg EXCEPT ![g] = "CANCELED"]
              /\ upc' = [upc EXCEPT ![g] = "t_exists"]
           \/ /\ gstate' = gstate /\ result_msg' = result_msg
              /\ upc' = [upc EXCEPT ![g] = "idle"]
  BY CancelingFacts DEF DestroyHandle

LEMMA InitCore == Init => CoreInv
<1> SUFFICES ASSUME Init PROVE CoreInv
  OBVIOUS
<1>1. TypeOK
  <2>1. timer \in ExpireTimerType
    <3>1. Timeout \in Nat
      BY ServerAssumption
    <3>2. timer = [period |-> Timeout, last |-> 1, next |-> 1 + Timeout, credit |-> 0,
                   canceled |-> TRUE]
      BY DEF Init, rcl_timer_cancel, rcl_timer_init
    <3>3. Timeout \in 0..Timeout /\ 1 + Timeout \in Int
      BY <3>1
    <3> QED
      BY <3>2, <3>3 DEF ExpireTimerType
  <2>2. now \in 1..MaxTime /\ stamp \in [Goals -> 0..MaxTime]
    BY ServerAssumption DEF Init
  <2> QED
    BY <2>1, <2>2, StatesDisjoint
       DEF Init, TypeOK, HandlerPCs, UserPCs, CancelCodes
<1>2. LocalsOK /\ FreshOK /\ ResultOK
  BY DEF Init, LocalsOK, FreshOK, ResultOK, GoalPCs, CancelPCs
<1> QED
  BY <1>1, <1>2 DEF CoreInv

\* Steps of the executor threads keep the types.
LEMMA ThreadStepType ==
    ASSUME CoreInv, NEW t \in Threads, ThreadStep(t)
    PROVE  TypeOK'
<1> USE DEF CoreInv, rclVars, mapVars, threadVars, userVars, msgVars, Goto, GoalHandlerDone
<1>a. /\ pc[t] \in GoalPCs => tgoal[t] \in Goals /\ UUIDOf[tgoal[t]] \in UUIDs
      /\ pc[t] \in CancelPCs => treq[t] \in Cancels /\ tcode[t] \in CancelCodes
      /\ pc[t] = "r_lookup" => treq[t] \in Requests /\ asked[treq[t]] \in UUIDs
  BY ServerAssumption DEF LocalsOK
<1>1. CASE GoalAccept(t)
  <2>1. tgoal[t] \in Goals
    BY <1>1, <1>a DEF GoalAccept, GoalPCs
  <2>2. CASE rcl_action_server_goal_exists(UUIDOf[tgoal[t]])
    BY <1>1, <2>1, <2>2, ZenonT(40) DEF GoalAccept, TypeOK, HandlerPCs, CancelCodes
  <2>3. CASE ~rcl_action_server_goal_exists(UUIDOf[tgoal[t]])
    <3>1. now \in 0..MaxTime
      BY ServerAssumption DEF TypeOK
    <3>2. "ACCEPTED" \in GoalStates
      BY DEF GoalStates, ActiveStates
    <3>3. goals' \subseteq Goals /\ pc' \in [Threads -> HandlerPCs]
      BY <1>1, <2>1, <2>3, ZenonT(40) DEF GoalAccept, TypeOK, HandlerPCs
    <3>4. gstate' \in [Goals -> GoalStates]
      BY <1>1, <2>1, <2>3, <3>2, ZenonT(40) DEF GoalAccept, TypeOK
    <3>5. stamp' \in [Goals -> 0..MaxTime]
      BY <1>1, <2>1, <2>3, <3>1, SMTT(30) DEF GoalAccept, TypeOK
    <3> QED
      BY <1>1, <2>3, <3>3, <3>4, <3>5 DEF GoalAccept, TypeOK
  <2> QED
    BY <2>2, <2>3
<1>2. CASE GoalStore(t)
  BY <1>2, <1>a DEF GoalStore, TypeOK, GoalPCs, HandlerPCs
<1>3. CASE GoalExecute(t)
  <2>1. tgoal[t] \in Goals
    BY <1>3, <1>a DEF GoalExecute, GoalPCs
  <2>2. CASE rcl_action_update_goal_state_ok(gstate[tgoal[t]], "EXECUTE")
    <3>1. gstate' = [gstate EXCEPT ![tgoal[t]] =
                       rcl_action_transition_goal_state(gstate[tgoal[t]], "EXECUTE")]
      BY <1>3, <2>2 DEF GoalExecute
    <3>2. gstate' \in [Goals -> GoalStates]
      BY <2>1, <3>1, TransitionType DEF TypeOK
    <3> QED
      BY <1>3, <2>2, <3>2, ZenonT(40) DEF GoalExecute, TypeOK, HandlerPCs
  <2>3. CASE ~rcl_action_update_goal_state_ok(gstate[tgoal[t]], "EXECUTE")
    <3>1. GoalHandlerDone(t) /\ thrown' = thrown \cup {tgoal[t]} /\ gstate' = gstate
      BY <1>3, <2>3 DEF GoalExecute
    <3> QED
      BY <1>3, <2>1, <3>1 DEF GoalExecute, TypeOK, HandlerPCs, CancelCodes
  <2> QED
    BY <2>2, <2>3
<1>4. CASE GoalPublishStatus(t)
  BY <1>4, PublishStatusType DEF GoalPublishStatus, TypeOK, HandlerPCs
<1>5. CASE GoalRegister(t)
  BY <1>5, <1>a DEF GoalRegister, TypeOK, GoalPCs, HandlerPCs, UserPCs
<1>6. CASE AcceptedReturn(t)
  <2>1. tgoal[t] \in Goals
    BY <1>6, <1>a DEF AcceptedReturn, GoalPCs
  <2>2. CASE HoldsLast(t, tgoal[t])
    BY <1>6, <2>1, <2>2 DEF AcceptedReturn, TypeOK, HandlerPCs, UserPCs
  <2>3. CASE ~HoldsLast(t, tgoal[t])
    BY <1>6, <2>3, ZenonT(40) DEF AcceptedReturn, TypeOK, HandlerPCs, CancelCodes
  <2> QED
    BY <2>2, <2>3
<1>7. CASE AcceptedDestroyed(t)
  BY <1>7 DEF AcceptedDestroyed, TypeOK, HandlerPCs, CancelCodes
<1>8. CASE \E u \in UUIDs : CancelLookup(t, u)
  <2>1. PICK u \in UUIDs : CancelLookup(t, u)
    BY <1>8
  <2>2. Lockable(typed_handles_[u]) => typed_handles_[u] \in Goals
    BY DEF Lockable, TypeOK
  <2>3. /\ tlist' \in [Threads -> SUBSET UUIDs]
        /\ tgoal' \in [Threads -> Goals \cup {None}]
        /\ pc' \in [Threads -> HandlerPCs]
    BY <2>1, <2>2, ZenonT(40) DEF CancelLookup, TypeOK, HandlerPCs
  <2> QED
    BY <2>1, <2>3 DEF CancelLookup, TypeOK
<1>9. CASE CancelCallback(t)
  <2>1. tgoal[t] \in Goals /\ UUIDOf[tgoal[t]] \in UUIDs
    BY <1>9, <1>a DEF CancelCallback, GoalPCs
  <2>2. gstate' \in [Goals -> GoalStates]
    <3>1. \/ gstate' = gstate
          \/ gstate' = [gstate EXCEPT ![tgoal[t]] =
                          rcl_action_transition_goal_state(gstate[tgoal[t]], "CANCEL_GOAL")]
      BY <1>9 DEF CancelCallback
    <3>2. gstate \in [Goals -> GoalStates]
      BY DEF TypeOK
    <3> QED
      BY <2>1, <3>1, <3>2, TransitionType
  <2>3. tok' \in [Threads -> SUBSET UUIDs]
    <3>1. \/ tok' = tok
          \/ tok' = [tok EXCEPT ![t] = tok[t] \cup {UUIDOf[tgoal[t]]}]
      BY <1>9 DEF CancelCallback
    <3>2. tok \in [Threads -> SUBSET UUIDs]
      BY DEF TypeOK
    <3> QED
      BY <2>1, <3>1, <3>2
  <2>4. pc' \in [Threads -> HandlerPCs]
    BY <1>9 DEF CancelCallback, TypeOK, HandlerPCs
  <2> QED
    BY <1>9, <2>2, <2>3, <2>4 DEF CancelCallback, TypeOK
<1>10. CASE CancelRelease(t)
  <2>1. tgoal[t] \in Goals
    BY <1>10, <1>a DEF CancelRelease, GoalPCs
  <2>2. CASE HoldsLast(t, tgoal[t])
    BY <1>10, <2>1, <2>2 DEF CancelRelease, TypeOK, HandlerPCs, UserPCs
  <2>3. CASE ~HoldsLast(t, tgoal[t])
    BY <1>10, <2>3, ZenonT(40) DEF CancelRelease, TypeOK, HandlerPCs
  <2> QED
    BY <2>2, <2>3
<1>11. CASE CancelDestroyed(t)
  BY <1>11 DEF CancelDestroyed, TypeOK, HandlerPCs
<1>12. CASE CancelRespond(t)
  BY <1>12, <1>a, PublishStatusType
     DEF CancelRespond, TypeOK, CancelPCs, HandlerPCs, CancelCodes
<1>13. CASE ResultLookup(t)
  <2>1. treq[t] \in Requests /\ asked[treq[t]] \in UUIDs
    BY <1>13, <1>a DEF ResultLookup
  <2>2. answer' \in [Requests -> Seq(TerminalStates \cup {"UNKNOWN"})]
    <3>1. \/ answer' = answer
          \/ /\ goal_results_[asked[treq[t]]] # None
             /\ answer' = [answer EXCEPT ![treq[t]] =
                             Append(answer[treq[t]], goal_results_[asked[treq[t]]])]
      BY <1>13 DEF ResultLookup
    <3>2. /\ answer \in [Requests -> Seq(TerminalStates \cup {"UNKNOWN"})]
          /\ goal_results_ \in [UUIDs -> TerminalStates \cup {None}]
      BY DEF TypeOK
    <3>3. goal_results_[asked[treq[t]]] # None =>
            goal_results_[asked[treq[t]]] \in TerminalStates \cup {"UNKNOWN"}
      BY <2>1, <3>2
    <3> QED
      <4>1. CASE answer' = answer
        BY <3>2, <4>1
      <4>2. CASE answer' # answer
        BY <2>1, <3>1, <3>3, <4>2, AppendType
      <4> QED
        BY <4>1, <4>2
  <2>3. result_requests_' \in [UUIDs -> SUBSET Requests]
    <3>1. \/ result_requests_' = result_requests_
          \/ result_requests_' = [result_requests_ EXCEPT ![asked[treq[t]]] =
                                    result_requests_[asked[treq[t]]] \cup {treq[t]}]
      BY <1>13 DEF ResultLookup
    <3>2. result_requests_ \in [UUIDs -> SUBSET Requests]
      BY DEF TypeOK
    <3> QED
      BY <2>1, <3>1, <3>2
  <2>4. /\ pc' \in [Threads -> HandlerPCs]
        /\ treq' \in [Threads -> Requests \cup Cancels \cup {None}]
    BY <1>13 DEF ResultLookup, TypeOK, HandlerPCs
  <2> QED
    BY <1>13, <2>2, <2>3, <2>4 DEF ResultLookup, TypeOK
<1>14. CASE ExpireGoals(t)
  <2>1. timer' \in ExpireTimerType
    BY <1>14, RecalculateType DEF ExpireGoals
  <2>2. CASE goals' = goals /\ tgoal' = tgoal /\ pc' = [pc EXCEPT ![t] = "idle"]
    BY <1>14, <2>1, <2>2 DEF ExpireGoals, TypeOK, HandlerPCs
  <2>3. ASSUME NEW g \in ExpiredGoals, goals' = goals \ {g},
               tgoal' = [tgoal EXCEPT ![t] = g], pc' = [pc EXCEPT ![t] = "e_erase"]
        PROVE  TypeOK'
    <3>1. g \in Goals
      BY DEF ExpiredGoals, TypeOK
    <3> QED
      BY <1>14, <2>1, <2>3, <3>1 DEF ExpireGoals, TypeOK, HandlerPCs
  <2> QED
    BY <1>14, <2>2, <2>3 DEF ExpireGoals
<1>15. CASE ExpireErase(t)
  BY <1>15, <1>a DEF ExpireErase, TypeOK, GoalPCs, HandlerPCs
<1> QED
  BY <1>1, <1>2, <1>3, <1>4, <1>5, <1>6, <1>7, <1>8, <1>9, <1>10, <1>11, <1>12,
     <1>13, <1>14, <1>15 DEF ThreadStep

\* Steps of user code, and of whoever ends a goal, keep the types.
LEMMA UserStepType ==
    ASSUME CoreInv, NEW g \in Goals, UserStep(g) \/ UserExecuteStatus(g) \/ TerminalStep(g)
    PROVE  TypeOK'
<1> USE DEF CoreInv, rclVars, mapVars, threadVars, userVars, msgVars
<1>a. UUIDOf[g] \in UUIDs
  BY ServerAssumption
<1>1. CASE UserExecute(g)
  <2>1. gstate' \in [Goals -> GoalStates]
    BY <1>1, TransitionType DEF UserExecute, TypeOK
  <2> QED
    BY <1>1, <2>1 DEF UserExecute, TypeOK, UserPCs
<1>2. CASE UserExecuteStatus(g)
  BY <1>2, PublishStatusType DEF UserExecuteStatus, TypeOK, UserPCs
<1>3. CASE \E event \in UserOps \cap {"SUCCEED", "ABORT", "CANCELED"} : UserFinish(g, event)
  <2>1. PICK event \in {"SUCCEED", "ABORT", "CANCELED"} : UserFinish(g, event)
    BY <1>3
  <2>2. FinishStatus(event) \in TerminalStates
    BY <2>1, FinishTransition DEF UserFinish
  <2>3. gstate' \in [Goals -> GoalStates]
    BY <2>1, TransitionType DEF UserFinish, TypeOK
  <2>4. result_msg' \in [Goals -> TerminalStates \cup {None}] /\ upc' \in [Goals -> UserPCs]
    BY <2>1, <2>2 DEF UserFinish, TypeOK, UserPCs, TerminalPCs
  <2> QED
    BY <2>1, <2>3, <2>4 DEF UserFinish, TypeOK
<1>4. CASE UserDrop(g)
  BY <1>4 DEF UserDrop, TypeOK, UserPCs
<1>0. CASE DestroyHandle(g)
  <2>1. /\ gstate' \in [Goals -> GoalStates]
        /\ result_msg' \in [Goals -> TerminalStates \cup {None}]
        /\ upc' \in [Goals -> UserPCs]
    <3>1. /\ gstate \in [Goals -> GoalStates] /\ upc \in [Goals -> UserPCs]
          /\ result_msg \in [Goals -> TerminalStates \cup {None}]
      BY DEF TypeOK
    <3>2. /\ "CANCELED" \in TerminalStates /\ "CANCELED" \in GoalStates
          /\ "t_exists" \in UserPCs /\ "idle" \in UserPCs
      BY DEF TerminalStates, GoalStates, UserPCs, TerminalPCs
    <3> QED
      BY <1>0, <3>1, <3>2, DestroyCases
  <2> QED
    BY <1>0, <2>1 DEF DestroyHandle, TypeOK
<1>5. CASE PublishResultExists(g)
  BY <1>5, ZenonT(40) DEF PublishResultExists, TypeOK, UserPCs, TerminalPCs
<1>6. CASE PublishResultStore(g)
  <2>1. result_msg[g] \in TerminalStates
    BY <1>6 DEF PublishResultStore, ResultOK
  <2>2. answer' \in [Requests -> Seq(TerminalStates \cup {"UNKNOWN"})]
    BY <1>6, <2>1 DEF PublishResultStore, TypeOK
  <2>3. goal_results_' \in [UUIDs -> TerminalStates \cup {None}]
    BY <1>6, <2>1 DEF PublishResultStore, TypeOK
  <2>4. upc' \in [Goals -> UserPCs]
    BY <1>6 DEF PublishResultStore, TypeOK, UserPCs, TerminalPCs
  <2> QED
    BY <1>6, <2>2, <2>3, <2>4 DEF PublishResultStore, TypeOK
<1>7. CASE TerminalStatus(g)
  BY <1>7, PublishStatusType DEF TerminalStatus, TypeOK, UserPCs, TerminalPCs
<1>8. CASE NotifyGoalDone(g)
  <2>1. timer' \in ExpireTimerType
    BY <1>8, RecalculateType DEF NotifyGoalDone
  <2> QED
    BY <1>8, <2>1 DEF NotifyGoalDone, TypeOK, UserPCs, TerminalPCs
<1>9. CASE TerminalErase(g)
  BY <1>9, <1>a DEF TerminalErase, TypeOK, UserPCs
<1> QED
  BY <1>0, <1>1, <1>2, <1>3, <1>4, <1>5, <1>6, <1>7, <1>8, <1>9 DEF UserStep, TerminalStep

\* Taking a request or an event, and the passing of time, keep the types.
LEMMA TakeType ==
    ASSUME CoreInv,
           \/ Tick
           \/ \E t \in Threads, g \in Goals : GoalRequestReceived(t, g)
           \/ \E t \in Threads, c \in Cancels, u \in UUIDs \cup {None}, s \in CancelStamps :
                CancelRequestReceived(t, c, u, s)
           \/ \E t \in Threads, r \in Requests, u \in UUIDs : ResultRequestReceived(t, r, u)
           \/ \E t \in Threads : ExpireTimerReady(t)
    PROVE  TypeOK'
<1> USE DEF CoreInv, rclVars, mapVars, threadVars, userVars, msgVars, Goto
<1>1. CASE Tick
  <2>1. now' \in 1..MaxTime
    BY <1>1, ServerAssumption DEF Tick, TypeOK
  <2> QED
    BY <1>1, <2>1 DEF Tick, TypeOK
<1>2. ASSUME NEW t \in Threads, NEW g \in Goals, GoalRequestReceived(t, g)
      PROVE  TypeOK'
  <2>1. goalResp' \in [Goals -> {"none", "accepted", "rejected", "lost"}]
    <3>1. \E resp \in {"accepted", "rejected", "lost"} :
            goalResp' = [goalResp EXCEPT ![g] = resp]
      BY <1>2 DEF GoalRequestReceived
    <3>2. goalResp \in [Goals -> {"none", "accepted", "rejected", "lost"}]
      BY DEF TypeOK
    <3> QED
      BY <3>1, <3>2
  <2>2. CASE UNCHANGED threadVars
    BY <1>2, <2>1, <2>2 DEF GoalRequestReceived, TypeOK
  <2>3. ASSUME NEW response \in {"EXECUTE", "DEFER"},
               pc' = [pc EXCEPT ![t] = "g_accept"], tgoal' = [tgoal EXCEPT ![t] = g],
               tcode' = [tcode EXCEPT ![t] = response], UNCHANGED <<treq, tlist, tok>>
        PROVE  TypeOK'
    BY <1>2, <2>1, <2>3 DEF GoalRequestReceived, TypeOK, HandlerPCs
  <2> QED
    BY <1>2, <2>2, <2>3 DEF GoalRequestReceived
<1>3. ASSUME NEW t \in Threads, NEW c \in Cancels, NEW u \in UUIDs \cup {None},
             NEW s \in CancelStamps, CancelRequestReceived(t, c, u, s)
      PROVE  TypeOK'
  <2>1. {UUIDOf[g] : g \in GoalsToCancel(u, s)} \in SUBSET UUIDs
    BY ServerAssumption DEF GoalsToCancel, TypeOK
  <2>2. tlist' \in [Threads -> SUBSET UUIDs]
    BY <1>3, <2>1 DEF CancelRequestReceived, TypeOK
  <2>3. tcode' \in [Threads -> CancelCodes \cup {"EXECUTE", "DEFER"}]
    BY <1>3 DEF CancelRequestReceived, TypeOK, CancelCode, CancelCodes
  <2>4. cancelReq' \in [Cancels -> [uuid : UUIDs \cup {None}, stamp : CancelStamps]
                                   \cup {None}]
    BY <1>3 DEF CancelRequestReceived, TypeOK
  <2>5. /\ pc' \in [Threads -> HandlerPCs]
        /\ treq' \in [Threads -> Requests \cup Cancels \cup {None}]
    BY <1>3 DEF CancelRequestReceived, TypeOK, HandlerPCs
  <2> QED
    BY <1>3, <2>2, <2>3, <2>4, <2>5 DEF CancelRequestReceived, TypeOK
<1>4. ASSUME NEW t \in Threads, NEW r \in Requests, NEW u \in UUIDs,
             ResultRequestReceived(t, r, u)
      PROVE  TypeOK'
  <2>1. answer' \in [Requests -> Seq(TerminalStates \cup {"UNKNOWN"})]
    <3>1. \/ answer' = answer
          \/ answer' = [answer EXCEPT ![r] = Append(answer[r], "UNKNOWN")]
      BY <1>4 DEF ResultRequestReceived
    <3>2. answer \in [Requests -> Seq(TerminalStates \cup {"UNKNOWN"})]
      BY DEF TypeOK
    <3> QED
      <4>1. CASE answer' = answer
        BY <3>2, <4>1
      <4>2. CASE answer' # answer
        BY <3>1, <4>2, AppendType
      <4> QED
        BY <4>1, <4>2
  <2>2. /\ asked' \in [Requests -> UUIDs \cup {None}]
        /\ pc' \in [Threads -> HandlerPCs]
        /\ treq' \in [Threads -> Requests \cup Cancels \cup {None}]
    <3>1. /\ asked' = [asked EXCEPT ![r] = u]
          /\ pc' = pc \/ pc' = [pc EXCEPT ![t] = "r_lookup"]
          /\ treq' = treq \/ treq' = [treq EXCEPT ![t] = r]
      BY <1>4 DEF ResultRequestReceived
    <3>2. /\ asked \in [Requests -> UUIDs \cup {None}]
          /\ pc \in [Threads -> HandlerPCs]
          /\ treq \in [Threads -> Requests \cup Cancels \cup {None}]
      BY DEF TypeOK
    <3> QED
      BY <3>1, <3>2 DEF HandlerPCs
  <2> QED
    BY <1>4, <2>1, <2>2 DEF ResultRequestReceived, TypeOK
<1>5. ASSUME NEW t \in Threads, ExpireTimerReady(t)
      PROVE  TypeOK'
  BY <1>5 DEF ExpireTimerReady, TypeOK, HandlerPCs
<1> QED
  BY <1>1, <1>2, <1>3, <1>4, <1>5

-----------------------------------------------------------------------------
(* How the state of a goal may change *)

\* Every step that is not one of these leaves the states of all goals alone.
LEMMA StateUnchanged ==
    ASSUME Next,
           \A t \in Threads : ~GoalAccept(t) /\ ~GoalExecute(t) /\ ~CancelCallback(t),
           \A g \in Goals : ~UserStep(g)
    PROVE  gstate' = gstate
<1> USE DEF rclVars
<1>1. CASE Tick
  BY <1>1 DEF Tick
<1>2. ASSUME NEW t \in Threads, \E g \in Goals : GoalRequestReceived(t, g)
      PROVE  gstate' = gstate
  BY <1>2 DEF GoalRequestReceived
<1>3. ASSUME NEW t \in Threads,
             \E c \in Cancels, u \in UUIDs \cup {None}, s \in CancelStamps :
               CancelRequestReceived(t, c, u, s)
      PROVE  gstate' = gstate
  BY <1>3 DEF CancelRequestReceived
<1>4. ASSUME NEW t \in Threads,
             \E r \in Requests, u \in UUIDs : ResultRequestReceived(t, r, u)
      PROVE  gstate' = gstate
  BY <1>4 DEF ResultRequestReceived
<1>5. ASSUME NEW t \in Threads, ExpireTimerReady(t)
      PROVE  gstate' = gstate
  BY <1>5 DEF ExpireTimerReady
<1>6. ASSUME NEW t \in Threads, ThreadStep(t)
      PROVE  gstate' = gstate
  <2>1. CASE GoalStore(t) \/ GoalPublishStatus(t) \/ GoalRegister(t)
    BY <2>1 DEF GoalStore, GoalPublishStatus, GoalRegister
  <2>2. CASE AcceptedDestroyed(t) \/ CancelDestroyed(t) \/ CancelRespond(t)
    BY <2>2 DEF AcceptedDestroyed, CancelDestroyed, CancelRespond
  <2>3. CASE \E u \in UUIDs : CancelLookup(t, u)
    BY <2>3 DEF CancelLookup
  <2>4. CASE ResultLookup(t) \/ ExpireGoals(t) \/ ExpireErase(t)
    BY <2>4 DEF ResultLookup, ExpireGoals, ExpireErase
  <2>5. CASE AcceptedReturn(t) \/ CancelRelease(t)
    BY <2>5 DEF AcceptedReturn, CancelRelease
  <2> QED
    BY <1>6, <2>1, <2>2, <2>3, <2>4, <2>5 DEF ThreadStep
<1>7. ASSUME NEW g \in Goals, UserExecuteStatus(g) \/ TerminalStep(g)
      PROVE  gstate' = gstate
  BY <1>7 DEF UserExecuteStatus, TerminalStep, PublishResultExists, PublishResultStore,
              TerminalStatus, NotifyGoalDone, TerminalErase
<1> QED
  BY <1>1, <1>2, <1>3, <1>4, <1>5, <1>6, <1>7 DEF Next

\* A goal keeps its state, or is accepted, or moves on from an active state; who
\* ends it is to publish the result next.
StateStep(g) ==
    \/ gstate'[g] = gstate[g]
    \/ /\ gstate[g] = "UNKNOWN" /\ gstate'[g] = "ACCEPTED"
       /\ \E t \in Threads : pc[t] = "g_accept" /\ tgoal[t] = g /\ pc'[t] # "g_accept"
    \/ gstate[g] \in ActiveStates /\ gstate'[g] \in ActiveStates
    \/ gstate[g] \in ActiveStates /\ gstate'[g] \in TerminalStates /\ upc'[g] = "t_exists"

LEMMA StateChange ==
    ASSUME CoreInv, Next
    PROVE  \A g \in Goals : StateStep(g)
<1> USE DEF CoreInv
<1>a. /\ gstate \in [Goals -> GoalStates] /\ pc \in [Threads -> HandlerPCs]
      /\ upc \in [Goals -> UserPCs]
  BY DEF TypeOK
<1>b. ASSUME NEW h \in Goals, gstate[h] \in ActiveStates,
             NEW v \in ActiveStates, gstate' = [gstate EXCEPT ![h] = v]
      PROVE  \A g \in Goals : StateStep(g)
  BY <1>a, <1>b DEF StateStep
<1>c. ASSUME gstate' = gstate
      PROVE  \A g \in Goals : StateStep(g)
  BY <1>c DEF StateStep
<1>1. ASSUME NEW t \in Threads, GoalAccept(t)
      PROVE  \A g \in Goals : StateStep(g)
  <2>1. CASE gstate' = gstate
    BY <1>c, <2>1
  <2>2. CASE gstate' # gstate
    <3>1. /\ pc[t] = "g_accept" /\ pc' = [pc EXCEPT ![t] = "g_store"]
          /\ gstate' = [gstate EXCEPT ![tgoal[t]] = "ACCEPTED"]
      BY <1>1, <2>2 DEF GoalAccept, Goto, rclVars
    <3>2. tgoal[t] \in Goals /\ gstate[tgoal[t]] = "UNKNOWN"
      BY <3>1 DEF LocalsOK, GoalPCs, FreshOK
    <3>3. pc'[t] # "g_accept"
      BY <1>a, <3>1
    <3> QED
      BY <1>a, <3>1, <3>2, <3>3 DEF StateStep
  <2> QED
    BY <2>1, <2>2
<1>2. ASSUME NEW t \in Threads, GoalExecute(t)
      PROVE  \A g \in Goals : StateStep(g)
  <2>1. tgoal[t] \in Goals
    BY <1>2 DEF GoalExecute, LocalsOK, GoalPCs
  <2>2. \/ gstate' = gstate
        \/ /\ rcl_action_update_goal_state_ok(gstate[tgoal[t]], "EXECUTE")
           /\ gstate' = [gstate EXCEPT ![tgoal[t]] =
                           rcl_action_transition_goal_state(gstate[tgoal[t]], "EXECUTE")]
    BY <1>2 DEF GoalExecute
  <2> QED
    BY <1>b, <1>c, <2>1, <2>2, TransitionFromActive, ActiveTransition
<1>3. ASSUME NEW t \in Threads, CancelCallback(t)
      PROVE  \A g \in Goals : StateStep(g)
  <2>1. tgoal[t] \in Goals
    BY <1>3 DEF CancelCallback, LocalsOK, GoalPCs
  <2>2. \/ gstate' = gstate
        \/ /\ rcl_action_update_goal_state_ok(gstate[tgoal[t]], "CANCEL_GOAL")
           /\ gstate' = [gstate EXCEPT ![tgoal[t]] =
                          rcl_action_transition_goal_state(gstate[tgoal[t]], "CANCEL_GOAL")]
    BY <1>3 DEF CancelCallback
  <2> QED
    BY <1>b, <1>c, <2>1, <2>2, TransitionFromActive, ActiveTransition
<1>4. ASSUME NEW h \in Goals, UserStep(h)
      PROVE  \A g \in Goals : StateStep(g)
  <2>1. CASE UserExecute(h)
    BY <1>b, <2>1, TransitionFromActive, ActiveTransition DEF UserExecute
  <2>2. CASE UserDrop(h)
    BY <1>c, <2>2 DEF UserDrop, rclVars
  <2>3. ASSUME NEW e \in {"SUCCEED", "ABORT", "CANCELED"}, UserFinish(h, e)
        PROVE  \A g \in Goals : StateStep(g)
    <3>1. /\ gstate[h] \in ActiveStates /\ FinishStatus(e) \in TerminalStates
          /\ gstate' = [gstate EXCEPT ![h] = FinishStatus(e)]
      BY <2>3, TransitionFromActive, FinishTransition DEF UserFinish
    <3>2. upc'[h] = "t_exists"
      BY <1>a, <2>3 DEF UserFinish
    <3> QED
      BY <1>a, <3>1, <3>2 DEF StateStep
  <2>4. CASE DestroyHandle(h)
    BY <1>a, <1>c, <2>4, DestroyCases DEF StateStep, TerminalStates
  <2> QED
    BY <1>4, <2>1, <2>2, <2>3, <2>4 DEF UserStep
<1> QED
  BY <1>c, <1>1, <1>2, <1>3, <1>4, StateUnchanged

-----------------------------------------------------------------------------
(* The locals of the executor threads *)

\* A step of thread t leaves the locals of the others alone ...
ThreadFrame(t) ==
    \A s \in Threads \ {t} : /\ pc'[s] = pc[s] /\ tgoal'[s] = tgoal[s]
                             /\ treq'[s] = treq[s] /\ tcode'[s] = tcode[s]

\* ... and brings its own in line with its new program counter.
LocalsAfter(t) ==
    /\ pc'[t] \in GoalPCs => tgoal'[t] \in Goals
    /\ pc'[t] \in CancelPCs => treq'[t] \in Cancels /\ tcode'[t] \in CancelCodes
    /\ pc'[t] = "r_lookup" => treq'[t] \in Requests /\ asked'[treq'[t]] \in UUIDs

LEMMA ThreadStepLocals ==
    ASSUME CoreInv, NEW t \in Threads, ThreadStep(t)
    PROVE  /\ ThreadFrame(t) /\ LocalsAfter(t) /\ pc'[t] # "g_accept"
           /\ asked' = asked /\ goalResp' = goalResp
<1> USE DEF msgVars, Goto, GoalHandlerDone, ThreadFrame, LocalsAfter
<1>a. /\ pc \in [Threads -> HandlerPCs]
      /\ tgoal \in [Threads -> Goals \cup {None}]
      /\ treq \in [Threads -> Requests \cup Cancels \cup {None}]
      /\ tcode \in [Threads -> CancelCodes \cup {"EXECUTE", "DEFER"}]
  BY DEF CoreInv, TypeOK
<1>b. /\ pc[t] \in GoalPCs => tgoal[t] \in Goals
      /\ pc[t] \in CancelPCs => treq[t] \in Cancels /\ tcode[t] \in CancelCodes
  BY DEF CoreInv, LocalsOK
<1>1. CASE GoalAccept(t)
  BY <1>1, <1>a, <1>b DEF GoalAccept, GoalPCs, CancelPCs
<1>2. CASE GoalStore(t)
  BY <1>2, <1>a, <1>b DEF GoalStore, GoalPCs, CancelPCs
<1>3. CASE GoalExecute(t)
  BY <1>3, <1>a, <1>b DEF GoalExecute, GoalPCs, CancelPCs
<1>4. CASE GoalPublishStatus(t)
  BY <1>4, <1>a, <1>b DEF GoalPublishStatus, GoalPCs, CancelPCs
<1>5. CASE GoalRegister(t)
  BY <1>5, <1>a, <1>b DEF GoalRegister, GoalPCs, CancelPCs
<1>6. CASE AcceptedReturn(t)
  BY <1>6, <1>a, <1>b DEF AcceptedReturn, GoalPCs, CancelPCs
<1>7. CASE AcceptedDestroyed(t)
  BY <1>7, <1>a, <1>b DEF AcceptedDestroyed, GoalPCs, CancelPCs
<1>8. ASSUME NEW u \in UUIDs, CancelLookup(t, u)
      PROVE  /\ ThreadFrame(t) /\ LocalsAfter(t) /\ pc'[t] # "g_accept"
             /\ asked' = asked /\ goalResp' = goalResp
  <2>1. Lockable(typed_handles_[u]) => typed_handles_[u] \in Goals
    BY DEF Lockable, CoreInv, TypeOK
  <2> QED
    BY <1>8, <1>a, <1>b, <2>1 DEF CancelLookup, GoalPCs, CancelPCs
<1>9. CASE CancelCallback(t)
  BY <1>9, <1>a, <1>b DEF CancelCallback, GoalPCs, CancelPCs
<1>10. CASE CancelRelease(t)
  BY <1>10, <1>a, <1>b DEF CancelRelease, GoalPCs, CancelPCs
<1>11. CASE CancelDestroyed(t)
  BY <1>11, <1>a, <1>b DEF CancelDestroyed, GoalPCs, CancelPCs
<1>12. CASE CancelRespond(t)
  BY <1>12, <1>a, <1>b DEF CancelRespond, GoalPCs, CancelPCs
<1>13. CASE ResultLookup(t)
  BY <1>13, <1>a, <1>b DEF ResultLookup, GoalPCs, CancelPCs
<1>14. CASE ExpireGoals(t)
  <2>1. ExpiredGoals \subseteq Goals
    BY DEF ExpiredGoals, CoreInv, TypeOK
  <2> QED
    BY <1>14, <1>a, <1>b, <2>1 DEF ExpireGoals, GoalPCs, CancelPCs
<1>15. CASE ExpireErase(t)
  BY <1>15, <1>a, <1>b DEF ExpireErase, GoalPCs, CancelPCs
<1> QED
  BY <1>1, <1>2, <1>3, <1>4, <1>5, <1>6, <1>7, <1>8, <1>9, <1>10, <1>11, <1>12,
     <1>13, <1>14, <1>15 DEF ThreadStep

\* Taking a request or an event.
Take(t) ==
    \/ \E g \in Goals : GoalRequestReceived(t, g)
    \/ \E c \in Cancels, u \in UUIDs \cup {None}, s \in CancelStamps :
         CancelRequestReceived(t, c, u, s)
    \/ \E r \in Requests, u \in UUIDs : ResultRequestReceived(t, r, u)
    \/ ExpireTimerReady(t)

LEMMA TakeLocals ==
    ASSUME CoreInv, NEW t \in Threads, Take(t)
    PROVE  /\ ThreadFrame(t) /\ LocalsAfter(t)
           /\ pc[t] = "idle"
           /\ \A r \in Requests : asked'[r] = asked[r] \/ asked'[r] \in UUIDs
           /\ \/ goalResp' = goalResp /\ pc'[t] # "g_accept"
              \/ \E g \in Goals :
                   /\ goalResp[g] = "none"
                   /\ \E v \in {"rejected", "lost", "accepted"} :
                        goalResp' = [goalResp EXCEPT ![g] = v]
                   /\ pc'[t] = "g_accept" => tgoal'[t] = g /\ goalResp'[g] = "accepted"
<1> USE DEF threadVars, Goto, ThreadFrame, LocalsAfter, CanTake
<1>a. /\ pc \in [Threads -> HandlerPCs]
      /\ tgoal \in [Threads -> Goals \cup {None}]
      /\ treq \in [Threads -> Requests \cup Cancels \cup {None}]
      /\ tcode \in [Threads -> CancelCodes \cup {"EXECUTE", "DEFER"}]
      /\ goalResp \in [Goals -> {"none", "accepted", "rejected", "lost"}]
      /\ asked \in [Requests -> UUIDs \cup {None}]
  BY DEF CoreInv, TypeOK
<1>1. CASE \E g \in Goals : GoalRequestReceived(t, g)
  <2>1. PICK g \in Goals : GoalRequestReceived(t, g)
    BY <1>1
  <2>2. CASE UNCHANGED threadVars
    BY <2>1, <2>2, <1>a DEF GoalRequestReceived, GoalPCs, CancelPCs
  <2>3. CASE ~UNCHANGED threadVars
    BY <2>1, <2>3, <1>a DEF GoalRequestReceived, GoalPCs, CancelPCs
  <2> QED
    BY <2>2, <2>3
<1>2. ASSUME NEW c \in Cancels, NEW u \in UUIDs \cup {None}, NEW s \in CancelStamps,
             CancelRequestReceived(t, c, u, s)
      PROVE  /\ ThreadFrame(t) /\ LocalsAfter(t) /\ pc[t] = "idle" /\ asked' = asked
             /\ goalResp' = goalResp /\ pc'[t] # "g_accept"
  BY <1>2, <1>a DEF CancelRequestReceived, GoalPCs, CancelPCs, CancelCode, CancelCodes
<1>3. ASSUME NEW r \in Requests, NEW u \in UUIDs, ResultRequestReceived(t, r, u)
      PROVE  /\ ThreadFrame(t) /\ LocalsAfter(t) /\ pc[t] = "idle"
             /\ asked' = [asked EXCEPT ![r] = u]
             /\ goalResp' = goalResp /\ pc'[t] # "g_accept"
  BY <1>3, <1>a DEF ResultRequestReceived, GoalPCs, CancelPCs
<1>4. ASSUME ExpireTimerReady(t)
      PROVE  /\ ThreadFrame(t) /\ LocalsAfter(t) /\ pc[t] = "idle" /\ asked' = asked
             /\ goalResp' = goalResp /\ pc'[t] # "g_accept"
  BY <1>4, <1>a DEF ExpireTimerReady, GoalPCs, CancelPCs, msgVars
<1> QED
  <2> HIDE DEF threadVars, Goto, ThreadFrame, LocalsAfter, CanTake
  <2>1. CASE \E g \in Goals : GoalRequestReceived(t, g)
    BY <1>1, <2>1
  <2>2. CASE ~\E g \in Goals : GoalRequestReceived(t, g)
    <3>1. \A r \in Requests, u \in UUIDs : ResultRequestReceived(t, r, u) =>
            \A q \in Requests : asked'[q] = asked[q] \/ asked'[q] \in UUIDs
      BY <1>a, <1>3
    <3> QED
      BY <1>2, <1>3, <1>4, <2>2, <3>1 DEF Take
  <2> QED
    BY <2>1, <2>2

\* The other steps leave the locals of every thread alone.
LEMMA OtherLocals ==
    ASSUME \/ Tick
           \/ \E g \in Goals : UserStep(g) \/ UserExecuteStatus(g) \/ TerminalStep(g)
    PROVE  UNCHANGED <<pc, tgoal, treq, tcode, asked, goalResp>>
<1> USE DEF threadVars, msgVars
<1>1. CASE Tick
  BY <1>1 DEF Tick
<1>2. ASSUME NEW g \in Goals, UserStep(g) \/ UserExecuteStatus(g)
      PROVE  UNCHANGED <<pc, tgoal, treq, tcode, asked, goalResp>>
  BY <1>2 DEF UserStep, UserExecuteStatus, UserExecute, UserFinish, UserDrop,
              DestroyHandle
<1>3. ASSUME NEW g \in Goals, TerminalStep(g)
      PROVE  UNCHANGED <<pc, tgoal, treq, tcode, asked, goalResp>>
  BY <1>3 DEF TerminalStep, PublishResultExists, PublishResultStore, TerminalStatus,
              NotifyGoalDone, TerminalErase
<1> QED
  BY <1>1, <1>2, <1>3

LEMMA NextCases ==
    ASSUME Next
    PROVE  \/ Tick \/ \E g \in Goals : UserStep(g) \/ UserExecuteStatus(g) \/ TerminalStep(g)
           \/ \E t \in Threads : ThreadStep(t)
           \/ \E t \in Threads : Take(t)
  BY DEF Next, Take

LEMMA LocalsStep ==
    ASSUME CoreInv, Next
    PROVE  LocalsOK'
<1>a. ASSUME NEW t \in Threads, ThreadFrame(t), LocalsAfter(t),
             \A r \in Requests : asked'[r] = asked[r] \/ asked'[r] \in UUIDs
      PROVE  LocalsOK'
  BY <1>a DEF ThreadFrame, LocalsAfter, LocalsOK, CoreInv
<1>1. ASSUME UNCHANGED <<pc, tgoal, treq, tcode, asked, goalResp>>
      PROVE  LocalsOK'
  BY <1>1 DEF CoreInv, LocalsOK
<1>2. ASSUME NEW t \in Threads, ThreadStep(t)
      PROVE  LocalsOK'
  BY <1>2, <1>a, ThreadStepLocals
<1>3. ASSUME NEW t \in Threads, Take(t)
      PROVE  LocalsOK'
  BY <1>3, <1>a, TakeLocals
<1> QED
  BY <1>1, <1>2, <1>3, OtherLocals, NextCases

LEMMA FreshStep ==
    ASSUME CoreInv, Next
    PROVE  FreshOK'
<1>a. \A g \in Goals : StateStep(g)
  BY StateChange
<1>b. FreshOK /\ LocalsOK /\ goalResp \in [Goals -> {"none", "accepted", "rejected", "lost"}]
  BY DEF CoreInv, TypeOK
\* The goals about to be accepted afterwards are those before, less the thread
\* that moved on.
<1>c. ASSUME goalResp' = goalResp,
             \A t \in Threads : pc'[t] = "g_accept" =>
               pc[t] = "g_accept" /\ tgoal'[t] = tgoal[t]
      PROVE  FreshOK'
  <2>1. \A g \in Goals : goalResp'[g] = "none" => gstate'[g] = "UNKNOWN"
    BY <1>a, <1>b, <1>c, StatesDisjoint DEF FreshOK, StateStep
  <2>2. ASSUME NEW t \in Threads, pc'[t] = "g_accept"
        PROVE  gstate'[tgoal'[t]] = "UNKNOWN" /\ goalResp'[tgoal'[t]] = "accepted"
    <3>1. /\ pc[t] = "g_accept" /\ tgoal'[t] = tgoal[t] /\ tgoal[t] \in Goals
          /\ gstate[tgoal[t]] = "UNKNOWN" /\ goalResp[tgoal[t]] = "accepted"
      BY <1>b, <1>c, <2>2 DEF FreshOK, LocalsOK, GoalPCs
    <3>2. ~\E s \in Threads : pc[s] = "g_accept" /\ tgoal[s] = tgoal[t] /\ pc'[s] # "g_accept"
      BY <1>b, <2>2, <3>1 DEF FreshOK
    <3> QED
      BY <1>a, <1>c, <3>1, <3>2, StatesDisjoint DEF StateStep
  <2>3. \A s, t \in Threads :
          (s # t /\ pc'[s] = "g_accept" /\ pc'[t] = "g_accept") => tgoal'[s] # tgoal'[t]
    BY <1>b, <1>c DEF FreshOK
  <2> QED
    BY <2>1, <2>2, <2>3 DEF FreshOK
<1>1. ASSUME UNCHANGED <<pc, tgoal, treq, tcode, asked, goalResp>>
      PROVE  FreshOK'
  BY <1>1, <1>c
<1>2. ASSUME NEW t \in Threads, ThreadStep(t)
      PROVE  FreshOK'
  BY <1>2, <1>c, ThreadStepLocals DEF ThreadFrame
<1>3. ASSUME NEW t \in Threads, Take(t)
      PROVE  FreshOK'
  <2>1. /\ ThreadFrame(t) /\ pc[t] = "idle"
        /\ \/ goalResp' = goalResp /\ pc'[t] # "g_accept"
           \/ \E g \in Goals :
                /\ goalResp[g] = "none"
                /\ \E v \in {"rejected", "lost", "accepted"} :
                     goalResp' = [goalResp EXCEPT ![g] = v]
                /\ pc'[t] = "g_accept" => tgoal'[t] = g /\ goalResp'[g] = "accepted"
    BY <1>3, TakeLocals
  <2>2. CASE goalResp' = goalResp /\ pc'[t] # "g_accept"
    BY <1>c, <2>1, <2>2 DEF ThreadFrame
  <2>3. CASE ~(goalResp' = goalResp /\ pc'[t] # "g_accept")
    <3>1. PICK g \in Goals :
            /\ goalResp[g] = "none"
            /\ \E v \in {"rejected", "lost", "accepted"} :
                 goalResp' = [goalResp EXCEPT ![g] = v]
            /\ pc'[t] = "g_accept" => tgoal'[t] = g /\ goalResp'[g] = "accepted"
      BY <2>1, <2>3
    <3>2. \A h \in Goals : h # g => goalResp'[h] = goalResp[h]
      BY <1>b, <3>1
    <3>3. goalResp'[g] # "none"
      BY <1>b, <3>1
    \* No thread was about to accept g, and no state changes in this step.
    <3>4. \A s \in Threads : s # t => pc'[s] = pc[s] /\ tgoal'[s] = tgoal[s]
      BY <2>1 DEF ThreadFrame
    <3>5. \A s \in Threads : pc[s] = "g_accept" => tgoal[s] \in Goals /\ tgoal[s] # g
      BY <1>b, <3>1 DEF FreshOK, LocalsOK, GoalPCs
    <3>6. \A h \in Goals : gstate[h] = "UNKNOWN" => gstate'[h] = "UNKNOWN"
      BY <1>a, <2>1, <3>4, StatesDisjoint DEF StateStep
    <3>7. \A h \in Goals : goalResp'[h] = "none" => gstate'[h] = "UNKNOWN"
      BY <1>b, <3>2, <3>3, <3>6 DEF FreshOK
    <3>8. \A s \in Threads : pc'[s] = "g_accept" =>
            gstate'[tgoal'[s]] = "UNKNOWN" /\ goalResp'[tgoal'[s]] = "accepted"
      <4>1. ASSUME NEW s \in Threads, s # t, pc'[s] = "g_accept"
            PROVE  gstate'[tgoal'[s]] = "UNKNOWN" /\ goalResp'[tgoal'[s]] = "accepted"
        BY <1>b, <3>2, <3>4, <3>5, <3>6, <4>1 DEF FreshOK
      <4>2. pc'[t] = "g_accept" =>
              gstate'[tgoal'[t]] = "UNKNOWN" /\ goalResp'[tgoal'[t]] = "accepted"
        BY <1>b, <3>1, <3>6 DEF FreshOK
      <4> QED
        BY <4>1, <4>2
    <3>9. \A r, s \in Threads :
            (r # s /\ pc'[r] = "g_accept" /\ pc'[s] = "g_accept") => tgoal'[r] # tgoal'[s]
      BY <1>b, <3>1, <3>4, <3>5 DEF FreshOK
    <3> QED
      BY <3>7, <3>8, <3>9 DEF FreshOK
  <2> QED
    BY <2>2, <2>3
<1> QED
  BY <1>1, <1>2, <1>3, OtherLocals, NextCases

-----------------------------------------------------------------------------
(* Results *)

\* A goal that has ended stays as it is.
LEMMA TerminalIsFinal ==
    ASSUME CoreInv, Next, NEW g \in Goals, gstate[g] \in TerminalStates
    PROVE  gstate'[g] = gstate[g]
  BY StateChange, StatesDisjoint DEF StateStep

\* Whoever is to publish a result was so already, or has just ended the goal.
ResultStep(g) ==
    upc'[g] \in {"t_exists", "t_store"} =>
        \/ upc[g] \in {"t_exists", "t_store"} /\ result_msg'[g] = result_msg[g]
        \/ gstate'[g] \in TerminalStates /\ result_msg'[g] = gstate'[g]

LEMMA ResultChange ==
    ASSUME CoreInv, Next
    PROVE  \A g \in Goals : ResultStep(g)
<1> USE DEF CoreInv, userVars
<1>a. /\ gstate \in [Goals -> GoalStates] /\ upc \in [Goals -> UserPCs]
      /\ result_msg \in [Goals -> TerminalStates \cup {None}]
  BY DEF TypeOK
<1>b. ASSUME upc' = upc, result_msg' = result_msg
      PROVE  \A g \in Goals : ResultStep(g)
  BY <1>b DEF ResultStep
<1>c. ASSUME NEW h \in Goals, NEW p, upc' = [upc EXCEPT ![h] = p], result_msg' = result_msg,
             p \in {"t_exists", "t_store"} => upc[h] \in {"t_exists", "t_store"}
      PROVE  \A g \in Goals : ResultStep(g)
  BY <1>a, <1>c DEF ResultStep
<1>d. ASSUME NEW h \in Goals, NEW v \in TerminalStates,
             upc' = [upc EXCEPT ![h] = "t_exists"],
             gstate' = [gstate EXCEPT ![h] = v],
             result_msg' = [result_msg EXCEPT ![h] = v]
      PROVE  \A g \in Goals : ResultStep(g)
  BY <1>a, <1>d DEF ResultStep
<1>1. ASSUME NEW t \in Threads, ThreadStep(t)
      PROVE  \A g \in Goals : ResultStep(g)
  <2>1. CASE AcceptedReturn(t) \/ CancelRelease(t)
    <3>1. tgoal[t] \in Goals
      BY <2>1 DEF AcceptedReturn, CancelRelease, LocalsOK, GoalPCs
    <3> QED
      BY <1>b, <1>c, <2>1, <3>1 DEF AcceptedReturn, CancelRelease
  <2>2. CASE GoalRegister(t)
    <3>1. tgoal[t] \in Goals
      BY <2>2 DEF GoalRegister, LocalsOK, GoalPCs
    <3> QED
      BY <1>c, <2>2, <3>1 DEF GoalRegister
  <2>3. CASE GoalAccept(t) \/ GoalStore(t) \/ GoalExecute(t) \/ GoalPublishStatus(t)
    BY <1>b, <2>3 DEF GoalAccept, GoalStore, GoalExecute, GoalPublishStatus
  <2>4. CASE AcceptedDestroyed(t) \/ CancelDestroyed(t) \/ CancelRespond(t) \/ CancelCallback(t)
    BY <1>b, <2>4 DEF AcceptedDestroyed, CancelDestroyed, CancelRespond, CancelCallback
  <2>5. CASE \E u \in UUIDs : CancelLookup(t, u)
    BY <1>b, <2>5 DEF CancelLookup
  <2>6. CASE ResultLookup(t) \/ ExpireGoals(t) \/ ExpireErase(t)
    BY <1>b, <2>6 DEF ResultLookup, ExpireGoals, ExpireErase
  <2> QED
    BY <1>1, <2>1, <2>2, <2>3, <2>4, <2>5, <2>6 DEF ThreadStep
<1>2. ASSUME NEW t \in Threads, Take(t)
      PROVE  \A g \in Goals : ResultStep(g)
  BY <1>2, <1>b DEF Take, GoalRequestReceived, CancelRequestReceived,
                    ResultRequestReceived, ExpireTimerReady
<1>3. ASSUME NEW h \in Goals, UserStep(h)
      PROVE  \A g \in Goals : ResultStep(g)
  <2>1. CASE UserExecute(h)
    BY <1>c, <2>1 DEF UserExecute
  <2>2. CASE UserDrop(h)
    BY <1>b, <1>c, <2>2 DEF UserDrop
  <2>3. ASSUME NEW e \in {"SUCCEED", "ABORT", "CANCELED"}, UserFinish(h, e)
        PROVE  \A g \in Goals : ResultStep(g)
    BY <1>d, <2>3, FinishTransition DEF UserFinish
  <2>4. CASE DestroyHandle(h)
    <3>1. "CANCELED" \in TerminalStates
      BY DEF TerminalStates
    <3> QED
      BY <1>c, <1>d, <2>4, <3>1, DestroyCases
  <2> QED
    BY <1>3, <2>1, <2>2, <2>3, <2>4 DEF UserStep
<1>4. ASSUME NEW h \in Goals, UserExecuteStatus(h) \/ TerminalStep(h)
      PROVE  \A g \in Goals : ResultStep(g)
  <2>1. CASE PublishResultExists(h)
    BY <1>c, <2>1 DEF PublishResultExists
  <2>2. CASE PublishResultStore(h) \/ TerminalStatus(h) \/ NotifyGoalDone(h)
    BY <1>c, <2>2 DEF PublishResultStore, TerminalStatus, NotifyGoalDone
  <2>3. CASE TerminalErase(h) \/ UserExecuteStatus(h)
    BY <1>c, <2>3 DEF TerminalErase, UserExecuteStatus
  <2> QED
    BY <1>4, <2>1, <2>2, <2>3 DEF TerminalStep
<1>5. CASE Tick
  BY <1>b, <1>5 DEF Tick
<1> QED
  BY <1>1, <1>2, <1>3, <1>4, <1>5, NextCases

LEMMA CoreStep ==
    ASSUME CoreInv, [Next]_vars
    PROVE  CoreInv'
<1>1. CASE Next
  <2>1. TypeOK'
    BY <1>1, ThreadStepType, UserStepType, TakeType DEF Next
  <2>2. ResultOK'
    BY <1>1, ResultChange, TerminalIsFinal DEF CoreInv, ResultOK, ResultStep
  <2> QED
    BY <1>1, <2>1, <2>2, LocalsStep, FreshStep DEF CoreInv
<1>2. CASE UNCHANGED vars
  BY <1>2 DEF CoreInv, TypeOK, LocalsOK, FreshOK, ResultOK, vars, rclVars, mapVars,
              threadVars, userVars, msgVars
<1> QED
  BY <1>1, <1>2

\* Types are kept; in particular the expire timer's period stays between zero and
\* the result timeout, and only terminal states are ever stored as results.
THEOREM TypeCorrect == Spec => []TypeOK
<1>1. Spec => []CoreInv
  BY InitCore, CoreStep, PTL DEF Spec
<1>2. CoreInv => TypeOK
  BY DEF CoreInv
<1> QED
  BY <1>1, <1>2, PTL

-----------------------------------------------------------------------------
(* Result requests and their answers *)

\* A kept request is kept under the id it asks for, and nobody is answered
\* before asking.
RequestsOK ==
    /\ \A u \in UUIDs : \A r \in result_requests_[u] : asked[r] = u
    /\ \A r \in Requests : asked[r] = None => answer[r] = <<>>

AnswerInv == CoreInv /\ RequestsOK /\ AnswersAreFinal /\ NoRequestForgotten

\* Four actions touch requests, results and answers; no other step does.
LEMMA AnswersUnchanged ==
    ASSUME Next,
           \A t \in Threads : ~ResultLookup(t) /\ ~ExpireErase(t),
           \A t \in Threads, r \in Requests, u \in UUIDs : ~ResultRequestReceived(t, r, u),
           \A g \in Goals : ~PublishResultStore(g)
    PROVE  UNCHANGED <<asked, answer, goal_results_, result_requests_>>
<1> USE DEF mapVars, msgVars
<1>1. ASSUME NEW t \in Threads, ThreadStep(t)
      PROVE  UNCHANGED <<asked, answer, goal_results_, result_requests_>>
  <2>1. CASE GoalAccept(t) \/ GoalStore(t) \/ GoalExecute(t) \/ GoalPublishStatus(t)
    BY <2>1 DEF GoalAccept, GoalStore, GoalExecute, GoalPublishStatus
  <2>2. CASE GoalRegister(t) \/ AcceptedReturn(t) \/ AcceptedDestroyed(t)
    BY <2>2 DEF GoalRegister, AcceptedReturn, AcceptedDestroyed
  <2>3. CASE \E u \in UUIDs : CancelLookup(t, u)
    BY <2>3 DEF CancelLookup
  <2>4. CASE CancelCallback(t) \/ CancelRelease(t) \/ CancelDestroyed(t) \/ CancelRespond(t)
    BY <2>4 DEF CancelCallback, CancelRelease, CancelDestroyed, CancelRespond
  <2>5. CASE ExpireGoals(t)
    BY <2>5 DEF ExpireGoals
  <2> QED
    BY <1>1, <2>1, <2>2, <2>3, <2>4, <2>5 DEF ThreadStep
<1>2. ASSUME NEW t \in Threads, Take(t)
      PROVE  UNCHANGED <<asked, answer, goal_results_, result_requests_>>
  BY <1>2 DEF Take, GoalRequestReceived, CancelRequestReceived, ExpireTimerReady
<1>3. ASSUME NEW g \in Goals, UserStep(g) \/ UserExecuteStatus(g)
      PROVE  UNCHANGED <<asked, answer, goal_results_, result_requests_>>
  BY <1>3 DEF UserStep, UserExecuteStatus, UserExecute, UserFinish, UserDrop,
              DestroyHandle
<1>4. ASSUME NEW g \in Goals, TerminalStep(g)
      PROVE  UNCHANGED <<asked, answer, goal_results_, result_requests_>>
  BY <1>4 DEF TerminalStep, PublishResultExists, TerminalStatus, NotifyGoalDone,
              TerminalErase
<1>5. CASE Tick
  BY <1>5 DEF Tick
<1> QED
  BY <1>1, <1>2, <1>3, <1>4, <1>5, NextCases

\* What an id has ended as, it has ended as for good.
EndsAs(u, s) == s \in TerminalStates /\ \E g \in Goals : UUIDOf[g] = u /\ gstate'[g] = s

LEMMA EndedIsFinal ==
    ASSUME CoreInv, Next, NEW u, NEW s, EndedAs(u, s)
    PROVE  EndsAs(u, s)
  BY TerminalIsFinal DEF EndedAs, EndsAs

LEMMA AppendFacts ==
    ASSUME NEW S, NEW q \in Seq(S), NEW v \in S
    PROVE  /\ Append(q, v) # <<>>
           /\ \A i \in 1..Len(Append(q, v)) :
                Append(q, v)[i] = v \/ (i \in 1..Len(q) /\ Append(q, v)[i] = q[i])
  OBVIOUS

LEMMA AnswerStep ==
    ASSUME AnswerInv, Next
    PROVE  RequestsOK' /\ AnswersAreFinal' /\ NoRequestForgotten'
<1> DEFINE S == TerminalStates \cup {"UNKNOWN"}
           Answered(r, v) == answer' = [answer EXCEPT ![r] = Append(answer[r], v)]
<1>a. /\ goal_results_ \in [UUIDs -> TerminalStates \cup {None}]
      /\ result_requests_ \in [UUIDs -> SUBSET Requests]
      /\ asked \in [Requests -> UUIDs \cup {None}]
      /\ answer \in [Requests -> Seq(S)]
      /\ None \notin UUIDs
  BY ServerAssumption DEF AnswerInv, CoreInv, TypeOK
<1>b. /\ RequestsOK /\ AnswersAreFinal /\ NoRequestForgotten
      /\ \A u, s : EndedAs(u, s) => EndsAs(u, s)
  BY EndedIsFinal DEF AnswerInv
<1> HIDE DEF S
\* An answer grows by v only; the rest of it is as it was.
<1>c. ASSUME NEW r \in Requests, NEW q, NEW v \in S,
             q = answer[r] \/ q = Append(answer[r], v),
             NEW u, answer[r] # <<>> => u = asked[r],
             v = "UNKNOWN" \/ EndsAs(u, v)
      PROVE  /\ \A i \in 1..Len(q) : q[i] # "UNKNOWN" => EndsAs(u, q[i])
             /\ answer[r] # <<>> => q # <<>>
  <2>1. answer[r] \in Seq(S)
    BY <1>a
  <2>2. \A i \in 1..Len(answer[r]) :
          answer[r] # <<>> /\ (answer[r][i] # "UNKNOWN" => EndsAs(u, answer[r][i]))
    <3>1. SUFFICES ASSUME NEW i \in 1..Len(answer[r])
                   PROVE  answer[r] # <<>> /\
                          (answer[r][i] # "UNKNOWN" => EndsAs(u, answer[r][i]))
      OBVIOUS
    <3>2. answer[r] # <<>>
      BY <2>1, <3>1
    <3>3. answer[r][i] # "UNKNOWN" => EndedAs(asked[r], answer[r][i])
      BY <1>b, <3>1 DEF AnswersAreFinal
    <3> QED
      BY <1>b, <1>c, <3>2, <3>3
  <2>3. CASE q = answer[r]
    BY <2>2, <2>3
  <2>4. CASE q = Append(answer[r], v)
    BY <1>c, <2>1, <2>2, <2>4, AppendFacts
  <2> QED
    BY <1>c, <2>3, <2>4
<1>d. ASSUME \A w \in UUIDs : goal_results_'[w] # None => EndsAs(w, goal_results_'[w]),
             \A q \in Requests : \A i \in 1..Len(answer'[q]) :
               answer'[q][i] # "UNKNOWN" => EndsAs(asked'[q], answer'[q][i])
      PROVE  AnswersAreFinal'
  BY <1>d DEF AnswersAreFinal, EndedAs, EndsAs
<1>1. ASSUME UNCHANGED <<asked, answer, goal_results_, result_requests_>>
      PROVE  RequestsOK' /\ AnswersAreFinal' /\ NoRequestForgotten'
  <2>1. RequestsOK' /\ NoRequestForgotten'
    BY <1>1, <1>b DEF RequestsOK, NoRequestForgotten
  <2>2. AnswersAreFinal'
    <3>1. /\ \A w \in UUIDs : goal_results_[w] # None => EndsAs(w, goal_results_[w])
          /\ \A q \in Requests : \A i \in 1..Len(answer[q]) :
               answer[q][i] # "UNKNOWN" => EndsAs(asked[q], answer[q][i])
      BY <1>b DEF AnswersAreFinal
    <3> QED
      BY <1>1, <1>d, <3>1
  <2> QED
    BY <2>1, <2>2
<1>2. ASSUME NEW t \in Threads, NEW r \in Requests, NEW u \in UUIDs,
             ResultRequestReceived(t, r, u)
      PROVE  RequestsOK' /\ AnswersAreFinal' /\ NoRequestForgotten'
  <2>1. /\ asked[r] = None /\ asked' = [asked EXCEPT ![r] = u]
        /\ goal_results_' = goal_results_ /\ result_requests_' = result_requests_
        /\ answer' = answer \/ Answered(r, "UNKNOWN")
    BY <1>2 DEF ResultRequestReceived, mapVars
  <2>2. /\ \A q \in Requests : q # r => asked'[q] = asked[q] /\ answer'[q] = answer[q]
        /\ asked'[r] = u
        /\ answer'[r] = answer[r] \/ answer'[r] = Append(answer[r], "UNKNOWN")
    BY <1>a, <2>1
  <2>3. answer[r] = <<>> /\ \A w \in UUIDs : r \notin result_requests_[w]
    BY <1>a, <1>b, <2>1 DEF RequestsOK
  <2>4. RequestsOK'
    <3>1. \A w \in UUIDs : \A q \in result_requests_'[w] : asked'[q] = w
      BY <1>a, <1>b, <2>1, <2>2, <2>3 DEF RequestsOK
    <3>2. \A q \in Requests : asked'[q] = None => answer'[q] = <<>>
      BY <1>a, <1>b, <2>2 DEF RequestsOK
    <3> QED
      BY <3>1, <3>2 DEF RequestsOK
  <2>5. NoRequestForgotten'
    BY <1>a, <1>b, <2>1, <2>2, <2>3 DEF NoRequestForgotten
  <2>6. AnswersAreFinal'
    <3>1. \A w \in UUIDs : goal_results_'[w] # None => EndsAs(w, goal_results_'[w])
      BY <1>b, <2>1 DEF AnswersAreFinal
    <3>2. "UNKNOWN" \in S
      BY DEF S
    <3>3. \A i \in 1..Len(answer'[r]) :
            answer'[r][i] # "UNKNOWN" => EndsAs(asked'[r], answer'[r][i])
      BY <1>c, <2>2, <2>3, <3>2
    <3>4. \A q \in Requests : q # r => \A i \in 1..Len(answer'[q]) :
            answer'[q][i] # "UNKNOWN" => EndsAs(asked'[q], answer'[q][i])
      BY <1>b, <2>2 DEF AnswersAreFinal
    <3> QED
      BY <1>d, <3>1, <3>3, <3>4
  <2> QED
    BY <2>4, <2>5, <2>6
<1>3. ASSUME NEW t \in Threads, ResultLookup(t)
      PROVE  RequestsOK' /\ AnswersAreFinal' /\ NoRequestForgotten'
  <2> DEFINE r == treq[t]
             u == asked[r]
             v == goal_results_[u]
  <2>1. r \in Requests /\ u \in UUIDs
    BY <1>3 DEF ResultLookup, AnswerInv, CoreInv, LocalsOK
  <2>2. /\ asked' = asked /\ goal_results_' = goal_results_
        /\ \/ v # None /\ Answered(r, v) /\ result_requests_' = result_requests_
           \/ /\ v = None /\ answer' = answer
              /\ result_requests_' = [result_requests_ EXCEPT ![u] = result_requests_[u] \cup {r}]
    BY <1>3 DEF ResultLookup
  <2>3. /\ \A w \in UUIDs : goal_results_[w] # None => EndsAs(w, goal_results_[w])
        /\ \A q \in Requests : \A i \in 1..Len(answer[q]) :
             answer[q][i] # "UNKNOWN" => EndsAs(asked[q], answer[q][i])
    BY <1>b DEF AnswersAreFinal
  <2>4. CASE v # None
    <3>1. v \in S /\ EndsAs(u, v)
      BY <1>a, <2>1, <2>3, <2>4 DEF S
    <3>2. /\ answer'[r] = Append(answer[r], v) /\ result_requests_' = result_requests_
          /\ \A q \in Requests : q # r => answer'[q] = answer[q]
      BY <1>a, <2>1, <2>2, <2>4
    <3> HIDE DEF r, u, v
    <3>3. /\ \A i \in 1..Len(answer'[r]) :
               answer'[r][i] # "UNKNOWN" => EndsAs(u, answer'[r][i])
          /\ answer[r] # <<>> => answer'[r] # <<>>
      BY <1>c, <2>1, <3>1, <3>2 DEF u
    <3>4. AnswersAreFinal'
      BY <1>d, <2>2, <2>3, <3>2, <3>3 DEF u
    <3>5. RequestsOK'
      BY <1>a, <1>b, <2>1, <2>2, <3>2 DEF RequestsOK, u
    <3>6. NoRequestForgotten'
      <4>1. \A q \in Requests : answer[q] # <<>> => answer'[q] # <<>>
        BY <3>2, <3>3
      <4> QED
        BY <1>a, <1>b, <2>2, <3>2, <4>1 DEF NoRequestForgotten
    <3> QED
      BY <3>4, <3>5, <3>6
  <2>5. CASE v = None
    <3>1. /\ answer' = answer
          /\ result_requests_' = [result_requests_ EXCEPT ![u] = result_requests_[u] \cup {r}]
      BY <2>2, <2>5
    <3>2. AnswersAreFinal'
      BY <1>d, <2>2, <2>3, <3>1
    <3>3. \A w \in UUIDs : \A q \in result_requests_'[w] :
            q \in result_requests_[w] \/ (q = r /\ w = u)
      BY <1>a, <2>1, <3>1
    <3> HIDE DEF r, v
    <3>4. RequestsOK'
      BY <1>b, <2>2, <3>1, <3>3 DEF RequestsOK
    <3>5. NoRequestForgotten'
      BY <1>b, <2>2, <2>5, <3>1, <3>3 DEF NoRequestForgotten, v
    <3> QED
      BY <3>2, <3>4, <3>5
  <2> QED
    BY <2>4, <2>5
<1>4. ASSUME NEW t \in Threads, ExpireErase(t)
      PROVE  RequestsOK' /\ AnswersAreFinal' /\ NoRequestForgotten'
  <2> DEFINE u == UUIDOf[tgoal[t]]
  <2>1. /\ asked' = asked /\ answer' = answer
        /\ goal_results_' = [goal_results_ EXCEPT ![u] = None]
        /\ result_requests_' = [result_requests_ EXCEPT ![u] = {}]
    BY <1>4 DEF ExpireErase, msgVars
  <2> HIDE DEF u
  <2>2. \A w \in UUIDs : \/ goal_results_'[w] = None /\ result_requests_'[w] = {}
                         \/ /\ goal_results_'[w] = goal_results_[w]
                            /\ result_requests_'[w] = result_requests_[w]
    BY <1>a, <2>1
  <2>3. RequestsOK' /\ NoRequestForgotten'
    BY <1>b, <2>1, <2>2 DEF RequestsOK, NoRequestForgotten
  <2>4. /\ \A w \in UUIDs : goal_results_[w] # None => EndsAs(w, goal_results_[w])
        /\ \A q \in Requests : \A i \in 1..Len(answer[q]) :
             answer[q][i] # "UNKNOWN" => EndsAs(asked[q], answer[q][i])
    BY <1>b DEF AnswersAreFinal
  <2>5. AnswersAreFinal'
    BY <1>d, <2>1, <2>2, <2>4
  <2> QED
    BY <2>3, <2>5
<1>5. ASSUME NEW g \in Goals, PublishResultStore(g)
      PROVE  RequestsOK' /\ AnswersAreFinal' /\ NoRequestForgotten'
  <2> DEFINE u == UUIDOf[g]
             v == result_msg[g]
  <2>1. u \in UUIDs /\ v \in S /\ EndsAs(u, v)
    <3>1. gstate[g] \in TerminalStates /\ v = gstate[g]
      BY <1>5 DEF PublishResultStore, AnswerInv, CoreInv, ResultOK
    <3>2. gstate'[g] = gstate[g]
      BY <3>1, TerminalIsFinal DEF AnswerInv
    <3>3. EndsAs(u, v)
      BY <3>1, <3>2 DEF EndsAs
    <3> QED
      BY <1>a, <3>1, <3>3, ServerAssumption DEF S
  <2>2. /\ asked' = asked /\ result_requests_' = result_requests_
        /\ goal_results_' = [goal_results_ EXCEPT ![u] = v]
        /\ answer' = [r \in Requests |-> IF r \in result_requests_[u]
                                         THEN Append(answer[r], v) ELSE answer[r]]
    BY <1>5 DEF PublishResultStore
  <2> HIDE DEF u, v
  <2>3. /\ \A w \in UUIDs : goal_results_[w] # None => EndsAs(w, goal_results_[w])
        /\ \A q \in Requests : \A i \in 1..Len(answer[q]) :
             answer[q][i] # "UNKNOWN" => EndsAs(asked[q], answer[q][i])
    BY <1>b DEF AnswersAreFinal
  <2>4. ASSUME NEW r \in Requests
        PROVE  /\ \A i \in 1..Len(answer'[r]) :
                    answer'[r][i] # "UNKNOWN" => EndsAs(asked[r], answer'[r][i])
               /\ answer[r] # <<>> => answer'[r] # <<>>
               /\ r \in result_requests_[u] => answer'[r] # <<>>
    <3>1. CASE r \in result_requests_[u]
      <4>1. answer'[r] = Append(answer[r], v) /\ asked[r] = u
        BY <1>b, <2>1, <2>2, <3>1 DEF RequestsOK
      <4>2. answer'[r] # <<>>
        BY <1>a, <2>1, <4>1, AppendFacts
      <4> QED
        BY <1>c, <2>1, <4>1, <4>2
    <3>2. CASE r \notin result_requests_[u]
      BY <2>2, <2>3, <3>2
    <3> QED
      BY <3>1, <3>2
  <2>5. AnswersAreFinal'
    <3>1. \A w \in UUIDs : goal_results_'[w] # None => EndsAs(w, goal_results_'[w])
      BY <1>a, <2>1, <2>2, <2>3
    <3> QED
      BY <1>d, <2>2, <2>4, <3>1
  <2>6. RequestsOK'
    <3>1. \A r \in Requests : asked[r] = None => r \notin result_requests_[u]
      BY <1>a, <1>b, <2>1 DEF RequestsOK
    <3> QED
      BY <1>b, <2>2, <3>1 DEF RequestsOK
  <2>7. NoRequestForgotten'
    BY <1>a, <1>b, <2>1, <2>2, <2>4 DEF NoRequestForgotten
  <2> QED
    BY <2>5, <2>6, <2>7
<1> QED
  BY <1>1, <1>2, <1>3, <1>4, <1>5, AnswersUnchanged

LEMMA AnswerInvariant == Spec => []AnswerInv
<1>1. Init => AnswerInv
  <2>1. Init => RequestsOK /\ AnswersAreFinal /\ NoRequestForgotten
    BY DEF Init, RequestsOK, AnswersAreFinal, NoRequestForgotten
  <2> QED
    BY <2>1, InitCore DEF AnswerInv
<1>2. AnswerInv /\ [Next]_vars => AnswerInv'
  <2>1. ASSUME AnswerInv, Next
        PROVE  AnswerInv'
    BY <2>1, AnswerStep, CoreStep DEF AnswerInv
  <2>2. ASSUME AnswerInv, UNCHANGED vars
        PROVE  AnswerInv'
    <3>1. CoreInv'
      BY <2>2, CoreStep DEF AnswerInv
    <3>2. RequestsOK' /\ NoRequestForgotten'
      BY <2>2 DEF AnswerInv, RequestsOK, NoRequestForgotten, vars, mapVars, msgVars
    <3>3. UNCHANGED <<answer, asked, goal_results_, gstate>>
      BY <2>2 DEF vars, mapVars, msgVars, rclVars
    <3>4. AnswersAreFinal'
      BY <2>2, <3>3 DEF AnswerInv, AnswersAreFinal, EndedAs
    <3> QED
      BY <3>1, <3>2, <3>4 DEF AnswerInv
  <2> QED
    BY <2>1, <2>2
<1> QED
  BY <1>1, <1>2, PTL DEF Spec

\* A result the server keeps, and every result it sends, is the state in which a
\* goal of that id ended: publish_result and execute_result_request_received never
\* serve a state a goal was only passing through, whatever handlers, user threads
\* and expiry do in between.
THEOREM AnswersStayFinal == Spec => []AnswersAreFinal
<1>1. AnswerInv => AnswersAreFinal
  BY DEF AnswerInv
<1> QED
  BY <1>1, AnswerInvariant, PTL

\* Looking for a result and keeping the request in one critical section, and
\* storing the result and answering the kept requests in another, loses no request.
THEOREM RequestsNeverForgotten == Spec => []NoRequestForgotten
<1>1. AnswerInv => NoRequestForgotten
  BY DEF AnswerInv
<1> QED
  BY <1>1, AnswerInvariant, PTL

-----------------------------------------------------------------------------
(* The life of a goal handle and the expire timer *)

\* A handler between taking a goal request and registering the typed handle, and
\* a handler that holds a reference to the typed handle.
RegisterPCs == {"g_accept", "g_store", "g_execute", "g_status", "g_register"}

HolderPCs == {"g_user", "c_callback", "c_release"}

\* Until its handle is registered a goal is in one handler only, and nobody else
\* can reach it.
LifeOK ==
    /\ \A t \in Threads : pc[t] \in RegisterPCs =>
         upc[tgoal[t]] = "none" /\ goalResp[tgoal[t]] = "accepted"
    /\ \A s, t \in Threads :
         (s # t /\ pc[s] \in RegisterPCs /\ pc[t] \in RegisterPCs) => tgoal[s] # tgoal[t]
    /\ \A t \in Threads : pc[t] \in HolderPCs => upc[tgoal[t]] # "none"
    /\ \A g \in Goals : uref[g] => upc[g] # "none"
    /\ \A g \in Goals : goalResp[g] = "none" => upc[g] = "none"

\* A method under way means that the caller has a reference, and a destructor
\* under way that nobody has.
HandleOK ==
    \A g \in Goals : upc[g] \in {"none", "idle"} \/ uref[g] \/ Holders(g) = {}

\* The goal has ended, and rcl_action_notify_goal_done is still to come.
UnnotifiedPCs == {"t_exists", "t_store", "t_status", "t_notify"}

Armed == ~timer.canceled /\ timer.next =< now + Timeout

ArmedOK ==
    /\ \A g \in Goals : upc[g] = "none" => gstate[g] \notin TerminalStates
    /\ \A g \in goals : gstate[g] # "UNKNOWN"
    /\ \A g \in goals : (gstate[g] \in TerminalStates /\ upc[g] \notin UnnotifiedPCs) => Armed

ExpiryInv == CoreInv /\ LifeOK /\ HandleOK /\ ArmedOK

\* Where a goal's user code may move, and what a step of it means for the timer.
UpcStep(g) ==
    \/ upc'[g] = upc[g]
    \/ /\ upc[g] # "none" /\ upc'[g] # "none"
       /\ (upc[g] \in UnnotifiedPCs /\ upc'[g] \notin UnnotifiedPCs) =>
            g \notin goals
            \/ (_recalculate_expire_timer(goals) /\ UNCHANGED <<goals, now>>)
    \/ \E t \in Threads :
         pc[t] = "g_register" /\ tgoal[t] = g /\ pc'[t] = "g_user" /\ upc'[g] = "idle"

LEMMA UpcChange ==
    ASSUME CoreInv, LifeOK, HandleOK, Next
    PROVE  \A g \in Goals : UpcStep(g)
<1> USE DEF CoreInv, userVars
<1>a. /\ upc \in [Goals -> UserPCs] /\ pc \in [Threads -> HandlerPCs]
  BY DEF TypeOK
<1>b. ASSUME upc' = upc
      PROVE  \A g \in Goals : UpcStep(g)
  BY <1>b DEF UpcStep
<1>c. ASSUME NEW h \in Goals, upc[h] # "none", NEW p, p # "none",
             upc' = [upc EXCEPT ![h] = p],
             (upc[h] \in UnnotifiedPCs /\ p \notin UnnotifiedPCs) =>
               h \notin goals
               \/ (_recalculate_expire_timer(goals) /\ UNCHANGED <<goals, now>>)
      PROVE  \A g \in Goals : UpcStep(g)
  BY <1>a, <1>c DEF UpcStep
<1>1. ASSUME NEW t \in Threads, ThreadStep(t)
      PROVE  \A g \in Goals : UpcStep(g)
  <2>1. CASE AcceptedReturn(t) \/ CancelRelease(t)
    <3>1. tgoal[t] \in Goals /\ upc[tgoal[t]] # "none"
      BY <2>1 DEF AcceptedReturn, CancelRelease, LocalsOK, GoalPCs, LifeOK, HolderPCs
    <3>2. HoldsLast(t, tgoal[t]) => upc[tgoal[t]] = "idle"
      BY <3>1 DEF HoldsLast, HandleOK
    <3>3. \/ upc' = upc
          \/ HoldsLast(t, tgoal[t]) /\ upc' = [upc EXCEPT ![tgoal[t]] = "d_cancel"]
      BY <2>1 DEF AcceptedReturn, CancelRelease
    <3> QED
      BY <1>b, <1>c, <3>1, <3>2, <3>3 DEF UnnotifiedPCs
  <2>2. CASE GoalRegister(t)
    <3>1. /\ tgoal[t] \in Goals /\ pc[t] = "g_register"
          /\ upc' = [upc EXCEPT ![tgoal[t]] = "idle"]
          /\ pc' = [pc EXCEPT ![t] = "g_user"]
      BY <2>2 DEF GoalRegister, LocalsOK, GoalPCs, Goto
    <3>2. pc'[t] = "g_user"
      BY <1>a, <3>1
    <3> QED
      BY <1>a, <3>1, <3>2 DEF UpcStep
  <2>3. CASE GoalAccept(t) \/ GoalStore(t) \/ GoalExecute(t) \/ GoalPublishStatus(t)
    BY <1>b, <2>3 DEF GoalAccept, GoalStore, GoalExecute, GoalPublishStatus
  <2>4. CASE AcceptedDestroyed(t) \/ CancelDestroyed(t) \/ CancelRespond(t) \/ CancelCallback(t)
    BY <1>b, <2>4 DEF AcceptedDestroyed, CancelDestroyed, CancelRespond, CancelCallback
  <2>5. CASE \E u \in UUIDs : CancelLookup(t, u)
    BY <1>b, <2>5 DEF CancelLookup
  <2>6. CASE ResultLookup(t) \/ ExpireGoals(t) \/ ExpireErase(t)
    BY <1>b, <2>6 DEF ResultLookup, ExpireGoals, ExpireErase
  <2> QED
    BY <1>1, <2>1, <2>2, <2>3, <2>4, <2>5, <2>6 DEF ThreadStep
<1>2. ASSUME NEW t \in Threads, Take(t)
      PROVE  \A g \in Goals : UpcStep(g)
  BY <1>2, <1>b DEF Take, GoalRequestReceived, CancelRequestReceived,
                    ResultRequestReceived, ExpireTimerReady
<1>3. ASSUME NEW h \in Goals, UserStep(h)
      PROVE  \A g \in Goals : UpcStep(g)
  <2>1. CASE UserExecute(h)
    BY <1>c, <2>1 DEF UserExecute, UnnotifiedPCs
  <2>2. CASE UserDrop(h)
    BY <1>b, <1>c, <2>2 DEF UserDrop, UnnotifiedPCs
  <2>3. ASSUME NEW e, UserFinish(h, e)
        PROVE  \A g \in Goals : UpcStep(g)
    BY <1>c, <2>3 DEF UserFinish, UnnotifiedPCs
  <2>4. CASE DestroyHandle(h)
    BY <1>c, <2>4 DEF DestroyHandle, UnnotifiedPCs
  <2> QED
    BY <1>3, <2>1, <2>2, <2>3, <2>4 DEF UserStep
<1>4. ASSUME NEW h \in Goals, UserExecuteStatus(h) \/ TerminalStep(h)
      PROVE  \A g \in Goals : UpcStep(g)
  <2>1. CASE PublishResultExists(h)
    <3>1. h \in goals => rcl_action_server_goal_exists(UUIDOf[h])
      BY DEF rcl_action_server_goal_exists
    <3>2. \E p \in {"t_store", "idle", "terminated"} :
            /\ upc' = [upc EXCEPT ![h] = p]
            /\ p # "t_store" => h \notin goals
      BY <2>1, <3>1 DEF PublishResultExists
    <3>3. upc[h] # "none"
      BY <2>1 DEF PublishResultExists
    <3> QED
      BY <1>c, <3>2, <3>3 DEF UnnotifiedPCs
  <2>2. CASE PublishResultStore(h) \/ TerminalStatus(h)
    BY <1>c, <2>2 DEF PublishResultStore, TerminalStatus, UnnotifiedPCs
  <2>3. CASE NotifyGoalDone(h)
    BY <1>c, <2>3 DEF NotifyGoalDone
  <2>4. CASE TerminalErase(h) \/ UserExecuteStatus(h)
    BY <1>c, <2>4 DEF TerminalErase, UserExecuteStatus, UnnotifiedPCs
  <2> QED
    BY <1>4, <2>1, <2>2, <2>3, <2>4 DEF TerminalStep
<1>5. CASE Tick
  BY <1>b, <1>5 DEF Tick
<1> QED
  BY <1>1, <1>2, <1>3, <1>4, <1>5, NextCases

\* A reference to a handle is the user's from its registration on.
LEMMA UrefChange ==
    ASSUME CoreInv, Next
    PROVE  \A g \in Goals : uref'[g] => uref[g] \/ upc'[g] # "none"
<1> USE DEF CoreInv, userVars
<1>a. uref \in [Goals -> BOOLEAN] /\ upc \in [Goals -> UserPCs]
  BY DEF TypeOK
<1>1. ASSUME NEW t \in Threads, ThreadStep(t)
      PROVE  \A g \in Goals : uref'[g] => uref[g] \/ upc'[g] # "none"
  <2>1. CASE GoalRegister(t)
    <3>1. tgoal[t] \in Goals
      BY <2>1 DEF GoalRegister, LocalsOK, GoalPCs
    <3> QED
      BY <1>a, <2>1, <3>1 DEF GoalRegister
  <2>2. CASE AcceptedReturn(t) \/ CancelRelease(t) \/ AcceptedDestroyed(t) \/ CancelDestroyed(t)
    BY <2>2 DEF AcceptedReturn, CancelRelease, AcceptedDestroyed, CancelDestroyed
  <2>3. CASE GoalAccept(t) \/ GoalStore(t) \/ GoalExecute(t) \/ GoalPublishStatus(t)
    BY <2>3 DEF GoalAccept, GoalStore, GoalExecute, GoalPublishStatus
  <2>4. CASE CancelRespond(t) \/ CancelCallback(t)
    BY <2>4 DEF CancelRespond, CancelCallback
  <2>5. CASE \E u \in UUIDs : CancelLookup(t, u)
    BY <2>5 DEF CancelLookup
  <2>6. CASE ResultLookup(t) \/ ExpireGoals(t) \/ ExpireErase(t)
    BY <2>6 DEF ResultLookup, ExpireGoals, ExpireErase
  <2> QED
    BY <1>1, <2>1, <2>2, <2>3, <2>4, <2>5, <2>6 DEF ThreadStep
<1>2. ASSUME NEW t \in Threads, Take(t)
      PROVE  uref' = uref
  BY <1>2 DEF Take, GoalRequestReceived, CancelRequestReceived,
              ResultRequestReceived, ExpireTimerReady
<1>3. ASSUME NEW h \in Goals, UserStep(h)
      PROVE  \A g \in Goals : uref'[g] => uref[g] \/ upc'[g] # "none"
  BY <1>a, <1>3 DEF UserStep, UserExecute, UserFinish, UserDrop,
                    DestroyHandle
<1>4. ASSUME NEW h \in Goals, UserExecuteStatus(h) \/ TerminalStep(h)
      PROVE  uref' = uref
  BY <1>4 DEF UserExecuteStatus, TerminalStep, PublishResultExists, PublishResultStore,
              TerminalStatus, NotifyGoalDone, TerminalErase
<1>5. CASE Tick
  BY <1>5 DEF Tick
<1> QED
  BY <1>1, <1>2, <1>3, <1>4, <1>5, NextCases

\* How the program counters that matter to a goal handle move.
LEMMA ThreadStepPC ==
    ASSUME CoreInv, NEW t \in Threads, ThreadStep(t)
    PROVE  /\ pc'[t] \in RegisterPCs => pc[t] \in RegisterPCs /\ tgoal'[t] = tgoal[t]
           /\ pc'[t] \in HolderPCs =>
                \/ pc[t] \in HolderPCs /\ tgoal'[t] = tgoal[t]
                \/ pc[t] = "g_register" /\ tgoal'[t] = tgoal[t] /\ upc'[tgoal[t]] = "idle"
                \/ upc' = upc /\ tgoal'[t] \in Goals /\ Lockable(tgoal'[t])
<1> USE DEF Goto, GoalHandlerDone, RegisterPCs, HolderPCs
<1>a. /\ pc \in [Threads -> HandlerPCs] /\ tgoal \in [Threads -> Goals \cup {None}]
      /\ upc \in [Goals -> UserPCs]
  BY DEF CoreInv, TypeOK
<1>1. CASE GoalAccept(t) \/ GoalStore(t)
  BY <1>1, <1>a DEF GoalAccept, GoalStore
<1>2. CASE GoalExecute(t) \/ GoalPublishStatus(t)
  BY <1>2, <1>a DEF GoalExecute, GoalPublishStatus
<1>3. CASE GoalRegister(t)
  <2>1. tgoal[t] \in Goals
    BY <1>3 DEF GoalRegister, CoreInv, LocalsOK, GoalPCs
  <2> QED
    BY <1>3, <1>a, <2>1 DEF GoalRegister
<1>4. CASE AcceptedReturn(t) \/ AcceptedDestroyed(t)
  BY <1>4, <1>a DEF AcceptedReturn, AcceptedDestroyed
<1>5. ASSUME NEW u \in UUIDs, CancelLookup(t, u)
      PROVE  /\ pc'[t] \notin RegisterPCs
             /\ pc'[t] \in HolderPCs =>
                  upc' = upc /\ tgoal'[t] \in Goals /\ Lockable(tgoal'[t])
  <2>1. Lockable(typed_handles_[u]) => typed_handles_[u] \in Goals
    BY DEF Lockable, CoreInv, TypeOK
  <2> QED
    BY <1>5, <1>a, <2>1 DEF CancelLookup, userVars
<1>6. CASE CancelCallback(t)
  BY <1>6, <1>a DEF CancelCallback
<1>7. CASE CancelRelease(t) \/ CancelDestroyed(t) \/ CancelRespond(t)
  BY <1>7, <1>a DEF CancelRelease, CancelDestroyed, CancelRespond
<1>8. CASE ResultLookup(t) \/ ExpireGoals(t) \/ ExpireErase(t)
  BY <1>8, <1>a DEF ResultLookup, ExpireGoals, ExpireErase
<1> QED
  BY <1>1, <1>2, <1>3, <1>4, <1>5, <1>6, <1>7, <1>8 DEF ThreadStep

LEMMA TakePC ==
    ASSUME CoreInv, NEW t \in Threads, Take(t)
    PROVE  /\ pc'[t] \in {"idle", "g_accept", "c_next", "r_lookup", "e_expire"}
           /\ upc' = upc
<1> USE DEF Goto, threadVars, userVars, CanTake
<1>a. pc \in [Threads -> HandlerPCs]
  BY DEF CoreInv, TypeOK
<1>1. ASSUME NEW g \in Goals, GoalRequestReceived(t, g)
      PROVE  pc'[t] \in {"idle", "g_accept"} /\ upc' = upc
  BY <1>1, <1>a DEF GoalRequestReceived
<1>2. ASSUME NEW c \in Cancels, NEW u, NEW s, CancelRequestReceived(t, c, u, s)
      PROVE  pc'[t] = "c_next" /\ upc' = upc
  BY <1>2, <1>a DEF CancelRequestReceived
<1>3. ASSUME NEW r \in Requests, NEW u, ResultRequestReceived(t, r, u)
      PROVE  pc'[t] \in {"idle", "r_lookup"} /\ upc' = upc
  BY <1>3, <1>a DEF ResultRequestReceived
<1>4. ASSUME ExpireTimerReady(t)
      PROVE  pc'[t] = "e_expire" /\ upc' = upc
  BY <1>4, <1>a DEF ExpireTimerReady
<1> QED
  BY <1>1, <1>2, <1>3, <1>4 DEF Take

LEMMA HandleStep ==
    ASSUME CoreInv, LifeOK, HandleOK, Next
    PROVE  HandleOK'
<1> USE DEF threadVars, userVars
<1>a. /\ upc \in [Goals -> UserPCs] /\ uref \in [Goals -> BOOLEAN]
      /\ pc \in [Threads -> HandlerPCs]
      /\ \A t \in Threads : pc[t] \in GoalPCs => tgoal[t] \in Goals
  BY DEF CoreInv, TypeOK, LocalsOK
\* Nobody gets a reference, and user code stays where it is.
<1>b. ASSUME UNCHANGED <<uref, upc>>, \A g \in Goals : Holders(g)' \subseteq Holders(g)
      PROVE  HandleOK'
  BY <1>b DEF HandleOK
\* User code moves, with its reference or in the destructor.
<1>c. ASSUME UNCHANGED <<pc, tgoal, uref>>, NEW h \in Goals, NEW p,
             upc' = [upc EXCEPT ![h] = p],
             p = "idle" \/ uref[h] \/ upc[h] \notin {"none", "idle"}
      PROVE  HandleOK'
  <2>1. \A g \in Goals : Holders(g)' = Holders(g)
    BY <1>c DEF Holders
  <2> QED
    BY <1>a, <1>c, <2>1 DEF HandleOK
<1>1. ASSUME NEW t \in Threads, ThreadStep(t)
      PROVE  HandleOK'
  <2>a. \A s \in Threads : s # t => pc'[s] = pc[s] /\ tgoal'[s] = tgoal[s]
    BY <1>1, ThreadStepLocals DEF ThreadFrame
  <2>b. ASSUME pc'[t] \notin HolderPCs \/ (pc[t] \in HolderPCs /\ tgoal'[t] = tgoal[t])
        PROVE  \A g \in Goals : Holders(g)' \subseteq Holders(g)
    BY <2>a, <2>b DEF Holders, HolderPCs
  <2>1. CASE AcceptedReturn(t) \/ CancelRelease(t)
    <3>1. /\ tgoal[t] \in Goals /\ uref' = uref /\ pc'[t] \notin HolderPCs
          /\ \/ upc' = upc
             \/ HoldsLast(t, tgoal[t]) /\ upc' = [upc EXCEPT ![tgoal[t]] = "d_cancel"]
      BY <1>a, <2>1 DEF AcceptedReturn, CancelRelease, GoalPCs, HolderPCs, Goto,
                        GoalHandlerDone
    <3>2. \A g \in Goals : Holders(g)' \subseteq Holders(g) \ {t}
      BY <2>b, <3>1 DEF Holders, HolderPCs
    <3>3. CASE upc' = upc
      BY <1>b, <3>1, <3>2, <3>3
    <3>4. CASE HoldsLast(t, tgoal[t]) /\ upc' = [upc EXCEPT ![tgoal[t]] = "d_cancel"]
      <4>1. PICK h \in Goals : h = tgoal[t]
        BY <3>1
      <4>2. Holders(h)' = {}
        BY <3>2, <3>4, <4>1 DEF HoldsLast
      <4>3. \A g \in Goals : g # h => upc'[g] = upc[g]
        BY <1>a, <3>4, <4>1
      <4> QED
        BY <3>1, <3>2, <4>2, <4>3 DEF HandleOK
    <3> QED
      BY <3>1, <3>3, <3>4
  <2>2. CASE GoalRegister(t)
    <3>1. /\ tgoal[t] \in Goals /\ tgoal' = tgoal
          /\ upc' = [upc EXCEPT ![tgoal[t]] = "idle"]
          /\ uref' = [uref EXCEPT ![tgoal[t]] = TRUE]
      BY <1>a, <2>2 DEF GoalRegister, GoalPCs
    <3>2. \A g \in Goals : g # tgoal[t] => Holders(g)' = Holders(g)
      BY <2>a, <3>1 DEF Holders
    <3> QED
      BY <1>a, <3>1, <3>2 DEF HandleOK
  <2>3. ASSUME NEW u \in UUIDs, CancelLookup(t, u)
        PROVE  HandleOK'
    <3>1. UNCHANGED <<uref, upc>>
      BY <2>3 DEF CancelLookup
    <3>2. CASE pc' = pc /\ tgoal' = tgoal
      BY <1>b, <3>1, <3>2 DEF Holders
    <3>3. CASE Lockable(typed_handles_[u]) /\ tgoal' = [tgoal EXCEPT ![t] = typed_handles_[u]]
      <4>1. tgoal'[t] = typed_handles_[u]
        BY <3>3 DEF CoreInv, TypeOK
      <4>2. \A g \in Goals : g # typed_handles_[u] => Holders(g)' \subseteq Holders(g)
        BY <2>a, <4>1 DEF Holders
      <4> QED
        BY <3>1, <3>3, <4>2 DEF HandleOK, Lockable
    <3> QED
      BY <2>3, <3>2, <3>3 DEF CancelLookup
  <2>4. CASE GoalAccept(t) \/ GoalStore(t) \/ GoalExecute(t) \/ GoalPublishStatus(t)
    BY <1>a, <1>b, <2>4, <2>b
       DEF GoalAccept, GoalStore, GoalExecute, GoalPublishStatus, Goto, GoalHandlerDone, HolderPCs
  <2>5. CASE AcceptedDestroyed(t) \/ CancelDestroyed(t) \/ CancelRespond(t) \/ CancelCallback(t)
    BY <1>a, <1>b, <2>5, <2>b
       DEF AcceptedDestroyed, CancelDestroyed, CancelRespond, CancelCallback, Goto,
           GoalHandlerDone, HolderPCs
  <2>6. CASE ResultLookup(t) \/ ExpireGoals(t) \/ ExpireErase(t)
    BY <1>a, <1>b, <2>6, <2>b DEF ResultLookup, ExpireGoals, ExpireErase, Goto, HolderPCs
  <2> QED
    BY <1>1, <2>1, <2>2, <2>3, <2>4, <2>5, <2>6 DEF ThreadStep
<1>2. ASSUME NEW t \in Threads, Take(t)
      PROVE  HandleOK'
  <2>1. UNCHANGED <<uref, upc>>
    BY <1>2 DEF Take, GoalRequestReceived, CancelRequestReceived, ResultRequestReceived,
                ExpireTimerReady
  <2>2. \A g \in Goals : Holders(g)' \subseteq Holders(g)
    BY <1>2, TakeLocals, TakePC DEF ThreadFrame, Holders
  <2> QED
    BY <1>b, <2>1, <2>2
<1>3. ASSUME NEW h \in Goals, UserStep(h)
      PROVE  HandleOK'
  <2>1. CASE UserExecute(h)
    BY <1>c, <2>1 DEF UserExecute
  <2>2. ASSUME NEW e, UserFinish(h, e)
        PROVE  HandleOK'
    BY <1>c, <2>2 DEF UserFinish
  <2>3. CASE UserDrop(h)
    <3>1. \A g \in Goals : Holders(g)' = Holders(g)
      BY <2>3 DEF UserDrop, Holders
    <3> QED
      BY <1>a, <2>3, <3>1 DEF UserDrop, HandleOK
  <2>4. CASE DestroyHandle(h)
    BY <1>c, <2>4 DEF DestroyHandle
  <2> QED
    BY <1>3, <2>1, <2>2, <2>3, <2>4 DEF UserStep
<1>4. ASSUME NEW h \in Goals, UserExecuteStatus(h) \/ TerminalStep(h)
      PROVE  HandleOK'
  <2>1. CASE UserExecuteStatus(h) \/ TerminalErase(h)
    BY <1>c, <2>1 DEF UserExecuteStatus, TerminalErase
  <2>2. CASE PublishResultExists(h) \/ PublishResultStore(h)
    BY <1>c, <2>2 DEF PublishResultExists, PublishResultStore
  <2>3. CASE TerminalStatus(h) \/ NotifyGoalDone(h)
    BY <1>c, <2>3 DEF TerminalStatus, NotifyGoalDone
  <2> QED
    BY <1>4, <2>1, <2>2, <2>3 DEF TerminalStep
<1>5. CASE Tick
  BY <1>5, <1>b DEF Tick, Holders
<1> QED
  BY <1>1, <1>2, <1>3, <1>4, <1>5, NextCases

LEMMA LifeStep ==
    ASSUME CoreInv, LifeOK, HandleOK, Next
    PROVE  LifeOK'
<1>a. \A g \in Goals : UpcStep(g)
  BY UpcChange
<1>b. \A g \in Goals : upc[g] # "none" => upc'[g] # "none"
  BY <1>a DEF UpcStep
<1>c. \A g \in Goals : uref'[g] => upc'[g] # "none"
  BY <1>b, UrefChange DEF LifeOK
<1>d. /\ goalResp \in [Goals -> {"none", "accepted", "rejected", "lost"}]
      /\ \A t \in Threads : pc[t] \in RegisterPCs \cup HolderPCs => tgoal[t] \in Goals
  BY DEF CoreInv, TypeOK, LocalsOK, GoalPCs, RegisterPCs, HolderPCs
\* A goal that stays in its handler stays out of everybody else's reach.
<1>e. ASSUME NEW t \in Threads, pc[t] \in RegisterPCs, pc'[t] \in RegisterPCs
      PROVE  upc'[tgoal[t]] = "none"
  <2>1. upc[tgoal[t]] = "none" /\ tgoal[t] \in Goals
    BY <1>d, <1>e DEF LifeOK
  <2>2. ~\E s \in Threads : /\ pc[s] = "g_register" /\ tgoal[s] = tgoal[t]
                            /\ pc'[s] = "g_user"
    BY <1>e DEF LifeOK, RegisterPCs
  <2> QED
    BY <1>a, <2>1, <2>2 DEF UpcStep
<1>f. \A g \in Goals : goalResp[g] = "none" => upc'[g] = "none"
  <2>1. SUFFICES ASSUME NEW g \in Goals, goalResp[g] = "none"
                 PROVE  upc'[g] = "none"
    OBVIOUS
  <2>2. upc[g] = "none" /\ ~\E s \in Threads : pc[s] = "g_register" /\ tgoal[s] = g
    BY <2>1 DEF LifeOK, RegisterPCs
  <2> QED
    BY <1>a, <2>2 DEF UpcStep
\* No goal enters a handler: the goals in handlers are those before.
<1>g. ASSUME goalResp' = goalResp,
             \A t \in Threads : pc'[t] \in RegisterPCs =>
               pc[t] \in RegisterPCs /\ tgoal'[t] = tgoal[t],
             \A t \in Threads : pc'[t] \in HolderPCs => upc'[tgoal'[t]] # "none"
      PROVE  LifeOK'
  <2>1. \A t \in Threads : pc'[t] \in RegisterPCs =>
          upc'[tgoal'[t]] = "none" /\ goalResp'[tgoal'[t]] = "accepted"
    BY <1>e, <1>g DEF LifeOK
  <2>2. \A s, t \in Threads :
          (s # t /\ pc'[s] \in RegisterPCs /\ pc'[t] \in RegisterPCs) => tgoal'[s] # tgoal'[t]
    BY <1>g DEF LifeOK
  <2>3. \A g \in Goals : goalResp'[g] = "none" => upc'[g] = "none"
    BY <1>f, <1>g
  <2> QED
    BY <1>c, <1>g, <2>1, <2>2, <2>3 DEF LifeOK
<1>1. ASSUME UNCHANGED <<pc, tgoal, treq, tcode, asked, goalResp>>
      PROVE  LifeOK'
  <2>1. \A t \in Threads : pc'[t] \in HolderPCs => upc'[tgoal'[t]] # "none"
    BY <1>1, <1>b, <1>d DEF LifeOK
  <2> QED
    BY <1>1, <1>g, <2>1
<1>2. ASSUME NEW t \in Threads, ThreadStep(t)
      PROVE  LifeOK'
  <2>1. /\ \A s \in Threads : s # t => pc'[s] = pc[s] /\ tgoal'[s] = tgoal[s]
        /\ goalResp' = goalResp
    BY <1>2, ThreadStepLocals DEF ThreadFrame
  <2>2. \A s \in Threads : pc'[s] \in RegisterPCs =>
          pc[s] \in RegisterPCs /\ tgoal'[s] = tgoal[s]
    BY <1>2, <2>1, ThreadStepPC
  <2>3. pc'[t] \in HolderPCs => upc'[tgoal'[t]] # "none"
    <3>1. CASE pc[t] \in HolderPCs /\ tgoal'[t] = tgoal[t]
      BY <1>b, <1>d, <3>1 DEF LifeOK
    <3>2. CASE pc[t] = "g_register" /\ tgoal'[t] = tgoal[t] /\ upc'[tgoal[t]] = "idle"
      BY <3>2
    <3>3. CASE upc' = upc /\ tgoal'[t] \in Goals /\ Lockable(tgoal'[t])
      BY <3>3 DEF LifeOK, Lockable, Holders, HolderPCs
    <3> QED
      BY <1>2, <3>1, <3>2, <3>3, ThreadStepPC
  <2>4. \A s \in Threads : s # t /\ pc'[s] \in HolderPCs => upc'[tgoal'[s]] # "none"
    BY <1>b, <1>d, <2>1 DEF LifeOK
  <2> QED
    BY <1>g, <2>1, <2>2, <2>3, <2>4
<1>3. ASSUME NEW t \in Threads, Take(t)
      PROVE  LifeOK'
  <2>1. /\ \A s \in Threads : s # t => pc'[s] = pc[s] /\ tgoal'[s] = tgoal[s]
        /\ \/ goalResp' = goalResp /\ pc'[t] # "g_accept"
           \/ \E g \in Goals :
                /\ goalResp[g] = "none"
                /\ \E v \in {"rejected", "lost", "accepted"} :
                     goalResp' = [goalResp EXCEPT ![g] = v]
                /\ pc'[t] = "g_accept" => tgoal'[t] = g /\ goalResp'[g] = "accepted"
    BY <1>3, TakeLocals DEF ThreadFrame
  <2>2. pc'[t] \notin HolderPCs /\ (pc'[t] \in RegisterPCs => pc'[t] = "g_accept")
    BY <1>3, TakePC DEF HolderPCs, RegisterPCs
  <2>3. \A s \in Threads : pc'[s] \in HolderPCs => upc'[tgoal'[s]] # "none"
    BY <1>b, <1>d, <2>1, <2>2 DEF LifeOK
  <2>4. CASE goalResp' = goalResp /\ pc'[t] # "g_accept"
    BY <1>g, <2>1, <2>2, <2>3, <2>4
  <2>5. CASE ~(goalResp' = goalResp /\ pc'[t] # "g_accept")
    <3>1. PICK g \in Goals :
            /\ goalResp[g] = "none"
            /\ \E v \in {"rejected", "lost", "accepted"} :
                 goalResp' = [goalResp EXCEPT ![g] = v]
            /\ pc'[t] = "g_accept" => tgoal'[t] = g /\ goalResp'[g] = "accepted"
      BY <2>1, <2>5
    <3>2. /\ \A h \in Goals : h # g => goalResp'[h] = goalResp[h]
          /\ goalResp'[g] # "none"
      BY <1>d, <3>1
    <3>3. \A s \in Threads : pc[s] \in RegisterPCs => tgoal[s] \in Goals /\ tgoal[s] # g
      BY <1>d, <3>1 DEF LifeOK
    <3>4. ASSUME NEW s \in Threads, pc'[s] \in RegisterPCs
          PROVE  upc'[tgoal'[s]] = "none" /\ goalResp'[tgoal'[s]] = "accepted"
      <4>1. CASE s = t
        BY <1>f, <2>2, <3>1, <3>4, <4>1
      <4>2. CASE s # t
        BY <1>e, <2>1, <3>2, <3>3, <3>4, <4>2 DEF LifeOK
      <4> QED
        BY <4>1, <4>2
    <3>5. \A r, s \in Threads :
            (r # s /\ pc'[r] \in RegisterPCs /\ pc'[s] \in RegisterPCs) => tgoal'[r] # tgoal'[s]
      BY <2>1, <2>2, <3>1, <3>3 DEF LifeOK
    <3>6. \A h \in Goals : goalResp'[h] = "none" => upc'[h] = "none"
      BY <1>f, <3>2
    <3> QED
      BY <1>c, <2>3, <3>4, <3>5, <3>6 DEF LifeOK
  <2> QED
    BY <2>4, <2>5
<1> QED
  BY <1>1, <1>2, <1>3, OtherLocals, NextCases

\* _recalculate_expire_timer leaves the timer armed for every goal that has ended.
LEMMA RecalculateArms ==
    ASSUME TypeOK, NEW gs, _recalculate_expire_timer(gs), NEW g \in gs, ~IsActive(g)
    PROVE  ~timer'.canceled /\ timer'.next =< now + Timeout
<1>1. timer \in ExpireTimerType /\ now \in Int /\ Timeout \in Nat
  BY ServerAssumption DEF TypeOK
<1>2. PICK p \in 0..Timeout :
        timer' = rcl_timer_exchange_period(rcl_timer_reset(timer, now), p)
  BY DEF _recalculate_expire_timer
<1>3. timer' = [[timer EXCEPT !.next = now + timer.period, !.canceled = FALSE]
                  EXCEPT !.period = p]
  BY <1>2 DEF rcl_timer_exchange_period, rcl_timer_reset
<1>4. timer'.next = now + timer.period /\ timer'.canceled = FALSE
  BY <1>1, <1>3 DEF ExpireTimerType
<1> QED
  BY <1>1, <1>4 DEF ExpireTimerType

\* What a step does to the set of goals, the clock and the timer.
LEMMA TimerStep ==
    ASSUME CoreInv, Next
    PROVE  /\ \A g \in goals' : g \in goals \/ gstate'[g] = "ACCEPTED"
           /\ \/ timer' = timer /\ now' \in Int /\ now =< now'
              \/ /\ _recalculate_expire_timer(goals')
                 /\ now' = now /\ gstate' = gstate
<1> USE DEF rclVars
<1>a. now \in Int /\ goals \subseteq Goals /\ gstate \in [Goals -> GoalStates]
  BY DEF CoreInv, TypeOK
<1>b. ASSUME UNCHANGED <<now, goals, timer>>
      PROVE  /\ \A g \in goals' : g \in goals \/ gstate'[g] = "ACCEPTED"
             /\ timer' = timer /\ now' \in Int /\ now =< now'
  BY <1>a, <1>b
<1>1. ASSUME NEW t \in Threads, ThreadStep(t)
      PROVE  /\ \A g \in goals' : g \in goals \/ gstate'[g] = "ACCEPTED"
             /\ \/ timer' = timer /\ now' \in Int /\ now =< now'
                \/ /\ _recalculate_expire_timer(goals')
                   /\ now' = now /\ gstate' = gstate
  <2>1. CASE GoalAccept(t)
    <3>1. tgoal[t] \in Goals
      BY <2>1 DEF GoalAccept, CoreInv, LocalsOK, GoalPCs
    <3>2. timer' = timer /\ now' = now
      BY <2>1 DEF GoalAccept
    <3>3. \A g \in goals' : g \in goals \/ gstate'[g] = "ACCEPTED"
      BY <1>a, <2>1, <3>1 DEF GoalAccept
    <3> QED
      BY <1>a, <3>2, <3>3
  <2>2. CASE ExpireGoals(t)
    BY <2>2 DEF ExpireGoals
  <2>3. CASE GoalStore(t) \/ GoalExecute(t) \/ GoalPublishStatus(t) \/ GoalRegister(t)
    BY <1>b, <2>3 DEF GoalStore, GoalExecute, GoalPublishStatus, GoalRegister
  <2>4. CASE AcceptedReturn(t) \/ CancelRelease(t) \/ AcceptedDestroyed(t) \/ CancelDestroyed(t)
    BY <1>b, <2>4 DEF AcceptedReturn, CancelRelease, AcceptedDestroyed, CancelDestroyed
  <2>5. CASE CancelRespond(t) \/ CancelCallback(t)
    BY <1>b, <2>5 DEF CancelRespond, CancelCallback
  <2>6. CASE \E u \in UUIDs : CancelLookup(t, u)
    BY <1>b, <2>6 DEF CancelLookup
  <2>7. CASE ResultLookup(t) \/ ExpireErase(t)
    BY <1>b, <2>7 DEF ResultLookup, ExpireErase
  <2> QED
    BY <1>1, <2>1, <2>2, <2>3, <2>4, <2>5, <2>6, <2>7 DEF ThreadStep
<1>2. ASSUME NEW t \in Threads, Take(t)
      PROVE  UNCHANGED <<now, goals, timer>>
  BY <1>2 DEF Take, GoalRequestReceived, CancelRequestReceived,
              ResultRequestReceived, ExpireTimerReady
<1>3. ASSUME NEW h \in Goals, UserStep(h)
      PROVE  UNCHANGED <<now, goals, timer>>
  BY <1>3 DEF UserStep, UserExecute, UserFinish, UserDrop,
              DestroyHandle
<1>4. ASSUME NEW h \in Goals, UserExecuteStatus(h) \/ TerminalStep(h)
      PROVE  \/ UNCHANGED <<now, goals, timer>>
             \/ /\ _recalculate_expire_timer(goals')
                /\ now' = now /\ gstate' = gstate /\ goals' = goals
  <2>1. CASE NotifyGoalDone(h)
    BY <2>1 DEF NotifyGoalDone
  <2>2. CASE ~NotifyGoalDone(h)
    BY <1>4, <2>2 DEF UserExecuteStatus, TerminalStep, PublishResultExists,
                      PublishResultStore, TerminalStatus, TerminalErase
  <2> QED
    BY <2>1, <2>2
<1>5. CASE Tick
  BY <1>a, <1>5 DEF Tick
<1> QED
  BY <1>b, <1>1, <1>2, <1>3, <1>4, <1>5, NextCases

LEMMA ArmedStep ==
    ASSUME ExpiryInv, Next
    PROVE  ArmedOK'
<1> USE DEF ExpiryInv
<1>a. /\ \A g \in Goals : StateStep(g) /\ UpcStep(g)
      /\ goals \subseteq Goals /\ gstate \in [Goals -> GoalStates]
  BY StateChange, UpcChange DEF CoreInv, TypeOK
<1>b. \A g \in Goals : \A t \in Threads :
        pc[t] = "g_register" /\ tgoal[t] = g => upc[g] = "none"
  BY DEF LifeOK, RegisterPCs
<1>1. \A g \in Goals : upc'[g] = "none" => gstate'[g] \notin TerminalStates
  BY <1>a, StatesDisjoint DEF ArmedOK, UpcStep, StateStep, TerminalStates
<1>2. \A g \in goals' : gstate'[g] # "UNKNOWN"
  <2>1. "ACCEPTED" # "UNKNOWN"
    OBVIOUS
  <2> QED
    BY <1>a, <2>1, TimerStep, StatesDisjoint DEF ArmedOK, StateStep
<1>3. ASSUME NEW g \in goals', gstate'[g] \in TerminalStates, upc'[g] \notin UnnotifiedPCs
      PROVE  Armed'
  <2>1. g \in goals /\ g \in Goals
    BY <1>a, <1>3, TimerStep DEF TerminalStates
  <2>2. gstate[g] = gstate'[g]
    <3>1. "ACCEPTED" \notin TerminalStates /\ upc'[g] # "t_exists"
      BY <1>3 DEF TerminalStates, UnnotifiedPCs
    <3> QED
      BY <1>3, <1>a, <2>1, <3>1, StatesDisjoint DEF StateStep
  <2>3. ~IsActive(g)
    BY <1>3, <2>2, StatesDisjoint DEF IsActive, rcl_action_goal_handle_is_active
  <2>4. CASE _recalculate_expire_timer(goals') /\ now' = now
    BY <1>3, <2>3, <2>4, RecalculateArms DEF CoreInv, Armed
  <2>5. CASE ~(_recalculate_expire_timer(goals') /\ now' = now)
    <3>1. timer' = timer /\ now' \in Int /\ now =< now'
      BY <2>5, TimerStep
    <3>2. upc[g] \notin UnnotifiedPCs
      <4>1. CASE upc'[g] = upc[g]
        BY <1>3, <4>1
      <4>2. CASE \E t \in Threads : pc[t] = "g_register" /\ tgoal[t] = g
        BY <1>b, <2>1, <4>2 DEF UnnotifiedPCs
      <4>3. CASE _recalculate_expire_timer(goals) /\ UNCHANGED <<goals, now>>
        BY <2>5, <4>3
      <4> QED
        BY <1>3, <1>a, <2>1, <4>1, <4>2, <4>3 DEF UpcStep
    <3>3. Armed
      BY <1>3, <2>1, <2>2, <3>2 DEF ArmedOK
    <3>4. now \in Int /\ Timeout \in Nat /\ timer.next \in Int
      BY ServerAssumption DEF CoreInv, TypeOK, ExpireTimerType
    <3> QED
      BY <3>1, <3>3, <3>4 DEF Armed
  <2> QED
    BY <2>4, <2>5
<1> QED
  BY <1>1, <1>2, <1>3 DEF ArmedOK

\* Whenever a goal whose end was notified is still tracked the expire timer is
\* armed and due within one timeout.  It needs the strengthening: a goal is out of
\* everybody's reach until its handle is registered, so registration never finds it
\* already ended, and the timer is armed from rcl_action_notify_goal_done on.
THEOREM ExpiryStaysArmed == Spec => []ExpiryArmed
<1>1. Init => ExpiryInv
  <2>1. Init => LifeOK /\ HandleOK /\ ArmedOK
    BY DEF Init, LifeOK, HandleOK, ArmedOK, RegisterPCs, HolderPCs, TerminalStates
  <2> QED
    BY <2>1, InitCore DEF ExpiryInv
<1>2. ExpiryInv /\ [Next]_vars => ExpiryInv'
  <2>1. ASSUME ExpiryInv, Next
        PROVE  ExpiryInv'
    BY <2>1, CoreStep, LifeStep, HandleStep, ArmedStep DEF ExpiryInv
  <2>2. ASSUME ExpiryInv, UNCHANGED vars
        PROVE  ExpiryInv'
    <3>1. CoreInv'
      BY <2>2, CoreStep DEF ExpiryInv
    <3>2. UNCHANGED <<pc, tgoal, upc, uref, goalResp, gstate, goals, timer, now>>
      BY <2>2 DEF vars, rclVars, threadVars, userVars, msgVars
    <3>3. LifeOK'
      BY <2>2, <3>2 DEF ExpiryInv, LifeOK
    <3>4. ArmedOK'
      BY <2>2, <3>2 DEF ExpiryInv, ArmedOK, Armed
    <3>5. HandleOK'
      BY <2>2, <3>2 DEF ExpiryInv, HandleOK, Holders
    <3> QED
      BY <3>1, <3>3, <3>4, <3>5 DEF ExpiryInv
  <2> QED
    BY <2>1, <2>2
<1>3. ExpiryInv => ExpiryArmed
  <2> SUFFICES ASSUME ExpiryInv, NEW g \in goals, ~IsActive(g), upc[g] \notin TerminalPCs
               PROVE  ~timer.canceled /\ timer.next =< now + Timeout
    BY DEF ExpiryArmed
  <2>1. gstate[g] \in GoalStates /\ gstate[g] # "UNKNOWN"
    BY DEF ExpiryInv, CoreInv, TypeOK, ArmedOK
  <2>2. gstate[g] \in TerminalStates
    BY <2>1 DEF IsActive, rcl_action_goal_handle_is_active, GoalStates
  <2> QED
    BY <2>2 DEF ExpiryInv, ArmedOK, Armed, UnnotifiedPCs, TerminalPCs
<1> QED
  BY <1>1, <1>2, <1>3, PTL DEF Spec

=============================================================================
