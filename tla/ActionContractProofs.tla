------------------------ MODULE ActionContractProofs ------------------------
(***************************************************************************)
(* Proofs about ActionServer that build on those of ActionServerProofs:    *)
(* the status topic, the requests for results and to cancel, the owners of *)
(* goal handles, and that the server implements ActionContract.  Some need *)
(* goal ids that differ (Unique) or a mutually exclusive callback group.   *)
(***************************************************************************)
EXTENDS MCActionServer, ActionServerProofs

\* Every client draws a fresh goal id.
Unique == \A g, h \in Goals : UUIDOf[g] = UUIDOf[h] => g = h

-----------------------------------------------------------------------------
(* The inductive invariants *)

\* The handler, method or destructor that changed the state of g has not yet
\* published it.
PendingFor(g) ==
    \/ \E t \in Threads : tgoal[t] = g /\ pc[t] \in {"g_store", "g_execute", "g_status"}
    \/ \E t \in Threads : UUIDOf[g] \in tok[t]
    \/ upc[g] \in {"x_status", "t_exists", "t_store", "t_status"}

\* Until its handle is registered nobody else moves the goal.
StatusInv ==
    /\ \A t \in Threads : pc[t] \in {"g_store", "g_execute"} => gstate[tgoal[t]] = "ACCEPTED"
    /\ \A g \in goals : status[g] = gstate[g] \/ PendingFor(g)

\* The result of g has been published, or never will be.
Published(g) == gstate[g] \in TerminalStates /\ upc[g] \notin {"t_exists", "t_store"}

Looking(t, r) == pc[t] = "r_lookup" /\ treq[t] = r

\* A request is in one place: with a handler, kept, or answered; a request
\* that is still kept although it was answered is not answered again.
OnceInv ==
    /\ \A r \in Requests : Len(answer[r]) <= 1
    /\ \A r \in Requests : asked[r] = None =>
           \A t \in Threads : ~Looking(t, r)
    /\ \A s, t \in Threads, r \in Requests : Looking(s, r) /\ Looking(t, r) => s = t
    /\ \A t \in Threads, r \in Requests : Looking(t, r) =>
           answer[r] = <<>> /\ \A u \in UUIDs : r \notin result_requests_[u]
    /\ \A u \in UUIDs : \A r \in result_requests_[u] :
           answer[r] # <<>> => \A g \in Goals : UUIDOf[g] = u => Published(g)

\* The ids the response to c says are canceling.
Canceled(c) == IF cancelResp[c] = None THEN {} ELSE cancelResp[c].goals

CancelInv ==
    /\ \A c \in Cancels : cancelReq[c] = None =>
           cancelResp[c] = None /\ \A t \in Threads : pc[t] \in CancelPCs => treq[t] # c
    /\ \A s, t \in Threads : pc[s] \in CancelPCs /\ pc[t] \in CancelPCs /\ s # t => treq[s] # treq[t]
    /\ \A t \in Threads : pc[t] \in CancelPCs => cancelResp[treq[t]] = None
    /\ \A t \in Threads : pc[t] \notin CancelPCs => tok[t] = {}
    /\ \A g \in Goals : gstate[g] \notin {"CANCELING"} \cup TerminalStates =>
           /\ \A t \in Threads : UUIDOf[g] \notin tok[t]
           /\ \A c \in Cancels : UUIDOf[g] \notin Canceled(c)
    /\ \A s, t \in Threads : s # t => tok[s] \cap tok[t] = {}
    /\ \A t \in Threads, c \in Cancels : tok[t] \cap Canceled(c) = {}
    /\ \A c, d \in Cancels : c # d => Canceled(c) \cap Canceled(d) = {}

\* The handle of a tracked goal is in goal_handles_ or on the way to it.
OwnInv ==
    /\ \A t \in Threads : pc[t] = "e_erase" =>
           tgoal[t] \notin goals /\ gstate[tgoal[t]] \in TerminalStates
    /\ \A g \in goals :
           \/ goal_handles_[UUIDOf[g]] = g
           \/ \E t \in Threads : pc[t] = "g_store" /\ tgoal[t] = g

\* What became of a goal that was accepted.
KnownInv ==
    \A g \in Goals : goalResp[g] = "accepted" =>
        \/ g \in thrown \cup goals
        \/ gstate[g] \in TerminalStates
        \/ \E t \in Threads : pc[t] = "g_accept" /\ tgoal[t] = g

-----------------------------------------------------------------------------
(* The status topic *)

LEMMA Types ==
    ASSUME CoreInv
    PROVE  /\ goals \subseteq Goals /\ gstate \in [Goals -> GoalStates]
           /\ pc \in [Threads -> HandlerPCs] /\ tgoal \in [Threads -> Goals \cup {None}]
           /\ treq \in [Threads -> Requests \cup Cancels \cup {None}]
           /\ tlist \in [Threads -> SUBSET UUIDs] /\ tok \in [Threads -> SUBSET UUIDs]
           /\ upc \in [Goals -> UserPCs] /\ status \in [Goals -> GoalStates]
           /\ UUIDOf \in [Goals -> UUIDs]
           /\ \A t \in Threads : pc[t] \in GoalPCs => tgoal[t] \in Goals
  BY ServerAssumption DEF CoreInv, TypeOK, LocalsOK

\* What a step has to do for the goals the server tracks afterwards.
StatusKept ==
    \A g \in goals' :
        \/ status'[g] = gstate'[g]
        \/ PendingFor(g)'
        \/ /\ g \in goals /\ status'[g] = status[g] /\ gstate'[g] = gstate[g]
           /\ PendingFor(g) => PendingFor(g)'

\* publish_status shows every tracked goal as it is.
LEMMA PublishedStatus ==
    ASSUME CoreInv, publish_status, goals' = goals, gstate' = gstate
    PROVE  StatusKept
  BY Types DEF publish_status, StatusKept

LEMMA StatusThreadStep ==
    ASSUME CoreInv, LifeOK, HandleOK, StatusInv, NEW t \in Threads, ThreadStep(t)
    PROVE  StatusKept
<1> USE DEF StatusKept, PendingFor, rclVars, msgVars, userVars, Goto, GoalHandlerDone
<1>1. CASE GoalAccept(t)
  BY <1>1, Types DEF GoalAccept, GoalPCs
<1>2. CASE GoalStore(t)
  BY <1>2, Types DEF GoalStore, GoalPCs
<1>3. CASE GoalExecute(t)
  BY <1>3, Types DEF GoalExecute, GoalPCs, StatusInv, rcl_action_update_goal_state_ok,
                     rcl_action_transition_goal_state
<1>4. CASE GoalPublishStatus(t)
  BY <1>4, PublishedStatus DEF GoalPublishStatus
<1>5. CASE GoalRegister(t)
  BY <1>5, Types DEF GoalRegister, GoalPCs, LifeOK, RegisterPCs
<1>6. CASE AcceptedReturn(t)
  <2>1. HoldsLast(t, tgoal[t]) => upc[tgoal[t]] \in {"none", "idle"}
    BY <1>6, Types DEF AcceptedReturn, GoalPCs, HoldsLast, HandleOK
  <2> QED
    BY <1>6, <2>1, Types DEF AcceptedReturn, GoalPCs
<1>7. CASE AcceptedDestroyed(t)
  BY <1>7, Types DEF AcceptedDestroyed, GoalPCs
<1>8. CASE \E u \in UUIDs : CancelLookup(t, u)
  BY <1>8, Types DEF CancelLookup, GoalPCs
<1>9. CASE CancelCallback(t)
  BY <1>9, Types DEF CancelCallback, GoalPCs
<1>10. CASE CancelRelease(t)
  <2>1. HoldsLast(t, tgoal[t]) => upc[tgoal[t]] \in {"none", "idle"}
    BY <1>10, Types DEF CancelRelease, GoalPCs, HoldsLast, HandleOK
  <2> QED
    BY <1>10, <2>1, Types DEF CancelRelease, GoalPCs
<1>11. CASE CancelDestroyed(t)
  BY <1>11, Types DEF CancelDestroyed, GoalPCs
<1>12. CASE CancelRespond(t)
  <2>1. CASE publish_status
    BY <1>12, <2>1, PublishedStatus DEF CancelRespond
  <2>2. CASE tok[t] = {}
    BY <1>12, <2>2, Types DEF CancelRespond
  <2> QED
    BY <1>12, <2>1, <2>2 DEF CancelRespond
<1>13. CASE ResultLookup(t)
  BY <1>13, Types DEF ResultLookup
<1>14. CASE ExpireGoals(t)
  BY <1>14, Types DEF ExpireGoals
<1>15. CASE ExpireErase(t)
  BY <1>15, Types DEF ExpireErase, GoalPCs
<1> QED
  BY <1>1, <1>2, <1>3, <1>4, <1>5, <1>6, <1>7, <1>8, <1>9, <1>10, <1>11, <1>12, <1>13,
     <1>14, <1>15 DEF ThreadStep

LEMMA StatusOtherStep ==
    ASSUME CoreInv, LifeOK, StatusInv, Next, \A t \in Threads : ~ThreadStep(t)
    PROVE  StatusKept
<1> USE DEF StatusKept, PendingFor, rclVars, msgVars, userVars, threadVars, Goto
<1>1. ASSUME NEW t \in Threads, Take(t)
      PROVE  StatusKept
  <2>0. CanTake(t) => pc[t] = "idle"
    BY DEF CanTake
  <2>1. ASSUME NEW g \in Goals, GoalRequestReceived(t, g) PROVE StatusKept
    BY <2>0, <2>1, Types DEF GoalRequestReceived
  <2>2. ASSUME NEW c \in Cancels, NEW u \in UUIDs \cup {None}, NEW s \in CancelStamps,
               CancelRequestReceived(t, c, u, s) PROVE StatusKept
    BY <2>0, <2>2, Types DEF CancelRequestReceived
  <2>3. ASSUME NEW r \in Requests, NEW u \in UUIDs, ResultRequestReceived(t, r, u)
        PROVE  StatusKept
    BY <2>0, <2>3, Types DEF ResultRequestReceived
  <2>4. CASE ExpireTimerReady(t)
    BY <2>0, <2>4, Types DEF ExpireTimerReady
  <2> QED
    BY <1>1, <2>1, <2>2, <2>3, <2>4 DEF Take
<1>2. ASSUME NEW h \in Goals, UserStep(h)
      PROVE  StatusKept
  <2>1. CASE UserExecute(h)
    BY <2>1, Types DEF UserExecute
  <2>2. CASE UserDrop(h)
    BY <2>2, Types DEF UserDrop
  <2>3. ASSUME NEW e, UserFinish(h, e)
        PROVE  StatusKept
    BY <2>3, Types DEF UserFinish
  <2>4. CASE DestroyHandle(h)
    BY <2>4, Types DEF DestroyHandle
  <2> QED
    BY <1>2, <2>1, <2>2, <2>3, <2>4 DEF UserStep
<1>3. ASSUME NEW h \in Goals, UserExecuteStatus(h) \/ TerminalStatus(h)
      PROVE  StatusKept
  BY <1>3, PublishedStatus DEF UserExecuteStatus, TerminalStatus
<1>4. ASSUME NEW h \in Goals, PublishResultExists(h)
      PROVE  StatusKept
  BY <1>4, Types DEF PublishResultExists, rcl_action_server_goal_exists
<1>5. ASSUME NEW h \in Goals, PublishResultStore(h) \/ NotifyGoalDone(h) \/ TerminalErase(h)
      PROVE  StatusKept
  BY <1>5, Types DEF PublishResultStore, NotifyGoalDone, TerminalErase
<1>6. CASE Tick
  BY <1>6 DEF Tick
<1> QED
  BY <1>1, <1>2, <1>3, <1>4, <1>5, <1>6, NextCases DEF TerminalStep


\* Only its own handler moves a goal whose typed handle is not yet registered.
LEMMA MovedBy ==
    ASSUME CoreInv, LifeOK, Next, NEW g \in Goals, gstate'[g] # gstate[g]
    PROVE  \/ upc[g] # "none"
           \/ \E t \in Threads : /\ pc[t] \in {"g_accept", "g_execute"} /\ tgoal[t] = g
                                 /\ pc'[t] \in {"g_store", "g_status"}
<1> USE DEF Goto, GoalHandlerDone, rclVars
<1>1. ASSUME NEW t \in Threads, GoalAccept(t) \/ GoalExecute(t)
      PROVE  \E s \in Threads : /\ pc[s] \in {"g_accept", "g_execute"} /\ tgoal[s] = g
                                /\ pc'[s] \in {"g_store", "g_status"}
  BY <1>1, Types DEF GoalAccept, GoalExecute, GoalPCs
<1>2. ASSUME NEW t \in Threads, CancelCallback(t)
      PROVE  upc[g] # "none"
  BY <1>2, Types DEF CancelCallback, GoalPCs, LifeOK, HolderPCs
<1>3. ASSUME NEW h \in Goals, UserStep(h)
      PROVE  upc[g] # "none"
  BY <1>3, Types DEF UserStep, UserExecute, UserFinish, UserDrop, DestroyHandle, LifeOK
<1> QED
  BY <1>1, <1>2, <1>3, StateUnchanged

StorePCs == {"g_store", "g_execute"}

\* A thread comes to register a goal by having it accepted.
LEMMA StoreStep ==
    ASSUME CoreInv, LifeOK, Next, NEW s \in Threads, pc'[s] \in StorePCs
    PROVE  \/ /\ pc[s] \in StorePCs /\ tgoal'[s] = tgoal[s]
              /\ pc'[s] = "g_store" => pc[s] = "g_store"
           \/ tgoal'[s] \in Goals /\ gstate'[tgoal'[s]] = "ACCEPTED"
<1> USE DEF Goto, GoalHandlerDone, StorePCs
<1>1. CASE pc'[s] = pc[s] /\ tgoal'[s] = tgoal[s]
  BY <1>1
<1>2. ASSUME NEW t \in Threads, ThreadStep(t), s # t
      PROVE  pc'[s] = pc[s] /\ tgoal'[s] = tgoal[s]
  BY <1>2, ThreadStepLocals DEF ThreadFrame
<1>3. ASSUME NEW t \in Threads, Take(t)
      PROVE  pc'[s] = pc[s] /\ tgoal'[s] = tgoal[s]
  BY <1>3, TakeLocals, TakePC DEF ThreadFrame
<1>4. CASE ThreadStep(s)
  <2>1. CASE GoalAccept(s)
    BY <2>1, Types DEF GoalAccept, GoalPCs
  <2>2. CASE GoalStore(s) \/ GoalExecute(s) \/ GoalPublishStatus(s) \/ GoalRegister(s)
    BY <2>2, Types DEF GoalStore, GoalExecute, GoalPublishStatus, GoalRegister
  <2>3. CASE AcceptedReturn(s) \/ AcceptedDestroyed(s) \/ \E u \in UUIDs : CancelLookup(s, u)
    BY <2>3, Types DEF AcceptedReturn, AcceptedDestroyed, CancelLookup
  <2>4. CASE CancelCallback(s) \/ CancelRelease(s) \/ CancelDestroyed(s) \/ CancelRespond(s)
    BY <2>4, Types DEF CancelCallback, CancelRelease, CancelDestroyed, CancelRespond
  <2>5. CASE ResultLookup(s) \/ ExpireGoals(s) \/ ExpireErase(s)
    BY <2>5, Types DEF ResultLookup, ExpireGoals, ExpireErase
  <2> QED
    BY <1>4, <2>1, <2>2, <2>3, <2>4, <2>5 DEF ThreadStep
<1> QED
  BY <1>1, <1>2, <1>3, <1>4, NextCases, OtherLocals

LEMMA StatusStep ==
    ASSUME CoreInv, LifeOK, HandleOK, StatusInv, Next
    PROVE  StatusInv'
<1>1. \A s \in Threads : pc'[s] \in StorePCs => gstate'[tgoal'[s]] = "ACCEPTED"
  <2> SUFFICES ASSUME NEW s \in Threads, pc'[s] \in StorePCs, pc[s] \in StorePCs,
                      tgoal'[s] = tgoal[s], pc'[s] = "g_store" => pc[s] = "g_store"
               PROVE  gstate'[tgoal[s]] = "ACCEPTED"
    BY StoreStep
  <2>1. tgoal[s] \in Goals /\ upc[tgoal[s]] = "none" /\ gstate[tgoal[s]] = "ACCEPTED"
    BY Types DEF LifeOK, StatusInv, StorePCs, RegisterPCs, GoalPCs
  <2>2. ~\E t \in Threads : /\ pc[t] \in {"g_accept", "g_execute"} /\ tgoal[t] = tgoal[s]
                            /\ pc'[t] \in {"g_store", "g_status"}
    <3> SUFFICES ASSUME NEW t \in Threads, pc[t] \in {"g_accept", "g_execute"},
                        tgoal[t] = tgoal[s], pc'[t] \in {"g_store", "g_status"}
                 PROVE  FALSE
      OBVIOUS
    <3>1. t = s
      BY DEF LifeOK, RegisterPCs, StorePCs
    <3>2. pc[s] = "g_execute" /\ pc'[s] = "g_store"
      BY <3>1 DEF StorePCs
    <3> QED
      BY <3>2
  <2> QED
    BY <2>1, <2>2, MovedBy
<1>2. \A g \in goals' : status'[g] = gstate'[g] \/ PendingFor(g)'
  <2>1. StatusKept
    BY StatusThreadStep, StatusOtherStep
  <2> QED
    BY <2>1 DEF StatusKept, StatusInv
<1> QED
  BY <1>1, <1>2 DEF StatusInv, StorePCs

-----------------------------------------------------------------------------
(* What the other proofs build on *)

BaseInv == AnswerInv /\ LifeOK /\ HandleOK /\ ArmedOK /\ StatusInv

LEMMA BaseInit == Init => BaseInv
<1> SUFFICES ASSUME Init PROVE BaseInv
  OBVIOUS
<1>1. AnswerInv
  <2>1. RequestsOK /\ AnswersAreFinal /\ NoRequestForgotten
    BY DEF Init, RequestsOK, AnswersAreFinal, NoRequestForgotten
  <2> QED
    BY <2>1, InitCore DEF AnswerInv
<1>2. LifeOK /\ HandleOK /\ ArmedOK
  BY DEF Init, LifeOK, HandleOK, ArmedOK, RegisterPCs, HolderPCs, TerminalStates
<1>3. StatusInv
  BY DEF Init, StatusInv
<1> QED
  BY <1>1, <1>2, <1>3 DEF BaseInv

LEMMA BaseStep ==
    ASSUME BaseInv, [Next]_vars
    PROVE  BaseInv'
<1>1. CASE Next
  BY <1>1, CoreStep, AnswerStep, LifeStep, HandleStep, ArmedStep, StatusStep
     DEF BaseInv, AnswerInv, ExpiryInv
<1>2. CASE UNCHANGED vars
  <2>1. AnswerInv'
    <3>1. CoreInv'
      BY <1>2, CoreStep DEF BaseInv, AnswerInv
    <3>2. UNCHANGED <<answer, asked, goal_results_, result_requests_, gstate>>
      BY <1>2 DEF vars, mapVars, msgVars, rclVars
    <3>3. RequestsOK' /\ NoRequestForgotten'
      BY <3>2 DEF BaseInv, AnswerInv, RequestsOK, NoRequestForgotten
    <3>4. AnswersAreFinal'
      BY <3>2 DEF BaseInv, AnswerInv, AnswersAreFinal, EndedAs
    <3> QED
      BY <3>1, <3>3, <3>4 DEF AnswerInv
  <2>2. UNCHANGED <<pc, tgoal, upc, uref, goalResp, gstate, goals, timer, now, tok, status>>
    BY <1>2 DEF vars, rclVars, threadVars, userVars, msgVars
  <2>3. LifeOK' /\ HandleOK' /\ ArmedOK'
    BY <2>2 DEF BaseInv, LifeOK, HandleOK, Holders, ArmedOK, Armed
  <2>4. StatusInv'
    BY <2>2 DEF BaseInv, StatusInv, PendingFor
  <2> QED
    BY <2>1, <2>3, <2>4 DEF BaseInv
<1> QED
  BY <1>1, <1>2

LEMMA BaseHolds == Spec => []BaseInv
  BY BaseInit, BaseStep, PTL DEF Spec

\* The last message on the status topic shows every tracked goal as it is,
\* unless someone is about to publish, although a goal changes state under the
\* mutex of its handle and publish_status reads under that of the server.  The
\* invariant says who: the handler, method or destructor that moved the goal.
THEOREM StatusStaysUpToDate == Spec => []StatusUpToDate
<1>1. BaseInv => StatusUpToDate
  BY DEF BaseInv, AnswerInv, CoreInv, TypeOK, StatusInv, StatusUpToDate, StatusPending,
         PendingFor
<1> QED
  BY <1>1, BaseHolds, PTL

-----------------------------------------------------------------------------
(* Each request is answered once *)

\* A goal begins to end in an active state.
LEMMA EndBegins ==
    ASSUME CoreInv, Next, NEW g \in Goals, upc'[g] \in {"t_exists", "t_store"}
    PROVE  upc[g] \in {"t_exists", "t_store"} \/ gstate[g] \in ActiveStates
<1> USE DEF userVars
<1>1. ASSUME NEW t \in Threads, ThreadStep(t)
      PROVE  upc[g] \in {"t_exists", "t_store"} \/ gstate[g] \in ActiveStates
  <2>1. CASE AcceptedReturn(t) \/ CancelRelease(t)
    BY <2>1, Types DEF AcceptedReturn, CancelRelease, GoalPCs
  <2>2. CASE GoalRegister(t)
    BY <2>2, Types DEF GoalRegister, GoalPCs
  <2>3. CASE GoalAccept(t) \/ GoalStore(t) \/ GoalExecute(t) \/ GoalPublishStatus(t)
    BY <2>3 DEF GoalAccept, GoalStore, GoalExecute, GoalPublishStatus
  <2>4. CASE AcceptedDestroyed(t) \/ CancelDestroyed(t) \/ CancelRespond(t) \/ CancelCallback(t)
    BY <2>4 DEF AcceptedDestroyed, CancelDestroyed, CancelRespond, CancelCallback
  <2>5. CASE \E u \in UUIDs : CancelLookup(t, u)
    BY <2>5 DEF CancelLookup
  <2>6. CASE ResultLookup(t) \/ ExpireGoals(t) \/ ExpireErase(t)
    BY <2>6 DEF ResultLookup, ExpireGoals, ExpireErase
  <2> QED
    BY <1>1, <2>1, <2>2, <2>3, <2>4, <2>5, <2>6 DEF ThreadStep
<1>2. ASSUME NEW t \in Threads, Take(t)
      PROVE  upc[g] \in {"t_exists", "t_store"}
  BY <1>2, TakePC
<1>3. ASSUME NEW h \in Goals, UserStep(h)
      PROVE  upc[g] \in {"t_exists", "t_store"} \/ gstate[g] \in ActiveStates
  BY <1>3, Types, CancelingFacts, TransitionFromActive
     DEF UserStep, UserExecute, UserFinish, UserDrop, DestroyHandle
<1>4. ASSUME NEW h \in Goals, UserExecuteStatus(h) \/ TerminalStep(h)
      PROVE  upc[g] \in {"t_exists", "t_store"}
  BY <1>4, Types DEF UserExecuteStatus, TerminalStep, PublishResultExists, PublishResultStore,
                     TerminalStatus, NotifyGoalDone, TerminalErase
<1>5. CASE Tick
  BY <1>5 DEF Tick
<1> QED
  BY <1>1, <1>2, <1>3, <1>4, <1>5, NextCases

LEMMA PublishedForGood ==
    ASSUME CoreInv, Next, NEW g \in Goals, Published(g)
    PROVE  Published(g)'
  BY EndBegins, TerminalIsFinal, StatesDisjoint DEF Published

\* Only a new request brings a thread to look for a result.
LEMMA LookingStep ==
    ASSUME CoreInv, Next, NEW t \in Threads, NEW r \in Requests, Looking(t, r)'
    PROVE  \/ Looking(t, r)
           \/ \E u \in UUIDs : ResultRequestReceived(t, r, u)
<1> USE DEF Goto, GoalHandlerDone, threadVars, Looking, CanTake
<1>1. CASE pc'[t] = pc[t] /\ treq'[t] = treq[t]
  BY <1>1
<1>2. ASSUME NEW s \in Threads, ThreadStep(s), s # t
      PROVE  pc'[t] = pc[t] /\ treq'[t] = treq[t]
  BY <1>2, ThreadStepLocals DEF ThreadFrame
<1>3. ASSUME NEW s \in Threads, Take(s), s # t
      PROVE  pc'[t] = pc[t] /\ treq'[t] = treq[t]
  BY <1>3, TakeLocals DEF ThreadFrame
<1>4. CASE Take(t)
  <2>1. ASSUME NEW g \in Goals, GoalRequestReceived(t, g)
        PROVE  FALSE
    BY <2>1, Types DEF GoalRequestReceived
  <2>2. ASSUME NEW c \in Cancels, NEW u \in UUIDs \cup {None}, NEW s \in CancelStamps,
               CancelRequestReceived(t, c, u, s)
        PROVE  FALSE
    BY <2>2, Types DEF CancelRequestReceived
  <2>3. ASSUME NEW q \in Requests, NEW u \in UUIDs, ResultRequestReceived(t, q, u)
        PROVE  q = r
    BY <2>3, Types DEF ResultRequestReceived
  <2>4. ~ExpireTimerReady(t)
    BY Types DEF ExpireTimerReady
  <2> QED
    BY <1>4, <2>1, <2>2, <2>3, <2>4 DEF Take
<1>5. ASSUME ThreadStep(t)
      PROVE  FALSE
  <2>1. ~(GoalAccept(t) \/ GoalStore(t) \/ GoalExecute(t) \/ GoalPublishStatus(t)
          \/ GoalRegister(t))
    BY Types DEF GoalAccept, GoalStore, GoalExecute, GoalPublishStatus, GoalRegister
  <2>2. ~(AcceptedReturn(t) \/ AcceptedDestroyed(t) \/ \E u \in UUIDs : CancelLookup(t, u))
    BY Types DEF AcceptedReturn, AcceptedDestroyed, CancelLookup
  <2>3. ~(CancelCallback(t) \/ CancelRelease(t) \/ CancelDestroyed(t) \/ CancelRespond(t))
    BY Types DEF CancelCallback, CancelRelease, CancelDestroyed, CancelRespond
  <2>4. ~(ResultLookup(t) \/ ExpireGoals(t) \/ ExpireErase(t))
    BY Types DEF ResultLookup, ExpireGoals, ExpireErase
  <2> QED
    BY <1>5, <2>1, <2>2, <2>3, <2>4 DEF ThreadStep
<1> QED
  BY <1>1, <1>2, <1>3, <1>4, <1>5, NextCases, OtherLocals

\* One more answer for a request that had none.
LEMMA FirstAnswer ==
    ASSUME NEW S, NEW v \in S
    PROVE  Append(<<>>, v) = <<v>> /\ Len(<<v>>) = 1 /\ <<v>> # <<>>
  OBVIOUS

\* A request that nobody was asked is nowhere yet.
LEMMA NewRequest ==
    ASSUME BaseInv, OnceInv, NEW r \in Requests, asked[r] = None
    PROVE  /\ answer[r] = <<>>
           /\ \A t \in Threads : ~Looking(t, r)
           /\ \A u \in UUIDs : r \notin result_requests_[u]
  BY ServerAssumption DEF BaseInv, AnswerInv, RequestsOK, OnceInv

OnceTypes ==
    /\ answer \in [Requests -> Seq(TerminalStates \cup {"UNKNOWN"})]
    /\ asked \in [Requests -> UUIDs \cup {None}]
    /\ result_requests_ \in [UUIDs -> SUBSET Requests]
    /\ goal_results_ \in [UUIDs -> TerminalStates \cup {None}]

LEMMA OnceTypesHold ==
    ASSUME CoreInv
    PROVE  OnceTypes
  BY DEF CoreInv, TypeOK, OnceTypes

LEMMA OnceStep ==
    ASSUME Unique, BaseInv, OnceInv, Next
    PROVE  OnceInv'
<1> DEFINE S == TerminalStates \cup {"UNKNOWN"}
<1>a. CoreInv /\ OnceTypes
  BY OnceTypesHold DEF BaseInv, AnswerInv
<1>b. \A g \in Goals : Published(g) => Published(g)'
  BY <1>a, PublishedForGood
\* When no request arrives nobody begins to look.
<1>c. ASSUME \A t \in Threads, r \in Requests, u \in UUIDs : ~ResultRequestReceived(t, r, u)
      PROVE  \A t \in Threads, r \in Requests : Looking(t, r)' => Looking(t, r)
  BY <1>a, <1>c, LookingStep
<1>1. ASSUME NEW t \in Threads, NEW r \in Requests, NEW u \in UUIDs,
             ResultRequestReceived(t, r, u)
      PROVE  OnceInv'
  <2>1. /\ answer[r] = <<>> /\ \A s \in Threads : ~Looking(s, r)
        /\ \A w \in UUIDs : r \notin result_requests_[w]
    BY <1>1, NewRequest DEF ResultRequestReceived
  <2>2. /\ asked' = [asked EXCEPT ![r] = u] /\ asked'[r] # None
        /\ result_requests_' = result_requests_
    BY <1>1, <1>a, ServerAssumption DEF ResultRequestReceived, mapVars, OnceTypes
  <2>3. /\ \A q \in Requests : q # r => answer'[q] = answer[q]
        /\ Len(answer'[r]) <= 1
        /\ answer'[r] # <<>> => \A s \in Threads : ~Looking(s, r)'
    <3>1. CASE answer' = answer
      BY <2>1, <3>1 DEF OnceInv
    <3>2. CASE answer' # answer
      <4>1. answer' = [answer EXCEPT ![r] = Append(<<>>, "UNKNOWN")] /\ UNCHANGED <<pc, treq>>
        BY <1>1, <2>1, <3>2 DEF ResultRequestReceived
      <4>2. answer' = [answer EXCEPT ![r] = <<"UNKNOWN">>]
        BY <4>1, FirstAnswer
      <4> QED
        BY <1>a, <2>1, <4>1, <4>2 DEF OnceTypes, Looking
    <3> QED
      BY <3>1, <3>2
  <2>4. \A s \in Threads, q \in Requests : Looking(s, q)' => Looking(s, q) \/ (s = t /\ q = r)
    <3>1. ASSUME NEW s \in Threads, NEW q \in Requests, NEW w \in UUIDs,
                 ResultRequestReceived(s, q, w)
          PROVE  q = r
      <4>1. asked[q] = None /\ asked'[q] # None
        BY <1>a, <3>1, ServerAssumption DEF ResultRequestReceived, OnceTypes
      <4> QED
        BY <1>a, <2>2, <4>1 DEF OnceTypes
    <3>2. \A s \in Threads : Looking(s, r)' => s = t
      <4>1. ThreadFrame(t)
        BY <1>a, <1>1, TakeLocals DEF Take
      <4> QED
        BY <2>1, <4>1 DEF ThreadFrame, Looking
    <3> QED
      BY <1>a, <3>1, <3>2, LookingStep
  <2>5. \A q \in Requests : asked'[q] = None => asked[q] = None /\ q # r
    BY <1>a, <2>2 DEF OnceTypes
  <2> QED
    BY <1>a, <1>b, <2>1, <2>2, <2>3, <2>4, <2>5, SMTT(30) DEF OnceInv, OnceTypes
<1>2. ASSUME NEW t \in Threads, ResultLookup(t)
      PROVE  OnceInv'
  <2> DEFINE r == treq[t]
             v == goal_results_[asked[r]]
  <2>0. Looking(t, r) /\ pc'[t] # "r_lookup" /\ r \in Requests /\ asked[r] \in UUIDs
    BY <1>2, <1>a, Types DEF ResultLookup, Looking, CoreInv, LocalsOK, Goto
  <2>1. answer[r] = <<>> /\ \A u \in UUIDs : r \notin result_requests_[u]
    BY <2>0 DEF OnceInv
  <2>2. asked' = asked
    BY <1>2 DEF ResultLookup
  <2>3. \A s \in Threads, q \in Requests : Looking(s, q)' => Looking(s, q) /\ q # r
    <3>1. \A s \in Threads, q \in Requests, u \in UUIDs : ~ResultRequestReceived(s, q, u)
      <4> SUFFICES ASSUME NEW s \in Threads, NEW q \in Requests, NEW u \in UUIDs,
                          ResultRequestReceived(s, q, u)
                   PROVE  FALSE
        OBVIOUS
      <4>1. asked[q] = None /\ asked'[q] # None
        BY <1>a, ServerAssumption DEF ResultRequestReceived, OnceTypes
      <4> QED
        BY <2>2, <4>1
    <3>2. \A s \in Threads, q \in Requests : Looking(s, q)' => Looking(s, q)
      BY <1>c, <3>1
    <3>3. \A s \in Threads : Looking(s, r) => s = t
      BY <2>0 DEF OnceInv
    <3> QED
      BY <2>0, <3>2, <3>3 DEF Looking
  <2> HIDE DEF r, v
  <2>4. CASE v # None
    <3>1. v \in S
      BY <1>a, <2>0, <2>4 DEF OnceTypes, v
    <3>2. /\ answer' = [answer EXCEPT ![r] = Append(answer[r], v)]
          /\ result_requests_' = result_requests_
      BY <1>2, <2>4 DEF ResultLookup, r, v
    <3>3. answer' = [answer EXCEPT ![r] = <<v>>] /\ Len(<<v>>) = 1
      BY <2>1, <3>1, <3>2, FirstAnswer
    <3>4. answer'[r] = <<v>> /\ \A q \in Requests : q # r => answer'[q] = answer[q]
      BY <1>a, <2>0, <3>3 DEF OnceTypes
    <3> QED
      BY <1>b, <2>0, <2>1, <2>2, <2>3, <3>2, <3>3, <3>4 DEF OnceInv
  <2>5. CASE v = None
    <3>1. /\ answer' = answer
          /\ result_requests_' = [result_requests_ EXCEPT ![asked[r]] =
                                    result_requests_[asked[r]] \cup {r}]
      BY <1>2, <2>5 DEF ResultLookup, r, v
    <3>2. \A u \in UUIDs : \A q \in result_requests_'[u] : q \in result_requests_[u] \/ q = r
      BY <1>a, <2>0, <3>1 DEF OnceTypes
    <3> QED
      BY <1>b, <2>0, <2>1, <2>2, <2>3, <3>1, <3>2 DEF OnceInv
  <2> QED
    BY <2>4, <2>5
<1>3. ASSUME NEW t \in Threads, ExpireErase(t)
      PROVE  OnceInv'
  <2>1. answer' = answer /\ asked' = asked
    BY <1>3 DEF ExpireErase, msgVars
  <2>2. \A u \in UUIDs : result_requests_'[u] \subseteq result_requests_[u]
    BY <1>a, <1>3, Types DEF ExpireErase, GoalPCs, OnceTypes
  <2>3. \A s \in Threads, q \in Requests : Looking(s, q)' => Looking(s, q)
    BY <1>3, <1>a, Types DEF ExpireErase, Looking, Goto
  <2> QED
    BY <1>b, <2>1, <2>2, <2>3 DEF OnceInv
<1>4. ASSUME NEW g \in Goals, PublishResultStore(g)
      PROVE  OnceInv'
  <2> DEFINE u == UUIDOf[g]
             v == result_msg[g]
  <2>1. v \in S /\ ~Published(g) /\ Published(g)' /\ u \in UUIDs
    BY <1>4, <1>a, Types DEF PublishResultStore, CoreInv, ResultOK, Published, rclVars
  <2>2. /\ UNCHANGED <<asked, result_requests_, pc, treq>>
        /\ answer' = [r \in Requests |-> IF r \in result_requests_[u]
                                         THEN Append(answer[r], v) ELSE answer[r]]
    BY <1>4 DEF PublishResultStore, threadVars
  <2> HIDE DEF u, v
  <2>3. \A r \in result_requests_[u] : r \in Requests /\ answer[r] = <<>>
    BY <1>a, <2>1 DEF OnceInv, OnceTypes, u
  <2>4. \A r \in Requests : answer'[r] = IF r \in result_requests_[u] THEN <<v>> ELSE answer[r]
    BY <2>1, <2>2, <2>3, FirstAnswer
  <2>5. \A t \in Threads, r \in Requests : Looking(t, r)' <=> Looking(t, r)
    BY <2>2 DEF Looking
  <2>6. \A r \in Requests : Len(answer'[r]) <= 1
    <3>1. Len(<<v>>) = 1
      BY <2>1, FirstAnswer
    <3> QED
      <4> SUFFICES ASSUME NEW r \in Requests
                   PROVE  Len(answer'[r]) <= 1
        OBVIOUS
      <4>1. CASE r \in result_requests_[u]
        <5>1. answer'[r] = <<v>>
          BY <2>4, <4>1
        <5> QED
          BY <3>1, <5>1
      <4>2. CASE r \notin result_requests_[u]
        <5>1. answer'[r] = answer[r]
          BY <2>4, <4>2
        <5> QED
          BY <5>1 DEF OnceInv
      <4> QED
        BY <4>1, <4>2
  <2>7. \A w \in UUIDs : \A r \in result_requests_[w] : r \in result_requests_[u] => w = u
    BY <1>a, <2>1 DEF BaseInv, AnswerInv, RequestsOK, OnceTypes
  <2>8. \A h \in Goals : UUIDOf[h] = u => h = g
    BY DEF Unique, u
  <2>9. \A w \in UUIDs : \A r \in result_requests_[w] :
          answer'[r] # <<>> => \A h \in Goals : UUIDOf[h] = w => Published(h)'
    <3> SUFFICES ASSUME NEW w \in UUIDs, NEW r \in result_requests_[w], answer'[r] # <<>>,
                        NEW h \in Goals, UUIDOf[h] = w
                 PROVE  Published(h)'
      OBVIOUS
    <3>1. CASE r \in result_requests_[u]
      BY <2>1, <2>7, <2>8, <3>1
    <3>2. CASE r \notin result_requests_[u]
      BY <1>a, <1>b, <2>4, <3>2 DEF OnceInv, OnceTypes
    <3> QED
      BY <3>1, <3>2
  <2>10. \A t \in Threads, r \in Requests : Looking(t, r) =>
           answer'[r] = <<>> /\ \A w \in UUIDs : r \notin result_requests_[w]
    BY <2>1, <2>4 DEF OnceInv
  <2> QED
    BY <2>2, <2>5, <2>6, <2>9, <2>10 DEF OnceInv
<1>5. CASE UNCHANGED <<asked, answer, goal_results_, result_requests_>>
  <2>1. \A s \in Threads, q \in Requests, u \in UUIDs : ~ResultRequestReceived(s, q, u)
    <3> SUFFICES ASSUME NEW s \in Threads, NEW q \in Requests, NEW u \in UUIDs,
                        ResultRequestReceived(s, q, u)
                 PROVE  FALSE
      OBVIOUS
    <3>1. asked[q] = None /\ asked'[q] # None
      BY <1>a, ServerAssumption DEF ResultRequestReceived, OnceTypes
    <3> QED
      BY <1>5, <3>1
  <2> QED
    BY <1>5, <1>b, <1>c, <2>1 DEF OnceInv
<1> QED
  BY <1>1, <1>2, <1>3, <1>4, <1>5, AnswersUnchanged

LEMMA OnceHolds ==
    ASSUME Unique
    PROVE  Spec => []OnceInv
<1>1. Init => OnceInv
  BY DEF Init, OnceInv, Looking
<1>2. BaseInv /\ OnceInv /\ [Next]_vars => OnceInv'
  <2>1. ASSUME OnceInv, UNCHANGED vars
        PROVE  OnceInv'
    BY <2>1 DEF vars, rclVars, mapVars, threadVars, userVars, msgVars, OnceInv, Looking, Published
  <2> QED
    BY <2>1, OnceStep
<1> QED
  BY <1>1, <1>2, BaseHolds, PTL DEF Spec

\* With ids that differ no result request is answered twice, although
\* publish_result leaves the requests it answers in the map until the goal
\* expires: by then its goal has published its result for good.
THEOREM OneAnswerPerRequest == Unique => (Spec => []AnsweredOnce)
<1>1. ASSUME Unique
      PROVE  Spec => []AnsweredOnce
  <2>1. OnceInv => AnsweredOnce
    BY DEF OnceInv, AnsweredOnce
  <2>2. Spec => []OnceInv
    BY <1>1, OnceHolds
  <2> QED
    BY <2>1, <2>2, PTL
<1> QED
  BY <1>1

-----------------------------------------------------------------------------
(* The server implements the contract *)

ContractStep == Contract!Next \/ UNCHANGED Contract!vars

\* A move of one goal along the states of the action design.
LEMMA MoveStep ==
    ASSUME NEW g \in Goals, UNCHANGED <<asked, answer>>,
           NEW from, NEW to, gstate[g] = from, gstate' = [gstate EXCEPT ![g] = to],
           <<from, to>> \in {<<"UNKNOWN", "ACCEPTED">>, <<"ACCEPTED", "EXECUTING">>}
                            \cup ({"ACCEPTED", "EXECUTING"} \X {"CANCELING"})
                            \cup ({"EXECUTING", "CANCELING"} \X {"SUCCEEDED", "ABORTED"})
                            \cup ({"ACCEPTED", "EXECUTING", "CANCELING"} \X {"CANCELED"})
    PROVE  ContractStep
<1> USE DEF Contract!Move
<1>1. CASE from = "UNKNOWN" /\ to = "ACCEPTED"
  BY <1>1 DEF ContractStep, Contract!Next, Contract!Accept
<1>2. CASE from = "ACCEPTED" /\ to = "EXECUTING"
  BY <1>2 DEF ContractStep, Contract!Next, Contract!Execute
<1>3. CASE from \in {"ACCEPTED", "EXECUTING"} /\ to = "CANCELING"
  BY <1>3 DEF ContractStep, Contract!Next, Contract!Cancel
<1>4. CASE from \in {"EXECUTING", "CANCELING"} /\ to \in {"SUCCEEDED", "ABORTED"}
  <2>1. Contract!Finish(g)
    BY <1>4 DEF Contract!Finish
  <2> QED
    BY <2>1 DEF ContractStep, Contract!Next
<1>5. CASE from \in {"ACCEPTED", "EXECUTING", "CANCELING"} /\ to = "CANCELED"
  BY <1>5 DEF ContractStep, Contract!Next, Contract!Canceled
<1> QED
  BY <1>1, <1>2, <1>3, <1>4, <1>5

\* The events rcl_action's transition map accepts are moves of the design.
LEMMA EventStep ==
    ASSUME NEW g \in Goals, NEW e, UNCHANGED <<asked, answer>>,
           rcl_action_update_goal_state_ok(gstate[g], e),
           gstate' = [gstate EXCEPT ![g] = rcl_action_transition_goal_state(gstate[g], e)]
    PROVE  ContractStep
<1> DEFINE to == rcl_action_transition_goal_state(gstate[g], e)
<1>1. <<gstate[g], to>> \in {<<"ACCEPTED", "EXECUTING">>}
                            \cup ({"ACCEPTED", "EXECUTING"} \X {"CANCELING"})
                            \cup ({"EXECUTING", "CANCELING"} \X {"SUCCEEDED", "ABORTED"})
                            \cup ({"CANCELING"} \X {"CANCELED"})
  BY DEF rcl_action_update_goal_state_ok, rcl_action_transition_goal_state
<1> QED
  BY <1>1, MoveStep

LEMMA RefineStates ==
    ASSUME CoreInv, Next, gstate' # gstate
    PROVE  ContractStep
<1> USE DEF msgVars, rclVars
<1>1. ASSUME NEW t \in Threads, GoalAccept(t)
      PROVE  ContractStep
  <2>1. /\ gstate' = [gstate EXCEPT ![tgoal[t]] = "ACCEPTED"] /\ UNCHANGED <<asked, answer>>
        /\ tgoal[t] \in Goals /\ gstate[tgoal[t]] = "UNKNOWN"
    BY <1>1, Types DEF GoalAccept, GoalPCs, CoreInv, FreshOK
  <2> QED
    BY <2>1, MoveStep
<1>2. ASSUME NEW t \in Threads, GoalExecute(t)
      PROVE  ContractStep
  <2>1. tgoal[t] \in Goals
    BY <1>2, Types DEF GoalExecute, GoalPCs
  <2> QED
    BY <1>2, <2>1, EventStep DEF GoalExecute
<1>3. ASSUME NEW t \in Threads, CancelCallback(t)
      PROVE  ContractStep
  <2>1. tgoal[t] \in Goals
    BY <1>3, Types DEF CancelCallback, GoalPCs
  <2> QED
    BY <1>3, <2>1, EventStep DEF CancelCallback
<1>4. ASSUME NEW h \in Goals, UserStep(h)
      PROVE  ContractStep
  <2>1. CASE UserExecute(h)
    BY <2>1, EventStep DEF UserExecute
  <2>2. ~UserDrop(h)
    BY DEF UserDrop
  <2>3. ASSUME NEW e, UserFinish(h, e)
        PROVE  ContractStep
    BY <2>3, EventStep DEF UserFinish
  <2>4. CASE DestroyHandle(h)
    <3>1. gstate[h] \in ActiveStates /\ gstate' = [gstate EXCEPT ![h] = "CANCELED"]
      BY <2>4, DestroyCases
    <3>2. UNCHANGED <<asked, answer>>
      BY <2>4 DEF DestroyHandle
    <3> QED
      BY <3>1, <3>2, MoveStep DEF ActiveStates
  <2> QED
    BY <1>4, <2>1, <2>2, <2>3, <2>4 DEF UserStep
<1> QED
  BY <1>1, <1>2, <1>3, <1>4, StateUnchanged

\* Replies: the result of one goal goes to requests that have no answer yet.
LEMMA ReplyStep ==
    ASSUME NEW g \in Goals, gstate[g] \in TerminalStates,
           NEW rs \in SUBSET Requests,
           \A r \in rs : asked[r] = UUIDOf[g] /\ answer[r] = <<>>,
           answer' = [r \in Requests |-> IF r \in rs THEN <<gstate[g]>> ELSE answer[r]],
           UNCHANGED <<gstate, asked>>
    PROVE  ContractStep
<1>1. rs \in SUBSET {r \in Requests : asked[r] = UUIDOf[g] /\ answer[r] = <<>>}
  OBVIOUS
<1>2. gstate[g] \in Contract!Final
  BY DEF TerminalStates, Contract!Final
<1>3. Contract!Reply(g)
  BY <1>1, <1>2 DEF Contract!Reply
<1> QED
  BY <1>3 DEF ContractStep, Contract!Next

LEMMA RefineAnswers ==
    ASSUME BaseInv, OnceInv, Next, gstate' = gstate
    PROVE  ContractStep
<1>a. CoreInv /\ OnceTypes
  BY OnceTypesHold DEF BaseInv, AnswerInv
<1>1. ASSUME NEW t \in Threads, NEW r \in Requests, NEW u \in UUIDs,
             ResultRequestReceived(t, r, u)
      PROVE  ContractStep
  <2>1. answer[r] = <<>>
    BY <1>1, NewRequest DEF ResultRequestReceived
  <2>2. \/ answer' = answer
        \/ answer' = [answer EXCEPT ![r] = Append(<<>>, "UNKNOWN")]
    BY <1>1, <2>1 DEF ResultRequestReceived
  <2>3. answer' = answer \/ answer' = [answer EXCEPT ![r] = <<"UNKNOWN">>]
    BY <2>2, FirstAnswer
  <2>4. Contract!Ask(r, u)
    BY <1>1, <2>3 DEF ResultRequestReceived, Contract!Ask
  <2> QED
    BY <2>4 DEF ContractStep, Contract!Next
<1>2. ASSUME NEW t \in Threads, ResultLookup(t)
      PROVE  ContractStep
  <2> DEFINE r == treq[t]
             v == goal_results_[asked[r]]
  <2>1. /\ r \in Requests /\ asked[r] \in UUIDs /\ asked' = asked
        /\ answer[r] = <<>>
    BY <1>2, <1>a, Types DEF ResultLookup, Looking, CoreInv, LocalsOK, OnceInv
  <2>2. CASE v # None
    <3>1. PICK g \in Goals : UUIDOf[g] = asked[r] /\ gstate[g] = v /\ v \in TerminalStates
      BY <2>1, <2>2 DEF BaseInv, AnswerInv, AnswersAreFinal, EndedAs
    <3>2. answer' = [answer EXCEPT ![r] = Append(<<>>, v)]
      BY <1>2, <2>1, <2>2 DEF ResultLookup
    <3>3. answer' = [answer EXCEPT ![r] = <<v>>]
      BY <3>1, <3>2, FirstAnswer
    <3>4. answer' = [q \in Requests |-> IF q \in {r} THEN <<gstate[g]>> ELSE answer[q]]
      BY <1>a, <3>1, <3>3 DEF OnceTypes
    <3> HIDE DEF r, v
    <3>5. {r} \in SUBSET Requests /\ \A q \in {r} : asked[q] = UUIDOf[g] /\ answer[q] = <<>>
      BY <2>1, <3>1
    <3> QED
      BY <2>1, <3>1, <3>4, <3>5, ReplyStep
  <2>3. CASE v = None
    BY <1>2, <2>1, <2>3 DEF ResultLookup, ContractStep, Contract!vars
  <2> QED
    BY <2>2, <2>3
<1>3. ASSUME NEW g \in Goals, PublishResultStore(g)
      PROVE  ContractStep
  <2> DEFINE u == UUIDOf[g]
             v == result_msg[g]
  <2>1. v \in TerminalStates /\ v = gstate[g] /\ ~Published(g) /\ u \in UUIDs
    BY <1>3, <1>a, Types DEF PublishResultStore, CoreInv, ResultOK, Published
  <2>2. /\ asked' = asked
        /\ answer' = [r \in Requests |-> IF r \in result_requests_[u]
                                         THEN Append(answer[r], v) ELSE answer[r]]
    BY <1>3 DEF PublishResultStore
  <2>3. \A r \in result_requests_[u] : asked[r] = UUIDOf[g] /\ answer[r] = <<>>
    BY <1>a, <2>1 DEF BaseInv, AnswerInv, RequestsOK, OnceInv, OnceTypes
  <2>4. result_requests_[u] \in SUBSET Requests
    BY <1>a, <2>1 DEF OnceTypes
  <2> HIDE DEF u, v
  <2>5. \A r \in result_requests_[u] : Append(answer[r], v) = <<v>>
    BY <2>1, <2>3, FirstAnswer
  <2>6. answer' = [r \in Requests |-> IF r \in result_requests_[u] THEN <<gstate[g]>>
                                      ELSE answer[r]]
    BY <2>1, <2>2, <2>5
  <2> QED
    BY <2>1, <2>2, <2>3, <2>4, <2>6, ReplyStep
<1>4. ASSUME NEW t \in Threads, ExpireErase(t)
      PROVE  ContractStep
  BY <1>4 DEF ExpireErase, msgVars, ContractStep, Contract!vars
<1>5. CASE UNCHANGED <<asked, answer, goal_results_, result_requests_>>
  BY <1>5 DEF ContractStep, Contract!vars
<1> QED
  BY <1>1, <1>2, <1>3, <1>4, <1>5, AnswersUnchanged

\* With ids that differ the server implements ActionContract: goals move along
\* the states of the action design, and a result request is answered at most
\* once, with the state its goal ended in or, as it arrives, with "unknown".
\* Four steps of the server reply or accept requests, six move a goal, and all
\* others are invisible to clients.
THEOREM ServerImplementsContract == Unique => (Spec => ImplementsContract)
<1>1. ASSUME Unique
      PROVE  Spec => ImplementsContract
  <2>1. Init => Contract!Init
    BY DEF Init, Contract!Init
  <2>2. BaseInv /\ OnceInv /\ [Next]_vars => [Contract!Next]_(Contract!vars)
    <3>1. ASSUME BaseInv, OnceInv, Next
          PROVE  ContractStep
      BY <3>1, RefineStates, RefineAnswers DEF BaseInv, AnswerInv
    <3>2. ASSUME UNCHANGED vars
          PROVE  UNCHANGED Contract!vars
      BY <3>2 DEF vars, rclVars, msgVars, Contract!vars
    <3> QED
      BY <3>1, <3>2 DEF ContractStep
  <2>3. Spec => []OnceInv
    BY <1>1, OnceHolds
  <2> QED
    BY <2>1, <2>2, <2>3, BaseHolds, PTL DEF Spec, ImplementsContract, Contract!Spec
<1> QED
  BY <1>1

-----------------------------------------------------------------------------
(* Cancel requests *)

\* The states of a goal that some request canceled, or that has ended.
PastCancel == {"CANCELING"} \cup TerminalStates

LEMMA PastCancelEvent ==
    ASSUME NEW s, NEW e, s \in PastCancel, rcl_action_update_goal_state_ok(s, e)
    PROVE  rcl_action_transition_goal_state(s, e) \in PastCancel
  BY DEF PastCancel, TerminalStates, rcl_action_update_goal_state_ok,
         rcl_action_transition_goal_state

LEMMA PastCancelStays ==
    ASSUME CoreInv, Next, NEW g \in Goals, gstate[g] \in PastCancel
    PROVE  gstate'[g] \in PastCancel
<1> USE DEF rclVars
<1>a. "CANCELED" \in PastCancel /\ "UNKNOWN" \notin PastCancel
  BY DEF PastCancel, TerminalStates
<1>1. ASSUME NEW t \in Threads, GoalAccept(t)
      PROVE  gstate'[g] \in PastCancel
  BY <1>1, <1>a, Types DEF GoalAccept, GoalPCs, CoreInv, FreshOK
<1>2. ASSUME NEW t \in Threads, GoalExecute(t) \/ CancelCallback(t)
      PROVE  gstate'[g] \in PastCancel
  BY <1>2, Types, PastCancelEvent DEF GoalExecute, CancelCallback, GoalPCs
<1>3. ASSUME NEW h \in Goals, UserStep(h)
      PROVE  gstate'[g] \in PastCancel
  BY <1>3, <1>a, Types, CancelingFacts, PastCancelEvent
     DEF UserStep, UserExecute, UserFinish, UserDrop, DestroyHandle
<1> QED
  BY <1>1, <1>2, <1>3, StateUnchanged

\* What a step does to the cancel requests unless it begins or ends one.
CancelFrame ==
    /\ UNCHANGED <<cancelReq, cancelResp>>
    /\ \A t \in Threads : /\ pc'[t] \in CancelPCs <=> pc[t] \in CancelPCs
                          /\ pc[t] \in CancelPCs => treq'[t] = treq[t]

LEMMA CancelThreadStep ==
    ASSUME CoreInv, NEW t \in Threads, ThreadStep(t), ~CancelRespond(t)
    PROVE  CancelFrame /\ (~CancelCallback(t) => tok' = tok)
<1> USE DEF Goto, GoalHandlerDone, msgVars, CancelFrame, CancelPCs
<1>1. CASE GoalAccept(t) \/ GoalStore(t) \/ GoalExecute(t)
  BY <1>1, Types DEF GoalAccept, GoalStore, GoalExecute
<1>2. CASE GoalPublishStatus(t) \/ GoalRegister(t)
  BY <1>2, Types DEF GoalPublishStatus, GoalRegister
<1>3. CASE AcceptedReturn(t) \/ AcceptedDestroyed(t)
  BY <1>3, Types DEF AcceptedReturn, AcceptedDestroyed
<1>4. CASE \E u \in UUIDs : CancelLookup(t, u)
  BY <1>4, Types DEF CancelLookup
<1>5. CASE CancelCallback(t)
  BY <1>5, Types DEF CancelCallback
<1>6. CASE CancelRelease(t) \/ CancelDestroyed(t)
  BY <1>6, Types DEF CancelRelease, CancelDestroyed
<1>7. CASE ResultLookup(t) \/ ExpireGoals(t) \/ ExpireErase(t)
  BY <1>7, Types DEF ResultLookup, ExpireGoals, ExpireErase
<1> QED
  BY <1>1, <1>2, <1>3, <1>4, <1>5, <1>6, <1>7 DEF ThreadStep

LEMMA CancelOtherStep ==
    ASSUME CoreInv, Next, \A t \in Threads : ~ThreadStep(t),
           \A t \in Threads, c \in Cancels, u \in UUIDs \cup {None}, s \in CancelStamps :
             ~CancelRequestReceived(t, c, u, s)
    PROVE  CancelFrame /\ tok' = tok
<1> USE DEF Goto, msgVars, threadVars, CancelFrame, CancelPCs, CanTake
<1>1. ASSUME NEW t \in Threads, Take(t)
      PROVE  CancelFrame /\ tok' = tok
  <2>1. ASSUME NEW g \in Goals, GoalRequestReceived(t, g)
        PROVE  CancelFrame /\ tok' = tok
    BY <2>1, Types DEF GoalRequestReceived
  <2>2. ASSUME NEW r \in Requests, NEW u \in UUIDs, ResultRequestReceived(t, r, u)
        PROVE  CancelFrame /\ tok' = tok
    BY <2>2, Types DEF ResultRequestReceived
  <2>3. CASE ExpireTimerReady(t)
    BY <2>3, Types DEF ExpireTimerReady
  <2> QED
    BY <1>1, <2>1, <2>2, <2>3 DEF Take
<1>2. ASSUME NEW g \in Goals, UserStep(g) \/ UserExecuteStatus(g)
      PROVE  CancelFrame /\ tok' = tok
  BY <1>2 DEF UserStep, UserExecuteStatus, UserExecute, UserFinish, UserDrop,
              DestroyHandle
<1>3. ASSUME NEW g \in Goals, TerminalStep(g)
      PROVE  CancelFrame /\ tok' = tok
  BY <1>3 DEF TerminalStep, PublishResultExists, PublishResultStore, TerminalStatus,
              NotifyGoalDone, TerminalErase
<1>4. CASE Tick
  BY <1>4 DEF Tick
<1> QED
  BY <1>1, <1>2, <1>3, <1>4, NextCases

LEMMA CancelStep ==
    ASSUME Unique, CoreInv, CancelInv, Next
    PROVE  CancelInv'
<1>a. \A g \in Goals : gstate'[g] \notin PastCancel => gstate[g] \notin PastCancel
  BY PastCancelStays
<1>b. /\ cancelReq \in [Cancels -> [uuid : UUIDs \cup {None}, stamp : CancelStamps] \cup {None}]
      /\ cancelResp \in [Cancels -> [code : CancelCodes, goals : SUBSET UUIDs] \cup {None}]
      /\ \A t \in Threads : pc[t] \in CancelPCs => treq[t] \in Cancels
  BY DEF CoreInv, TypeOK, LocalsOK
<1>1. ASSUME CancelFrame, tok' = tok
      PROVE  CancelInv'
  <2>1. \A c \in Cancels : Canceled(c)' = Canceled(c)
    BY <1>1 DEF CancelFrame, Canceled
  <2> QED
    BY <1>a, <1>1, <1>b, <2>1 DEF CancelFrame, CancelInv, PastCancel
<1>2. ASSUME NEW t \in Threads, CancelCallback(t)
      PROVE  CancelInv'
  <2>1. CancelFrame
    BY <1>2, CancelThreadStep DEF ThreadStep, CancelCallback, CancelRespond
  <2>2. CASE tok' = tok
    BY <1>1, <2>1, <2>2
  <2>3. CASE tok' # tok
    <3> DEFINE g == tgoal[t]
    <3>1. /\ g \in Goals /\ pc[t] \in CancelPCs
          /\ tok' = [tok EXCEPT ![t] = tok[t] \cup {UUIDOf[g]}]
          /\ gstate[g] \notin PastCancel /\ gstate' = [gstate EXCEPT ![g] = "CANCELING"]
      BY <1>2, <2>3, Types DEF CancelCallback, GoalPCs, CancelPCs, PastCancel, TerminalStates,
           rcl_action_update_goal_state_ok, rcl_action_transition_goal_state
    <3> HIDE DEF g
    <3>2. \A c \in Cancels : Canceled(c)' = Canceled(c)
      BY <2>1 DEF CancelFrame, Canceled
    <3>3. /\ \A s \in Threads : UUIDOf[g] \notin tok[s]
          /\ \A c \in Cancels : UUIDOf[g] \notin Canceled(c)
      BY <3>1 DEF CancelInv, PastCancel
    <3>4. /\ tok'[t] = tok[t] \cup {UUIDOf[g]}
          /\ \A s \in Threads : s # t => tok'[s] = tok[s]
      BY <3>1, Types
    <3>5. \A s \in Threads : pc'[s] \notin CancelPCs => tok'[s] = {}
      BY <2>1, <3>1, <3>4 DEF CancelFrame, CancelInv
    <3>6. \A h \in Goals : gstate'[h] \notin PastCancel =>
            /\ \A s \in Threads : UUIDOf[h] \notin tok'[s]
            /\ \A c \in Cancels : UUIDOf[h] \notin Canceled(c)'
      <4> SUFFICES ASSUME NEW h \in Goals, gstate'[h] \notin PastCancel
                   PROVE  /\ \A s \in Threads : UUIDOf[h] \notin tok'[s]
                          /\ \A c \in Cancels : UUIDOf[h] \notin Canceled(c)'
        OBVIOUS
      <4>1. h # g /\ gstate[h] \notin PastCancel
        BY <1>a, <3>1, Types DEF PastCancel
      <4>2. UUIDOf[h] # UUIDOf[g]
        BY <3>1, <4>1 DEF Unique
      <4> QED
        BY <3>2, <3>4, <4>1, <4>2 DEF CancelInv, PastCancel
    <3>7. \A r, s \in Threads : r # s => tok'[r] \cap tok'[s] = {}
      BY <3>3, <3>4 DEF CancelInv
    <3>8. \A s \in Threads, c \in Cancels : tok'[s] \cap Canceled(c)' = {}
      BY <3>2, <3>3, <3>4 DEF CancelInv
    <3>9. \A c, d \in Cancels : c # d => Canceled(c)' \cap Canceled(d)' = {}
      BY <3>2 DEF CancelInv
    <3> QED
      BY <1>b, <2>1, <3>5, <3>6, <3>7, <3>8, <3>9 DEF CancelFrame, CancelInv, PastCancel
  <2> QED
    BY <2>2, <2>3
<1>3. ASSUME NEW t \in Threads, CancelRespond(t)
      PROVE  CancelInv'
  <2>0. PICK d \in Cancels : d = treq[t]
    BY <1>3, <1>b DEF CancelRespond, CancelPCs
  <2>1. /\ pc[t] \in CancelPCs /\ pc' = [pc EXCEPT ![t] = "idle"]
        /\ treq' = [treq EXCEPT ![t] = None] /\ tok' = [tok EXCEPT ![t] = {}]
        /\ cancelReq' = cancelReq /\ gstate' = gstate
        /\ \E code : cancelResp' = [cancelResp EXCEPT ![d] = [code |-> code, goals |-> tok[t]]]
    BY <1>3, <2>0 DEF CancelRespond, CancelPCs, Goto, rclVars
  <2>2. /\ Canceled(d)' \subseteq tok[t] /\ \A c \in Cancels : c # d => Canceled(c)' = Canceled(c)
        /\ \A c \in Cancels : c # d => cancelResp'[c] = cancelResp[c]
    BY <1>b, <2>1 DEF Canceled
  <2>3. /\ tok'[t] = {} /\ \A s \in Threads : s # t => tok'[s] = tok[s]
    BY <2>1, Types
  <2>4. /\ pc'[t] \notin CancelPCs
        /\ \A s \in Threads : s # t => pc'[s] = pc[s] /\ treq'[s] = treq[s]
    BY <2>1, Types DEF CancelPCs
  <2>5. cancelReq[d] # None
    BY <2>0, <2>1 DEF CancelInv
  <2>6. \A s \in Threads : s # t /\ pc[s] \in CancelPCs => treq[s] # d
    BY <2>0, <2>1 DEF CancelInv
  <2>7. \A h \in Goals : gstate'[h] \notin PastCancel =>
          /\ \A s \in Threads : UUIDOf[h] \notin tok'[s]
          /\ \A c \in Cancels : UUIDOf[h] \notin Canceled(c)'
    BY <2>1, <2>2, <2>3 DEF CancelInv, PastCancel
  <2>8. \A s \in Threads, c \in Cancels : tok'[s] \cap Canceled(c)' = {}
    BY <2>2, <2>3 DEF CancelInv
  <2>9. \A b, c \in Cancels : b # c => Canceled(b)' \cap Canceled(c)' = {}
    BY <2>2 DEF CancelInv
  <2>10. \A r, s \in Threads : r # s => tok'[r] \cap tok'[s] = {}
    BY <2>3 DEF CancelInv
  <2>11. \A s \in Threads : pc'[s] \notin CancelPCs => tok'[s] = {}
    BY <2>3, <2>4 DEF CancelInv
  <2>12. /\ \A c \in Cancels : cancelReq'[c] = None =>
              cancelResp'[c] = None /\ \A s \in Threads : pc'[s] \in CancelPCs => treq'[s] # c
         /\ \A r, s \in Threads : pc'[r] \in CancelPCs /\ pc'[s] \in CancelPCs /\ r # s
              => treq'[r] # treq'[s]
         /\ \A s \in Threads : pc'[s] \in CancelPCs => cancelResp'[treq'[s]] = None
    BY <1>b, <2>1, <2>2, <2>4, <2>5, <2>6 DEF CancelInv
  <2> QED
    BY <2>7, <2>8, <2>9, <2>10, <2>11, <2>12 DEF CancelInv, PastCancel
<1>4. ASSUME NEW t \in Threads, NEW c \in Cancels, NEW u \in UUIDs \cup {None},
             NEW q \in CancelStamps, CancelRequestReceived(t, c, u, q)
      PROVE  CancelInv'
  <2>1. /\ pc[t] = "idle" /\ pc' = [pc EXCEPT ![t] = "c_next"]
        /\ treq' = [treq EXCEPT ![t] = c] /\ cancelReq[c] = None
        /\ cancelReq' = [cancelReq EXCEPT ![c] = [uuid |-> u, stamp |-> q]]
        /\ UNCHANGED <<tok, cancelResp, gstate>>
    BY <1>4 DEF CancelRequestReceived, CanTake, Goto, rclVars
  <2>2. /\ cancelReq'[c] # None /\ \A d \in Cancels : d # c => cancelReq'[d] = cancelReq[d]
    BY <1>b, <2>1, ServerAssumption
  <2>3. /\ pc[t] \notin CancelPCs /\ treq'[t] = c
        /\ \A s \in Threads : s # t => pc'[s] = pc[s] /\ treq'[s] = treq[s]
    BY <2>1, Types DEF CancelPCs
  <2>4. \A d \in Cancels : Canceled(d)' = Canceled(d)
    BY <2>1 DEF Canceled
  <2>5. cancelResp[c] = None /\ \A s \in Threads : pc[s] \in CancelPCs => treq[s] # c
    BY <2>1 DEF CancelInv
  <2>6. \A s \in Threads : pc'[s] \notin CancelPCs => tok'[s] = {}
    BY <2>1, <2>3 DEF CancelInv
  <2>7. /\ \A d \in Cancels : cancelReq'[d] = None =>
             cancelResp'[d] = None /\ \A s \in Threads : pc'[s] \in CancelPCs => treq'[s] # d
        /\ \A r, s \in Threads : pc'[r] \in CancelPCs /\ pc'[s] \in CancelPCs /\ r # s
             => treq'[r] # treq'[s]
        /\ \A s \in Threads : pc'[s] \in CancelPCs => cancelResp'[treq'[s]] = None
    BY <1>b, <2>1, <2>2, <2>3, <2>5 DEF CancelInv
  <2> QED
    BY <2>1, <2>4, <2>6, <2>7 DEF CancelInv
<1> QED
  BY <1>1, <1>2, <1>3, <1>4, CancelThreadStep, CancelOtherStep DEF ThreadStep

LEMMA CancelHolds ==
    ASSUME Unique
    PROVE  Spec => []CancelInv
<1>1. Init => CancelInv
  BY DEF Init, CancelInv, Canceled, CancelPCs
<1>2. BaseInv /\ CancelInv /\ [Next]_vars => CancelInv'
  <2>1. ASSUME CancelInv, UNCHANGED vars
        PROVE  CancelInv'
    BY <2>1 DEF vars, rclVars, mapVars, threadVars, userVars, msgVars, CancelInv, Canceled
  <2> QED
    BY <2>1, CancelStep DEF BaseInv, AnswerInv
<1> QED
  BY <1>1, <1>2, BaseHolds, PTL DEF Spec

\* With ids that differ, two cancel requests never both report that they
\* canceled the same goal: the second finds it canceling already and
\* _cancel_goal fails, although both selected it and asked the user.
THEOREM GoalsAreCanceledOnce == Unique => (Spec => []CanceledByOneRequest)
<1>1. ASSUME Unique
      PROVE  Spec => []CanceledByOneRequest
  <2>1. CancelInv => CanceledByOneRequest
    BY DEF CancelInv, CanceledByOneRequest, Canceled
  <2>2. Spec => []CancelInv
    BY <1>1, CancelHolds
  <2> QED
    BY <2>1, <2>2, PTL
<1> QED
  BY <1>1

-----------------------------------------------------------------------------
(* Who owns the handle of a tracked goal, and what became of an accepted one *)

\* Two actions change what the server tracks.
LEMMA TrackedStep ==
    ASSUME Next
    PROVE  \/ goals' = goals
           \/ \E t \in Threads : GoalAccept(t) \/ ExpireGoals(t)
<1> USE DEF rclVars
<1>1. ASSUME NEW t \in Threads, ThreadStep(t), ~GoalAccept(t), ~ExpireGoals(t)
      PROVE  goals' = goals
  <2>1. CASE GoalStore(t) \/ GoalExecute(t) \/ GoalPublishStatus(t) \/ GoalRegister(t)
    BY <2>1 DEF GoalStore, GoalExecute, GoalPublishStatus, GoalRegister
  <2>2. CASE AcceptedReturn(t) \/ AcceptedDestroyed(t) \/ \E u \in UUIDs : CancelLookup(t, u)
    BY <2>2 DEF AcceptedReturn, AcceptedDestroyed, CancelLookup
  <2>3. CASE CancelCallback(t) \/ CancelRelease(t) \/ CancelDestroyed(t) \/ CancelRespond(t)
    BY <2>3 DEF CancelCallback, CancelRelease, CancelDestroyed, CancelRespond
  <2>4. CASE ResultLookup(t) \/ ExpireErase(t)
    BY <2>4 DEF ResultLookup, ExpireErase
  <2> QED
    BY <1>1, <2>1, <2>2, <2>3, <2>4 DEF ThreadStep
<1>2. ASSUME NEW t \in Threads, Take(t)
      PROVE  goals' = goals
  BY <1>2 DEF Take, GoalRequestReceived, CancelRequestReceived, ResultRequestReceived,
              ExpireTimerReady
<1>3. ASSUME NEW g \in Goals, UserStep(g) \/ UserExecuteStatus(g)
      PROVE  goals' = goals
  BY <1>3 DEF UserStep, UserExecuteStatus, UserExecute, UserFinish, UserDrop,
              DestroyHandle
<1>4. ASSUME NEW g \in Goals, TerminalStep(g)
      PROVE  goals' = goals
  BY <1>4 DEF TerminalStep, PublishResultExists, PublishResultStore, TerminalStatus,
              NotifyGoalDone, TerminalErase
<1>5. CASE Tick
  BY <1>5 DEF Tick
<1> QED
  BY <1>1, <1>2, <1>3, <1>4, <1>5, NextCases

\* Three actions are about a handle goal_handles_ keeps or is to keep; the others
\* leave the map alone, and the threads that are to store into or erase from it.
OwnFrame ==
    /\ goal_handles_' = goal_handles_
    /\ \A t \in Threads : pc[t] = "g_store" => pc'[t] = "g_store" /\ tgoal'[t] = tgoal[t]
    /\ \A t \in Threads : pc'[t] = "e_erase" => pc[t] = "e_erase" /\ tgoal'[t] = tgoal[t]

LEMMA OwnThreadStep ==
    ASSUME CoreInv, NEW t \in Threads, ThreadStep(t), ~GoalStore(t), ~ExpireGoals(t),
           ~ExpireErase(t)
    PROVE  OwnFrame
<1> USE DEF Goto, GoalHandlerDone, mapVars, OwnFrame
<1>1. CASE GoalAccept(t) \/ GoalExecute(t)
  BY <1>1, Types DEF GoalAccept, GoalExecute
<1>2. CASE GoalPublishStatus(t) \/ GoalRegister(t)
  BY <1>2, Types DEF GoalPublishStatus, GoalRegister
<1>3. CASE AcceptedReturn(t) \/ AcceptedDestroyed(t)
  BY <1>3, Types DEF AcceptedReturn, AcceptedDestroyed
<1>4. CASE \E u \in UUIDs : CancelLookup(t, u)
  BY <1>4, Types DEF CancelLookup
<1>5. CASE CancelCallback(t) \/ CancelRelease(t)
  BY <1>5, Types DEF CancelCallback, CancelRelease
<1>6. CASE CancelDestroyed(t) \/ CancelRespond(t)
  BY <1>6, Types DEF CancelDestroyed, CancelRespond
<1>7. CASE ResultLookup(t)
  BY <1>7, Types DEF ResultLookup
<1> QED
  BY <1>1, <1>2, <1>3, <1>4, <1>5, <1>6, <1>7 DEF ThreadStep

LEMMA OwnOtherStep ==
    ASSUME CoreInv, Next, \A t \in Threads : ~ThreadStep(t)
    PROVE  OwnFrame
<1> USE DEF OwnFrame, mapVars
<1>1. ASSUME NEW t \in Threads, Take(t)
      PROVE  OwnFrame
  <2>1. goal_handles_' = goal_handles_
    BY <1>1 DEF Take, GoalRequestReceived, CancelRequestReceived, ResultRequestReceived,
                ExpireTimerReady
  <2> QED
    BY <1>1, <2>1, TakeLocals, TakePC DEF ThreadFrame
<1>2. ASSUME NEW g \in Goals, UserStep(g) \/ UserExecuteStatus(g)
      PROVE  OwnFrame
  <2>1. goal_handles_' = goal_handles_
    BY <1>2 DEF UserStep, UserExecuteStatus, UserExecute, UserFinish, UserDrop,
                DestroyHandle
  <2> QED
    BY <1>2, <2>1, OtherLocals
<1>3. ASSUME NEW g \in Goals, TerminalStep(g)
      PROVE  OwnFrame
  <2>1. goal_handles_' = goal_handles_
    BY <1>3 DEF TerminalStep, PublishResultExists, PublishResultStore, TerminalStatus,
                NotifyGoalDone, TerminalErase
  <2> QED
    BY <1>3, <2>1, OtherLocals
<1>4. CASE Tick
  BY <1>4, OtherLocals DEF Tick
<1> QED
  BY <1>1, <1>2, <1>3, <1>4, NextCases

\* The goals that expire have ended.
LEMMA ExpiredHaveEnded ==
    ASSUME CoreInv, ArmedOK, NEW g \in ExpiredGoals
    PROVE  g \in Goals /\ g \in goals /\ gstate[g] \in TerminalStates
  BY Types DEF ExpiredGoals, ArmedOK, IsActive, rcl_action_goal_handle_is_active, GoalStates

LEMMA OwnStep ==
    ASSUME Unique, BaseInv, OwnInv, Next
    PROVE  OwnInv'
<1>a. CoreInv /\ LifeOK /\ ArmedOK
  BY DEF BaseInv, AnswerInv
<1>b. goal_handles_ \in [UUIDs -> Goals \cup {None}]
  BY <1>a DEF CoreInv, TypeOK
<1>c. \A t \in Threads : pc[t] = "e_erase" =>
        tgoal[t] \in Goals /\ gstate'[tgoal[t]] \in TerminalStates
  BY <1>a, TerminalIsFinal, Types DEF OwnInv, GoalPCs
<1>1. ASSUME OwnFrame, \A t \in Threads : ~GoalAccept(t) /\ ~ExpireGoals(t)
      PROVE  OwnInv'
  <2>1. goals' = goals
    BY <1>1, TrackedStep
  <2> QED
    BY <1>c, <1>1, <2>1 DEF OwnInv, OwnFrame
<1>2. ASSUME NEW t \in Threads, GoalAccept(t)
      PROVE  OwnInv'
  <2>1. OwnFrame
    BY <1>2, <1>a, OwnThreadStep DEF ThreadStep, GoalAccept, GoalStore, ExpireGoals, ExpireErase
  <2>2. CASE goals' = goals
    BY <1>c, <2>1, <2>2 DEF OwnInv, OwnFrame
  <2>3. CASE goals' # goals
    <3>1. /\ goals' = goals \cup {tgoal[t]} /\ pc'[t] = "g_store" /\ tgoal'[t] = tgoal[t]
          /\ gstate[tgoal[t]] = "UNKNOWN"
      BY <1>2, <1>a, <2>3, Types DEF GoalAccept, rclVars, Goto, CoreInv, FreshOK
    <3>2. \A s \in Threads : pc[s] = "e_erase" => tgoal[s] # tgoal[t]
      BY <3>1, StatesDisjoint DEF OwnInv
    <3> QED
      BY <1>c, <2>1, <3>1, <3>2 DEF OwnInv, OwnFrame
  <2> QED
    BY <2>2, <2>3
<1>3. ASSUME NEW t \in Threads, GoalStore(t)
      PROVE  OwnInv'
  <2>1. /\ tgoal[t] \in Goals /\ goals' = goals /\ tgoal' = tgoal /\ gstate' = gstate
        /\ goal_handles_' = [goal_handles_ EXCEPT ![UUIDOf[tgoal[t]]] = tgoal[t]]
        /\ pc'[t] # "e_erase" /\ \A s \in Threads : s # t => pc'[s] = pc[s]
    BY <1>3, <1>a, Types DEF GoalStore, GoalPCs, rclVars, Goto
  <2>2. \A g \in Goals : goal_handles_'[UUIDOf[g]] =
          IF g = tgoal[t] THEN g ELSE goal_handles_[UUIDOf[g]]
    BY <1>a, <1>b, <2>1, Types DEF Unique
  <2> QED
    BY <1>a, <2>1, <2>2, Types DEF OwnInv
<1>4. ASSUME NEW t \in Threads, ExpireGoals(t)
      PROVE  OwnInv'
  <2>1. /\ goal_handles_' = goal_handles_ /\ gstate' = gstate
        /\ \A s \in Threads : s # t => pc'[s] = pc[s] /\ tgoal'[s] = tgoal[s]
        /\ pc[t] = "e_expire"
    BY <1>4, <1>a, Types DEF ExpireGoals, mapVars, Goto
  <2>2. CASE goals' = goals /\ pc'[t] # "e_erase"
    BY <2>1, <2>2 DEF OwnInv
  <2>3. ASSUME NEW g \in ExpiredGoals, goals' = goals \ {g}, tgoal'[t] = g
        PROVE  OwnInv'
    BY <1>a, <2>1, <2>3, ExpiredHaveEnded DEF OwnInv
  <2> QED
    BY <1>4, <1>a, <2>2, <2>3, Types DEF ExpireGoals, Goto
<1>5. ASSUME NEW t \in Threads, ExpireErase(t)
      PROVE  OwnInv'
  <2>1. /\ tgoal[t] \in Goals /\ tgoal[t] \notin goals /\ goals' = goals /\ gstate' = gstate
        /\ goal_handles_' = [goal_handles_ EXCEPT ![UUIDOf[tgoal[t]]] = None]
        /\ \A s \in Threads : s # t => pc'[s] = pc[s] /\ tgoal'[s] = tgoal[s]
        /\ pc'[t] = "e_expire" /\ pc[t] = "e_erase"
    BY <1>5, <1>a, Types DEF ExpireErase, GoalPCs, rclVars, Goto, OwnInv
  <2>2. \A g \in goals : goal_handles_'[UUIDOf[g]] = goal_handles_[UUIDOf[g]]
    BY <1>a, <1>b, <2>1, Types DEF Unique
  <2> QED
    BY <2>1, <2>2 DEF OwnInv
<1> QED
  BY <1>a, <1>1, <1>2, <1>3, <1>4, <1>5, OwnThreadStep, OwnOtherStep DEF ThreadStep

LEMMA OwnHolds ==
    ASSUME Unique
    PROVE  Spec => []OwnInv
<1>1. Init => OwnInv
  BY DEF Init, OwnInv
<1>2. BaseInv /\ OwnInv /\ [Next]_vars => OwnInv'
  <2>1. ASSUME OwnInv, UNCHANGED vars
        PROVE  OwnInv'
    BY <2>1 DEF vars, rclVars, mapVars, threadVars, OwnInv
  <2> QED
    BY <2>1, OwnStep
<1> QED
  BY <1>1, <1>2, BaseHolds, PTL DEF Spec

\* rcl_action only borrows the goal handles it tracks.  With ids that differ
\* every tracked handle is kept alive by goal_handles_, or by the handler that
\* is about to put it there: execute_check_expired_goals erases the entry in a
\* critical section of its own, after rcl_action_expire_goals forgot the goal.
THEOREM TrackedHandlesStayOwned == Unique => (Spec => []TrackedHandleIsOwned)
<1>1. ASSUME Unique
      PROVE  Spec => []TrackedHandleIsOwned
  <2>1. OwnInv => TrackedHandleIsOwned
    BY DEF OwnInv, TrackedHandleIsOwned, HandleOwned
  <2>2. Spec => []OwnInv
    BY <1>1, OwnHolds
  <2> QED
    BY <2>1, <2>2, PTL
<1> QED
  BY <1>1

\* Threads with a goal that is to be accepted.
LEMMA AcceptingStep ==
    ASSUME CoreInv, Next, NEW t \in Threads, pc[t] = "g_accept", ~GoalAccept(t)
    PROVE  pc'[t] = "g_accept" /\ tgoal'[t] = tgoal[t]
<1>1. ~ThreadStep(t)
  BY DEF ThreadStep, GoalStore, GoalExecute, GoalPublishStatus, GoalRegister, AcceptedReturn,
         AcceptedDestroyed, CancelLookup, CancelCallback, CancelRelease, CancelDestroyed,
         CancelRespond, ResultLookup, ExpireGoals, ExpireErase
<1>2. ASSUME NEW s \in Threads, ThreadStep(s)
      PROVE  pc'[t] = pc[t] /\ tgoal'[t] = tgoal[t]
  BY <1>1, <1>2, ThreadStepLocals DEF ThreadFrame
<1>3. ASSUME NEW s \in Threads, Take(s)
      PROVE  pc'[t] = pc[t] /\ tgoal'[t] = tgoal[t]
  BY <1>3, TakeLocals DEF ThreadFrame
<1> QED
  BY <1>2, <1>3, OtherLocals, NextCases

LEMMA ThrownStep ==
    ASSUME Next
    PROVE  thrown \subseteq thrown'
<1>1. ASSUME NEW t \in Threads, ThreadStep(t)
      PROVE  thrown \subseteq thrown'
  BY <1>1 DEF ThreadStep, GoalAccept, GoalStore, GoalExecute, GoalPublishStatus, GoalRegister,
         AcceptedReturn, AcceptedDestroyed, CancelLookup, CancelCallback, CancelRelease,
         CancelDestroyed, CancelRespond, ResultLookup, ExpireGoals, ExpireErase
<1>2. ASSUME NEW t \in Threads, Take(t)
      PROVE  thrown \subseteq thrown'
  BY <1>2 DEF Take, GoalRequestReceived, CancelRequestReceived, ResultRequestReceived,
              ExpireTimerReady
<1>3. ASSUME NEW g \in Goals, UserStep(g) \/ UserExecuteStatus(g) \/ TerminalStep(g)
      PROVE  thrown \subseteq thrown'
  BY <1>3 DEF UserStep, UserExecuteStatus, UserExecute, UserFinish, UserDrop, DestroyHandle,
              TerminalStep, PublishResultExists, PublishResultStore, TerminalStatus, NotifyGoalDone,
              TerminalErase
<1>4. CASE Tick
  BY <1>4 DEF Tick
<1> QED
  BY <1>1, <1>2, <1>3, <1>4, NextCases

LEMMA KnownStep ==
    ASSUME BaseInv, KnownInv, Next
    PROVE  KnownInv'
<1>a. CoreInv /\ LifeOK /\ ArmedOK
  BY DEF BaseInv, AnswerInv
<1> SUFFICES ASSUME NEW g \in Goals, goalResp'[g] = "accepted"
             PROVE  \/ g \in thrown' \cup goals'
                    \/ gstate'[g] \in TerminalStates
                    \/ \E t \in Threads : pc'[t] = "g_accept" /\ tgoal'[t] = g
  BY DEF KnownInv
<1>1. CASE goalResp[g] # "accepted"
  <2>1. PICK t \in Threads, h \in Goals : GoalRequestReceived(t, h)
    <3>1. goalResp' # goalResp
      BY <1>1
    <3>2. ~\E t \in Threads : ThreadStep(t)
      BY <1>a, <3>1, ThreadStepLocals
    <3> QED
      BY <3>1, <3>2, OtherLocals, NextCases
         DEF Take, CancelRequestReceived, ResultRequestReceived, ExpireTimerReady, msgVars
  <2>2. /\ pc'[t] = "g_accept" /\ tgoal'[t] = h /\ goalResp' = [goalResp EXCEPT ![h] = "accepted"]
    BY <1>a, <1>1, <2>1, Types DEF GoalRequestReceived, Goto, CoreInv, TypeOK
  <2>3. h = g
    BY <1>a, <1>1, <2>2 DEF CoreInv, TypeOK
  <2> QED
    BY <2>2, <2>3
<1>2. CASE goalResp[g] = "accepted" /\ g \in thrown
  BY <1>2, ThrownStep
<1>3. CASE gstate[g] \in TerminalStates
  BY <1>a, <1>3, TerminalIsFinal
<1>4. CASE g \in goals /\ gstate[g] \notin TerminalStates
  <2>1. ASSUME NEW t \in Threads, GoalAccept(t)
        PROVE  g \in goals'
    BY <1>4, <2>1 DEF GoalAccept, rclVars
  <2>2. ASSUME NEW t \in Threads, ExpireGoals(t)
        PROVE  g \in goals'
    BY <1>a, <1>4, <2>2, ExpiredHaveEnded DEF ExpireGoals
  <2> QED
    BY <1>4, <2>1, <2>2, TrackedStep
<1>5. ASSUME NEW t \in Threads, pc[t] = "g_accept", tgoal[t] = g
      PROVE  \/ g \in thrown' \cup goals'
             \/ pc'[t] = "g_accept" /\ tgoal'[t] = g
  <2>1. CASE GoalAccept(t)
    BY <1>5, <2>1 DEF GoalAccept
  <2>2. CASE ~GoalAccept(t)
    BY <1>a, <1>5, <2>2, AcceptingStep
  <2> QED
    BY <2>1, <2>2
<1> QED
  BY <1>1, <1>2, <1>3, <1>4, <1>5 DEF KnownInv

\* "unknown goal" is an answer given when a request arrives, and only then.
LEMMA UnknownOnArrival ==
    ASSUME CoreInv, Next, NEW r \in Requests, answer[r] = <<>>, answer'[r] = <<"UNKNOWN">>
    PROVE  \E t \in Threads, u \in UUIDs :
             ResultRequestReceived(t, r, u) /\ ~rcl_action_server_goal_exists(u)
<1>a. OnceTypes /\ answer' # answer
  BY OnceTypesHold
<1>b. \A v \in TerminalStates : <<v>> # <<"UNKNOWN">>
  <2>1. \A v \in TerminalStates : <<v>>[1] # <<"UNKNOWN">>[1]
    BY StatesDisjoint
  <2> QED
    BY <2>1
<1>1. ASSUME NEW t \in Threads, ResultLookup(t)
      PROVE  FALSE
  <2> DEFINE v == goal_results_[asked[treq[t]]]
  <2>1. treq[t] \in Requests /\ asked[treq[t]] \in UUIDs
    BY <1>1 DEF ResultLookup, CoreInv, LocalsOK
  <2>2. v \in TerminalStates /\ answer' = [answer EXCEPT ![treq[t]] = Append(answer[treq[t]], v)]
    BY <1>a, <1>1, <2>1 DEF ResultLookup, OnceTypes
  <2> HIDE DEF v
  <2>3. treq[t] = r
    BY <1>a, <2>1, <2>2, FirstAnswer, StatesDisjoint DEF OnceTypes
  <2>4. answer'[r] = Append(<<>>, v)
    BY <1>a, <2>2, <2>3 DEF OnceTypes
  <2> QED
    BY <1>b, <2>2, <2>4, FirstAnswer
<1>2. ASSUME NEW g \in Goals, PublishResultStore(g)
      PROVE  FALSE
  <2>1. result_msg[g] \in TerminalStates
    BY <1>2 DEF PublishResultStore, CoreInv, ResultOK
  <2>2. answer'[r] \in {<<>>, Append(<<>>, result_msg[g])}
    BY <1>2 DEF PublishResultStore
  <2>3. <<>> # <<"UNKNOWN">>
    OBVIOUS
  <2> QED
    BY <1>b, <2>1, <2>2, <2>3, FirstAnswer
<1>3. ASSUME NEW t \in Threads, ExpireErase(t)
      PROVE  FALSE
  BY <1>a, <1>3 DEF ExpireErase, msgVars
<1>4. PICK t \in Threads, q \in Requests, u \in UUIDs : ResultRequestReceived(t, q, u)
  BY <1>a, <1>1, <1>2, <1>3, AnswersUnchanged
<1>5. q = r /\ ~rcl_action_server_goal_exists(u)
  <2>1. <<>> # <<"UNKNOWN">>
    OBVIOUS
  <2> QED
    BY <1>a, <1>4, <2>1 DEF ResultRequestReceived, OnceTypes
<1> QED
  BY <1>4, <1>5

\* In a mutually exclusive callback group, a client whose goal was accepted is not
\* told that the goal is unknown, unless the goal has expired (or its id was
\* refused as a duplicate).  The response leaves before rcl_action_accept_new_goal,
\* so it takes the exclusion: no result request is taken while a goal that was
\* accepted is still to be tracked.
THEOREM AcceptedGoalsAreKnown == ~Reentrant => (Spec => AcceptedGoalIsKnown)
<1>1. Spec => []KnownInv
  <2>1. Init => KnownInv
    BY DEF Init, KnownInv
  <2>2. BaseInv /\ KnownInv /\ [Next]_vars => KnownInv'
    <3>1. ASSUME KnownInv, UNCHANGED vars
          PROVE  KnownInv'
      BY <3>1 DEF vars, rclVars, threadVars, msgVars, KnownInv
    <3> QED
      BY <3>1, KnownStep
  <2> QED
    BY <2>1, <2>2, BaseHolds, PTL DEF Spec
<1>2. ASSUME ~Reentrant
      PROVE  Spec => AcceptedGoalIsKnown
  <2> DEFINE Known(r) ==
               (answer[r] = <<>> /\ answer'[r] = <<"UNKNOWN">>)
                 => \A g \in Goals :
                      (UUIDOf[g] = asked'[r] /\ goalResp[g] = "accepted" /\ g \notin thrown)
                          => gstate[g] \in TerminalStates
  <2>1. ASSUME BaseInv, KnownInv, Next
        PROVE  \A r \in Requests : Known(r)
    <3> SUFFICES ASSUME NEW r \in Requests, answer[r] = <<>>, answer'[r] = <<"UNKNOWN">>,
                        NEW g \in Goals, UUIDOf[g] = asked'[r], goalResp[g] = "accepted",
                        g \notin thrown
                 PROVE  gstate[g] \in TerminalStates
      OBVIOUS
    <3>1. PICK t \in Threads, u \in UUIDs :
            ResultRequestReceived(t, r, u) /\ ~rcl_action_server_goal_exists(u)
      BY <2>1, UnknownOnArrival DEF BaseInv, AnswerInv
    <3>2. asked'[r] = u /\ \A s \in Threads : pc[s] = "idle"
      BY <1>2, <2>1, <3>1, OnceTypesHold
         DEF ResultRequestReceived, CanTake, BaseInv, AnswerInv, OnceTypes
    <3>3. g \notin goals
      BY <3>1, <3>2 DEF rcl_action_server_goal_exists
    <3> QED
      BY <2>1, <3>2, <3>3 DEF KnownInv
  <2>2. BaseInv /\ KnownInv /\ [Next]_vars => [\A r \in Requests : Known(r)]_vars
    BY <2>1
  <2> QED
    BY <1>1, <2>2, BaseHolds, PTL DEF Spec, AcceptedGoalIsKnown
<1> QED
  BY <1>2

-----------------------------------------------------------------------------
(* A cancelable goal can be asked to cancel *)

CancelableStates == {"ACCEPTED", "EXECUTING"}

LEMMA CancelableIs ==
    ASSUME NEW g
    PROVE  /\ IsCancelable(g) <=> gstate[g] \in CancelableStates
           /\ gstate[g] \in CancelableStates => try_canceling(g)
  BY DEF IsCancelable, rcl_action_goal_handle_is_cancelable, rcl_action_transition_goal_state,
         CancelableStates, try_canceling, Canceling, rcl_action_update_goal_state_ok

\* A cancelable goal was so before, or has just been accepted.
LEMMA CancelableStep ==
    ASSUME CoreInv, ArmedOK, Next, NEW g \in goals', gstate'[g] \in CancelableStates
    PROVE  \/ g \in goals /\ gstate[g] \in CancelableStates
           \/ \E t \in Threads : GoalAccept(t) /\ pc'[t] = "g_store" /\ tgoal'[t] = g
<1>a. CancelableStates \cap PastCancel = {} /\ GoalStates = CancelableStates \cup PastCancel \cup {"UNKNOWN"}
  BY DEF CancelableStates, PastCancel, GoalStates, ActiveStates, TerminalStates
<1>1. CASE g \in goals
  <2>1. g \in Goals /\ gstate[g] # "UNKNOWN"
    BY <1>1, Types DEF ArmedOK
  <2> QED
    BY <1>1, <1>a, <2>1, PastCancelStays, Types
<1>2. CASE g \notin goals
  <2>1. \A t \in Threads : ~ExpireGoals(t)
    BY <1>2 DEF ExpireGoals
  <2>2. PICK t \in Threads : GoalAccept(t)
    BY <1>2, <2>1, TrackedStep
  <2> QED
    BY <1>2, <2>2, Types DEF GoalAccept, Goto, rclVars
<1> QED
  BY <1>1, <1>2

\* Someone keeps the typed handle of g alive, and the server can find it.
Reachable(g) == typed_handles_[UUIDOf[g]] = g /\ (uref[g] \/ Holders(g) # {})

Registering(g) == \E t \in Threads : tgoal[t] = g /\ pc[t] \in RegisterPCs \ {"g_accept"}

\* A request to cancel g is put to the user, or its destructor cancels it.
Dying(g) == upc[g] = "d_cancel"

Cared(g) == Reachable(g) \/ Registering(g) \/ Dying(g)

\* What a step has to keep for the goals that were and are cancelable.
AskedKept ==
    \A g \in goals \cap goals' :
        /\ gstate[g] \in CancelableStates /\ gstate'[g] \in CancelableStates
        /\ Cared(g)
        => Cared(g)'

\* The steps that leave a handle's owners alone.
OwnersFrame ==
    /\ UNCHANGED <<typed_handles_, uref, upc>>
    /\ \A t \in Threads :
         \/ pc'[t] = pc[t] /\ tgoal'[t] = tgoal[t]
         \/ pc[t] \notin HolderPCs \cup (RegisterPCs \ {"g_accept"})
         \/ /\ tgoal'[t] = tgoal[t]
            /\ \/ pc[t] \in HolderPCs /\ pc'[t] \in HolderPCs
               \/ pc[t] \in RegisterPCs /\ pc'[t] \in RegisterPCs \ {"g_accept"}

LEMMA OwnersKept ==
    ASSUME OwnersFrame
    PROVE  AskedKept
<1> SUFFICES ASSUME NEW g \in goals, Cared(g)
             PROVE  Cared(g)'
  BY DEF AskedKept
<1>1. CASE Registering(g)
  BY <1>1 DEF OwnersFrame, Registering, HolderPCs, RegisterPCs, Cared
<1>2. CASE Reachable(g)
  <2>1. Holders(g) \subseteq Holders(g)'
    BY DEF OwnersFrame, Holders, HolderPCs, RegisterPCs
  <2> QED
    BY <1>2, <2>1 DEF Reachable, OwnersFrame, Cared
<1>3. CASE Dying(g)
  BY <1>3 DEF Dying, OwnersFrame, Cared
<1> QED
  BY <1>1, <1>2, <1>3 DEF Cared

LEMMA AskedThreadStep ==
    ASSUME Unique, CoreInv, LifeOK, StatusInv, NEW t \in Threads, ThreadStep(t)
    PROVE  AskedKept
<1> USE DEF Goto, GoalHandlerDone, userVars
<1>a. /\ typed_handles_ \in [UUIDs -> Goals \cup {None}] /\ uref \in [Goals -> BOOLEAN]
  BY DEF CoreInv, TypeOK
<1>1. CASE GoalAccept(t) \/ GoalStore(t) \/ GoalPublishStatus(t)
  <2>1. OwnersFrame
    BY <1>1, Types DEF GoalAccept, GoalStore, GoalPublishStatus, OwnersFrame, HolderPCs,
                       RegisterPCs
  <2> QED
    BY <2>1, OwnersKept
<1>2. CASE GoalExecute(t)
  <2>1. rcl_action_update_goal_state_ok(gstate[tgoal[t]], "EXECUTE")
    BY <1>2, Types DEF GoalExecute, StatusInv, GoalPCs, rcl_action_update_goal_state_ok,
                       rcl_action_transition_goal_state
  <2>2. OwnersFrame
    BY <1>2, <2>1, Types DEF GoalExecute, OwnersFrame, HolderPCs, RegisterPCs
  <2> QED
    BY <2>2, OwnersKept
<1>3. CASE GoalRegister(t)
  <2>1. PICK h \in Goals : h = tgoal[t]
    BY <1>3, Types DEF GoalRegister, GoalPCs
  <2>2. /\ pc[t] = "g_register" /\ pc'[t] = "g_user"
        /\ \A s \in Threads : tgoal'[s] = tgoal[s] /\ (s # t => pc'[s] = pc[s])
        /\ typed_handles_' = [typed_handles_ EXCEPT ![UUIDOf[h]] = h]
        /\ uref' = [uref EXCEPT ![h] = TRUE] /\ upc' = [upc EXCEPT ![h] = "idle"]
    BY <1>3, <2>1, Types DEF GoalRegister
  <2>3. Reachable(h)'
    BY <1>a, <2>2, Types DEF Reachable
  <2>4. ASSUME NEW g \in goals, g # h
        PROVE  Cared(g) => Cared(g)'
    <3>1. g \in Goals /\ UUIDOf[g] # UUIDOf[h]
      BY <2>4, Types DEF Unique
    <3>2. /\ typed_handles_'[UUIDOf[g]] = typed_handles_[UUIDOf[g]]
          /\ uref'[g] = uref[g] /\ upc'[g] = upc[g]
      BY <1>a, <2>2, <2>4, <3>1, Types
    <3>3. Holders(g) \subseteq Holders(g)'
      BY <2>2 DEF Holders
    <3>4. Registering(g) => Registering(g)'
      BY <2>1, <2>2, <2>4 DEF Registering
    <3> QED
      BY <3>2, <3>3, <3>4 DEF Reachable, Cared, Dying
  <2> QED
    BY <2>3, <2>4 DEF AskedKept, Cared
<1>4. CASE AcceptedReturn(t) \/ CancelRelease(t)
  <2>1. PICK h \in Goals : h = tgoal[t]
    BY <1>4, Types DEF AcceptedReturn, CancelRelease, GoalPCs
  <2>2. /\ pc[t] \in HolderPCs /\ UNCHANGED <<typed_handles_, uref>>
        /\ \A s \in Threads : s # t => pc'[s] = pc[s] /\ tgoal'[s] = tgoal[s]
        /\ \/ HoldsLast(t, h) /\ upc' = [upc EXCEPT ![h] = "d_cancel"]
           \/ ~HoldsLast(t, h) /\ upc' = upc
    BY <1>4, <2>1, Types DEF AcceptedReturn, CancelRelease, HolderPCs
  <2>3. ASSUME NEW g \in goals, g # h
        PROVE  Cared(g) => Cared(g)'
    <3>1. Holders(g) \subseteq Holders(g)'
      BY <2>1, <2>2, <2>3 DEF Holders
    <3>2. Registering(g) => Registering(g)'
      BY <2>1, <2>2, <2>3 DEF Registering
    <3>3. Dying(g) => Dying(g)'
      BY <2>2, <2>3, Types DEF Dying
    <3> QED
      BY <2>2, <3>1, <3>2, <3>3 DEF Reachable, Cared
  <2>4. CASE HoldsLast(t, h)
    <3>1. Dying(h)'
      BY <2>2, <2>4, Types DEF Dying
    <3> QED
      BY <2>3, <3>1 DEF AskedKept, Cared
  <2>5. CASE ~HoldsLast(t, h)
    <3>1. t \in Holders(h)
      BY <2>1, <2>2 DEF Holders, HolderPCs
    <3>2. uref[h] \/ Holders(h) # {t}
      BY <2>5 DEF HoldsLast
    <3>3. uref[h] \/ Holders(h)' # {}
      BY <2>2, <3>1, <3>2 DEF Holders
    <3>4. Registering(h) => Registering(h)'
      BY <2>2 DEF Registering, RegisterPCs, HolderPCs
    <3>5. Dying(h) => Dying(h)'
      BY <2>2, <2>5 DEF Dying
    <3>6. Cared(h) => Cared(h)'
      BY <2>2, <3>3, <3>4, <3>5 DEF Reachable, Cared
    <3> QED
      BY <2>3, <3>6 DEF AskedKept
  <2> QED
    BY <2>4, <2>5
<1>5. CASE AcceptedDestroyed(t) \/ CancelDestroyed(t) \/ CancelRespond(t)
  <2>1. OwnersFrame
    BY <1>5, Types DEF AcceptedDestroyed, CancelDestroyed, CancelRespond, OwnersFrame,
                       HolderPCs, RegisterPCs
  <2> QED
    BY <2>1, OwnersKept
<1>6. CASE \E u \in UUIDs : CancelLookup(t, u)
  <2>1. OwnersFrame
    BY <1>6, Types DEF CancelLookup, OwnersFrame, HolderPCs, RegisterPCs
  <2> QED
    BY <2>1, OwnersKept
<1>7. CASE CancelCallback(t)
  <2>1. OwnersFrame
    BY <1>7, Types DEF CancelCallback, OwnersFrame, HolderPCs, RegisterPCs
  <2> QED
    BY <2>1, OwnersKept
<1>8. CASE ResultLookup(t) \/ ExpireGoals(t) \/ ExpireErase(t)
  <2>1. OwnersFrame
    BY <1>8, Types DEF ResultLookup, ExpireGoals, ExpireErase, OwnersFrame, HolderPCs,
                       RegisterPCs
  <2> QED
    BY <2>1, OwnersKept
<1> QED
  BY <1>1, <1>2, <1>3, <1>4, <1>5, <1>6, <1>7, <1>8 DEF ThreadStep

\* A goal whose end is being published has ended.
EndedOK == \A g \in Goals : upc[g] \in TerminalPCs => gstate[g] \in TerminalStates

LEMMA AskedOtherStep ==
    ASSUME Unique, CoreInv, EndedOK, Next, \A t \in Threads : ~ThreadStep(t)
    PROVE  AskedKept
<1> USE DEF userVars
<1>a. /\ typed_handles_ \in [UUIDs -> Goals \cup {None}] /\ uref \in [Goals -> BOOLEAN]
  BY DEF CoreInv, TypeOK
<1>1. ASSUME NEW t \in Threads, Take(t)
      PROVE  AskedKept
  <2>1. UNCHANGED <<typed_handles_, uref, upc>>
    BY <1>1 DEF Take, GoalRequestReceived, CancelRequestReceived, ResultRequestReceived,
                ExpireTimerReady
  <2>2. OwnersFrame
    BY <1>1, <2>1, TakeLocals DEF ThreadFrame, OwnersFrame, HolderPCs, RegisterPCs
  <2> QED
    BY <2>2, OwnersKept
\* A goal that is not being destroyed moves on.
<1>2. ASSUME UNCHANGED <<typed_handles_, uref, pc, tgoal>>,
             \A g \in Goals : gstate'[g] \in CancelableStates /\ Dying(g) => Dying(g)'
      PROVE  AskedKept
  <2>1. \A g : Holders(g)' = Holders(g) /\ (Registering(g)' <=> Registering(g))
    BY <1>2 DEF Holders, Registering
  <2>2. \A g : Reachable(g) => Reachable(g)'
    BY <1>2, <2>1 DEF Reachable
  <2> QED
    BY <1>2, <2>1, <2>2, Types DEF AskedKept, Cared
<1>b. ASSUME NEW h \in Goals, NEW p, upc[h] # "d_cancel", upc' = [upc EXCEPT ![h] = p]
      PROVE  \A g \in Goals : Dying(g) => Dying(g)'
  BY <1>b, Types DEF Dying
<1>3. ASSUME NEW h \in Goals, UserStep(h), ~UserDrop(h)
      PROVE  AskedKept
  <2>1. CASE UserExecute(h)
    BY <1>2, <1>b, <2>1 DEF UserExecute, threadVars
  <2>2. ASSUME NEW e, UserFinish(h, e)
        PROVE  AskedKept
    BY <1>2, <1>b, <2>2 DEF UserFinish, threadVars
  <2>3. CASE DestroyHandle(h)
    <3>1. UNCHANGED <<typed_handles_, uref, pc, tgoal>>
      BY <2>3 DEF DestroyHandle, threadVars
    <3>2. gstate'[h] \notin CancelableStates
      BY <2>3, CancelableIs, CancelingFacts, Types DEF DestroyHandle, CancelableStates
    <3>3. \A g \in Goals : g # h => upc'[g] = upc[g]
      BY <2>3, DestroyCases, Types
    <3> QED
      BY <1>2, <3>1, <3>2, <3>3 DEF Dying
  <2> QED
    BY <1>3, <2>1, <2>2, <2>3 DEF UserStep
<1>4. ASSUME NEW h \in Goals, UserDrop(h)
      PROVE  AskedKept
  <2>1. /\ UNCHANGED <<typed_handles_, pc, tgoal>> /\ uref' = [uref EXCEPT ![h] = FALSE]
        /\ upc[h] # "d_cancel"
        /\ upc' = IF Holders(h) = {} THEN [upc EXCEPT ![h] = "d_cancel"] ELSE upc
    BY <1>4 DEF UserDrop, threadVars
  <2>2. \A g \in Goals : g # h => uref'[g] = uref[g] /\ upc'[g] = upc[g]
    BY <1>a, <2>1, Types
  <2>3. \A g : Holders(g)' = Holders(g) /\ (Registering(g)' <=> Registering(g))
    BY <2>1 DEF Holders, Registering
  <2>4. \A g \in Goals : g # h /\ Cared(g) => Cared(g)'
    BY <2>1, <2>2, <2>3 DEF Cared, Reachable, Dying
  <2>5. CASE Holders(h) = {}
    <3>1. Dying(h)'
      BY <2>1, <2>5, Types DEF Dying
    <3> QED
      BY <2>4, <3>1, Types DEF AskedKept, Cared
  <2>6. CASE Holders(h) # {}
    <3>1. Cared(h) => Cared(h)'
      BY <2>1, <2>3, <2>6 DEF Cared, Reachable, Dying
    <3> QED
      BY <2>4, <3>1, Types DEF AskedKept
  <2> QED
    BY <2>5, <2>6
<1>5. ASSUME NEW h \in Goals, UserExecuteStatus(h) \/ PublishResultExists(h)
                              \/ PublishResultStore(h) \/ TerminalStatus(h) \/ NotifyGoalDone(h)
      PROVE  AskedKept
  <2>1. /\ UNCHANGED <<typed_handles_, uref, pc, tgoal>> /\ upc[h] # "d_cancel"
        /\ \E p : upc' = [upc EXCEPT ![h] = p]
    BY <1>5 DEF UserExecuteStatus, PublishResultExists, PublishResultStore, TerminalStatus,
                NotifyGoalDone, threadVars
  <2> QED
    BY <1>2, <1>b, <2>1
<1>6. ASSUME NEW h \in Goals, TerminalErase(h)
      PROVE  AskedKept
  <2>1. /\ UNCHANGED <<pc, tgoal, uref>> /\ gstate[h] \in TerminalStates
        /\ typed_handles_' = [typed_handles_ EXCEPT ![UUIDOf[h]] = None]
        /\ upc[h] # "d_cancel" /\ upc' = [upc EXCEPT ![h] = "idle"]
    BY <1>6 DEF TerminalErase, threadVars, EndedOK, TerminalPCs
  <2>2. \A g \in Goals : gstate[g] \in CancelableStates =>
          typed_handles_'[UUIDOf[g]] = typed_handles_[UUIDOf[g]]
    BY <1>a, <2>1, Types DEF Unique, CancelableStates, TerminalStates
  <2>3. \A g : Holders(g)' = Holders(g) /\ (Registering(g)' <=> Registering(g))
    BY <2>1 DEF Holders, Registering
  <2>4. \A g \in Goals : Dying(g) => Dying(g)'
    BY <1>b, <2>1
  <2>5. \A g \in Goals : gstate[g] \in CancelableStates /\ Cared(g) => Cared(g)'
    BY <2>1, <2>2, <2>3, <2>4 DEF Cared, Reachable
  <2> QED
    BY <2>5, Types DEF AskedKept
<1>7. CASE Tick
  BY <1>2, <1>7 DEF Tick, threadVars, Dying
<1> QED
  BY <1>1, <1>3, <1>4, <1>5, <1>6, <1>7, NextCases DEF TerminalStep

LEMMA EndedStep ==
    ASSUME CoreInv, EndedOK, Next
    PROVE  EndedOK'
<1> USE DEF userVars
<1>a. CoreInv'
  BY CoreStep
<1> SUFFICES ASSUME NEW g \in Goals, upc'[g] \in {"t_status", "t_notify", "t_erase"}
             PROVE  upc[g] \in TerminalPCs
  BY <1>a, TerminalIsFinal DEF EndedOK, TerminalPCs, CoreInv, ResultOK
<1>1. ASSUME NEW t \in Threads, ThreadStep(t)
      PROVE  upc'[g] = upc[g]
  <2>1. CASE AcceptedReturn(t) \/ CancelRelease(t)
    BY <2>1, Types DEF AcceptedReturn, CancelRelease, GoalPCs
  <2>2. CASE GoalRegister(t)
    BY <2>2, Types DEF GoalRegister, GoalPCs
  <2>3. CASE GoalAccept(t) \/ GoalStore(t) \/ GoalExecute(t) \/ GoalPublishStatus(t)
    BY <2>3 DEF GoalAccept, GoalStore, GoalExecute, GoalPublishStatus
  <2>4. CASE AcceptedDestroyed(t) \/ CancelDestroyed(t) \/ CancelRespond(t) \/ CancelCallback(t)
    BY <2>4 DEF AcceptedDestroyed, CancelDestroyed, CancelRespond, CancelCallback
  <2>5. CASE \E u \in UUIDs : CancelLookup(t, u)
    BY <2>5 DEF CancelLookup
  <2>6. CASE ResultLookup(t) \/ ExpireGoals(t) \/ ExpireErase(t)
    BY <2>6 DEF ResultLookup, ExpireGoals, ExpireErase
  <2> QED
    BY <1>1, <2>1, <2>2, <2>3, <2>4, <2>5, <2>6 DEF ThreadStep
<1>2. ASSUME NEW t \in Threads, Take(t)
      PROVE  upc'[g] = upc[g]
  BY <1>2, TakePC
<1>3. ASSUME NEW h \in Goals, UserStep(h)
      PROVE  upc'[g] = upc[g]
  BY <1>3, Types DEF UserStep, UserExecute, UserFinish, UserDrop, DestroyHandle
<1>4. ASSUME NEW h \in Goals, UserExecuteStatus(h) \/ TerminalStep(h)
      PROVE  upc'[g] = upc[g] \/ upc[g] \in TerminalPCs
  BY <1>4, Types DEF UserExecuteStatus, TerminalStep, PublishResultExists, PublishResultStore,
                     TerminalStatus, NotifyGoalDone, TerminalErase, TerminalPCs
<1>5. CASE Tick
  BY <1>5 DEF Tick, TerminalPCs
<1> QED
  BY <1>1, <1>2, <1>3, <1>4, <1>5, NextCases DEF TerminalPCs

\* A mutually exclusive callback group runs one handler at a time.
OneHandler ==
    ~Reentrant => \A s, t \in Threads : pc[s] # "idle" /\ pc[t] # "idle" => s = t

LEMMA OneHandlerStep ==
    ASSUME CoreInv, OneHandler, Next
    PROVE  OneHandler'
<1>1. ASSUME NEW t \in Threads, ThreadStep(t)
      PROVE  OneHandler'
  <2>1. pc[t] # "idle"
    BY <1>1 DEF ThreadStep, GoalAccept, GoalStore, GoalExecute, GoalPublishStatus,
         GoalRegister, AcceptedReturn, AcceptedDestroyed, CancelLookup, CancelCallback,
         CancelRelease, CancelDestroyed, CancelRespond, ResultLookup, ExpireGoals, ExpireErase
  <2> QED
    BY <1>1, <2>1, ThreadStepLocals DEF ThreadFrame, OneHandler
<1>2. ASSUME NEW t \in Threads, Take(t)
      PROVE  OneHandler'
  <2>1. ~Reentrant => \A s \in Threads : pc[s] = "idle"
    BY <1>2 DEF Take, GoalRequestReceived, CancelRequestReceived, ResultRequestReceived,
                ExpireTimerReady, CanTake
  <2> QED
    BY <1>2, <2>1, TakeLocals DEF ThreadFrame, OneHandler
<1>3. ASSUME pc' = pc
      PROVE  OneHandler'
  BY <1>3 DEF OneHandler
<1> QED
  BY <1>1, <1>2, <1>3, OtherLocals, NextCases

\* The handle of a goal that can be canceled is registered and alive, or the
\* handler of its request is on the way to registering it, or its destructor has
\* begun.
AskedInv ==
    /\ \A g \in goals : gstate[g] \in CancelableStates => Cared(g)
    /\ EndedOK
    /\ OneHandler

LEMMA AskedStep ==
    ASSUME Unique, BaseInv, AskedInv, Next
    PROVE  AskedInv'
<1>a. CoreInv /\ LifeOK /\ ArmedOK /\ StatusInv /\ EndedOK /\ OneHandler
  BY DEF BaseInv, AnswerInv, AskedInv
<1>1. AskedKept
  BY <1>a, AskedThreadStep, AskedOtherStep
<1>2. ASSUME NEW g \in goals', gstate'[g] \in CancelableStates
      PROVE  Cared(g)'
  <2>1. CASE g \in goals /\ gstate[g] \in CancelableStates
    BY <1>1, <1>2, <2>1 DEF AskedInv, AskedKept
  <2>2. CASE \E t \in Threads : GoalAccept(t) /\ pc'[t] = "g_store" /\ tgoal'[t] = g
    BY <2>2 DEF Registering, RegisterPCs, Cared
  <2> QED
    BY <1>a, <1>2, <2>1, <2>2, CancelableStep
<1> QED
  BY <1>a, <1>2, EndedStep, OneHandlerStep DEF AskedInv

\* Only the lookup of a typed handle takes an id off the list of a handler that
\* stays between two goals.
LEMMA ListStep ==
    ASSUME CoreInv, Next, NEW t \in Threads, pc[t] = "c_next", pc'[t] = "c_next",
           tlist'[t] # tlist[t]
    PROVE  \E u \in UUIDs : CancelLookup(t, u)
<1> USE DEF Goto, GoalHandlerDone, threadVars
<1>1. ASSUME NEW s \in Threads, ThreadStep(s), ~\E u \in UUIDs : CancelLookup(t, u)
      PROVE  FALSE
  <2>1. CASE GoalAccept(s) \/ GoalStore(s) \/ GoalExecute(s) \/ GoalPublishStatus(s)
    BY <2>1 DEF GoalAccept, GoalStore, GoalExecute, GoalPublishStatus
  <2>2. CASE GoalRegister(s) \/ AcceptedReturn(s) \/ AcceptedDestroyed(s)
    BY <2>2 DEF GoalRegister, AcceptedReturn, AcceptedDestroyed
  <2>3. ASSUME NEW u \in UUIDs, CancelLookup(s, u)
        PROVE  FALSE
    BY <1>1, <2>3, Types DEF CancelLookup
  <2>4. CASE CancelCallback(s) \/ CancelRelease(s) \/ CancelDestroyed(s) \/ CancelRespond(s)
    BY <2>4 DEF CancelCallback, CancelRelease, CancelDestroyed, CancelRespond
  <2>5. CASE ResultLookup(s) \/ ExpireGoals(s) \/ ExpireErase(s)
    BY <2>5 DEF ResultLookup, ExpireGoals, ExpireErase
  <2> QED
    BY <1>1, <2>1, <2>2, <2>3, <2>4, <2>5 DEF ThreadStep
<1>2. ASSUME NEW s \in Threads, Take(s)
      PROVE  FALSE
  <2>1. s # t
    BY <1>2, TakeLocals
  <2> QED
    BY <1>2, <2>1, Types DEF Take, GoalRequestReceived, CancelRequestReceived,
                             ResultRequestReceived, ExpireTimerReady
<1>3. ASSUME NEW h \in Goals, UserStep(h) \/ UserExecuteStatus(h) \/ TerminalStep(h)
      PROVE  FALSE
  BY <1>3 DEF UserStep, UserExecuteStatus, UserExecute, UserFinish, UserDrop, DestroyHandle,
              TerminalStep, PublishResultExists, PublishResultStore, TerminalStatus, NotifyGoalDone,
              TerminalErase
<1>4. ~Tick
  BY DEF Tick
<1> QED
  BY <1>1, <1>2, <1>3, <1>4, NextCases

\* With ids that differ and a mutually exclusive callback group, a goal that a
\* cancel request selected and that can be canceled is put to the user's cancel
\* callback: the lookup of its typed handle cannot come before the registration,
\* since the handlers exclude each other.  It fails for a cancelable goal only
\* between the loss of the last reference and the destructor's try_canceling, which
\* then cancels the goal without asking.
THEOREM SelectedGoalsAreAsked == Unique /\ ~Reentrant => (Spec => SelectedGoalIsAsked)
<1>1. ASSUME Unique
      PROVE  Spec => []AskedInv
  <2>1. Init => AskedInv
    BY DEF Init, AskedInv, EndedOK, OneHandler, TerminalPCs
  <2>2. BaseInv /\ AskedInv /\ [Next]_vars => AskedInv'
    <3>1. ASSUME AskedInv, UNCHANGED vars
          PROVE  AskedInv'
      BY <3>1 DEF vars, rclVars, threadVars, userVars, AskedInv, EndedOK, OneHandler, Cared,
                  Dying, Reachable, Registering, Holders
    <3> QED
      BY <1>1, <3>1, AskedStep
  <2> QED
    BY <2>1, <2>2, BaseHolds, PTL DEF Spec
<1>2. ASSUME ~Reentrant
      PROVE  BaseInv /\ AskedInv /\ [Next]_vars =>
               [\A t \in Threads : (pc[t] = "c_next" /\ pc'[t] = "c_next")
                  => \A g \in goals :
                       UUIDOf[g] \in tlist[t] \ tlist'[t]
                           => ~IsCancelable(g) \/ upc[g] = "d_cancel"]_vars
  <2> SUFFICES ASSUME BaseInv, AskedInv, Next, NEW t \in Threads, pc[t] = "c_next",
                      pc'[t] = "c_next", NEW g \in goals, UUIDOf[g] \in tlist[t] \ tlist'[t],
                      IsCancelable(g), upc[g] # "d_cancel"
               PROVE  FALSE
    OBVIOUS
  <2>a. CoreInv
    BY DEF BaseInv, AnswerInv
  <2>1. \E u \in UUIDs : CancelLookup(t, u)
    BY <2>a, ListStep
  <2>2. PICK u \in UUIDs : CancelLookup(t, u)
    BY <2>1
  <2>3. UUIDOf[g] = u /\ ~Lockable(typed_handles_[u])
    BY <2>a, <2>2, Types DEF CancelLookup, Goto
  <2>4. g # None
    BY <2>a, ServerAssumption, Types
  <2>5. ~Reachable(g)
    BY <2>3, <2>4 DEF Reachable, Lockable
  <2>6. PICK s \in Threads : pc[s] \in RegisterPCs
    BY <2>5, CancelableIs DEF AskedInv, Cared, Dying, Registering
  <2>7. s = t
    BY <1>2, <2>6 DEF AskedInv, OneHandler, RegisterPCs
  <2> QED
    BY <2>6, <2>7 DEF RegisterPCs
<1>3. ASSUME Unique, ~Reentrant
      PROVE  Spec => SelectedGoalIsAsked
  BY <1>1, <1>2, <1>3, BaseHolds, PTL DEF Spec, SelectedGoalIsAsked
<1> QED
  BY <1>3
=============================================================================
