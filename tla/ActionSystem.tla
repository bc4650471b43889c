---------------------------- MODULE ActionSystem ----------------------------
(***************************************************************************)
(* An action client and an action server that exchange messages.  The      *)
(* server is the abstract one of ActionContract, which ActionServer        *)
(* implements; a handler of the server is one step here, from taking the   *)
(* request to sending the response.  Requests and responses of the three   *)
(* services and feedback are delivered in any order and MaxLost of them    *)
(* may be lost; the status topic keeps the last message (reliable, depth   *)
(* 1).                                                                     *)
(***************************************************************************)
EXTENDS ActionClient

CONSTANTS
    MaxLost       \* messages that may be lost

ASSUME SystemAssumption == MaxLost \in Nat

VARIABLES
    gstate, asked, answer,    \* the server, see ActionContract
    list,         \* the last status message, goal -> state
    unread,       \* the client has not taken it yet
    sent,         \* goals for which feedback was sent
    lost          \* number of lost messages

serverVars == <<gstate, asked, answer>>
vars == <<clientVars, gstate, asked, answer, list, unread, sent, lost>>
serverButNet == <<serverVars, list, unread, sent, lost>>

Server == INSTANCE ActionContract
    WITH UUIDs <- Goals,
         UUIDOf <- [g \in Goals |-> g],
         Requests <- Requests,
         gstate <- gstate, asked <- asked, answer <- answer

NoStatus == [g \in {} |-> "UNKNOWN"]

TypeOK ==
    /\ ClientTypeOK
    /\ DOMAIN list \subseteq Goals
    /\ \A g \in DOMAIN list : list[g] \in Final \cup Active
    /\ unread \in BOOLEAN
    /\ sent \subseteq Goals
    /\ lost \in 0..MaxLost

Init ==
    /\ ClientInit
    /\ Server!Init
    /\ list = NoStatus
    /\ unread = FALSE
    /\ sent = {}
    /\ lost = 0

clientButNet == <<gpromise, wanted, pendingVars, known, uref, handleVars, callbackVars,
                  pc, arg, code, calls, alive>>

\* The server takes request m and, now or not yet, sends responses.
Exchange(m, responses) == m \in net /\ net' = (net \ {m}) \cup responses

ServerGoal(g) ==
    /\ \/ /\ Server!Accept(g)
          /\ Exchange(GoalRequest(g), {GoalResponse(g, TRUE)})
       \/ /\ Exchange(GoalRequest(g), {GoalResponse(g, FALSE)})
          /\ UNCHANGED serverVars
    /\ UNCHANGED <<clientButNet, list, unread, sent, lost>>

ServerMove(g) ==
    /\ Server!Execute(g) \/ Server!Finish(g) \/ Server!Canceled(g)
    /\ UNCHANGED <<clientButNet, net, list, unread, sent, lost>>

ServerAsk(r, g) ==
    /\ Server!Ask(r, g)
    /\ Exchange(ResultRequest(r, g),
                {ResultResponse(r, c) : c \in {c \in {"UNKNOWN"} : answer'[r] = <<c>>}})
    /\ UNCHANGED <<clientButNet, list, unread, sent, lost>>

ServerReply(g) ==
    /\ Server!Reply(g)
    /\ net' = net \cup {ResultResponse(r, gstate[g]) : r \in {r \in Requests : answer'[r] # answer[r]}}
    /\ UNCHANGED <<clientButNet, list, unread, sent, lost>>

ServerCancel(c, g) ==
    /\ \/ /\ Server!Cancel(g)
          /\ Exchange(CancelRequest(c, g), {CancelResponse(c, TRUE)})
       \/ /\ Exchange(CancelRequest(c, g), {CancelResponse(c, FALSE)})
          /\ UNCHANGED serverVars
    /\ UNCHANGED <<clientButNet, list, unread, sent, lost>>

ServerFeedback(g) ==
    /\ gstate[g] \in {"EXECUTING", "CANCELING"}
    /\ g \notin sent
    /\ sent' = sent \cup {g}
    /\ net' = net \cup {Feedback(g)}
    /\ UNCHANGED <<clientButNet, serverVars, list, unread, lost>>

Statuses == [g \in {g \in Goals : gstate[g] # "UNKNOWN"} |-> gstate[g]]

ServerStatus ==
    /\ list # Statuses
    /\ list' = Statuses
    /\ unread' = TRUE
    /\ UNCHANGED <<clientButNet, net, serverVars, sent, lost>>

\* A message of the goal or the result service is lost.  (Lost feedback is
\* feedback not sent; nothing in the client waits for a cancel response.)
Lose(m) ==
    /\ m.type \in {"goal", "goalResponse", "result", "resultResponse"}
    /\ lost < MaxLost
    /\ lost' = lost + 1
    /\ net' = net \ {m}
    /\ UNCHANGED <<clientButNet, serverVars, list, unread, sent>>

ServerStep ==
    \/ \E g \in Goals : ServerGoal(g) \/ ServerMove(g) \/ ServerReply(g) \/ ServerFeedback(g)
    \/ \E g \in Goals, r \in Requests : ServerAsk(r, g)
    \/ \E g \in Goals, c \in Cancels : ServerCancel(c, g)
    \/ ServerStatus

UserCalls ==
    \/ \E g \in Goals, o \in {"result", "none"} : SendGoal(g, o)
    \/ \E g \in Goals, b \in BOOLEAN : GetResult(g, b)
    \/ \E g \in Goals, c \in Cancels : CancelGoal(c, g)
    \/ \E g \in Goals : StopCallbacks(g) \/ Drop(g)
    \/ Destroy

\* Steps an actor takes on its own once a call or a handler has begun.
Continues(a) ==
    \/ MakeResultAware(a)
    \/ \E r \in Requests : asked[r] = None /\ SendResultRequest(a, r)
    \/ SendResultFails(a)
    \/ a = User /\ StopErase
    \/ a \in Threads /\ (SetResult(a) \/ EraseGoal(a))

Handles(t) ==
    \/ \E g \in Goals, b \in BOOLEAN : HandleGoalResponse(t, g, b)
    \/ \E r \in Requests, c \in Final \cup {"UNKNOWN"} : HandleResultResponse(t, r, c)
    \/ \E c \in Cancels, b \in BOOLEAN : HandleCancelResponse(t, c, b)
    \/ \E g \in Goals : HandleFeedback(t, g)

TakesStatus(t) ==
    /\ unread
    /\ HandleStatus(t, list)
    /\ unread' = FALSE
    /\ UNCHANGED <<serverVars, list, sent, lost>>

Next ==
    \/ UserCalls /\ UNCHANGED serverButNet
    \/ \E a \in Actors : Continues(a) /\ UNCHANGED serverButNet
    \/ \E t \in Threads : Handles(t) /\ UNCHANGED serverButNet
    \/ \E t \in Threads : TakesStatus(t)
    \/ ServerStep
    \/ \E m \in net : Lose(m)

Spec == Init /\ [][Next]_vars

\* A call that began goes on and executor threads handle what arrives; the
\* server takes requests, ends its goals and replies.  Nobody has to send
\* feedback, to publish a status, to call or to lose anything.
Fairness ==
    /\ WF_vars(\/ \E a \in Actors : Continues(a) /\ UNCHANGED serverButNet
               \/ \E t \in Threads : Handles(t) /\ UNCHANGED serverButNet)
    /\ WF_vars(\/ \E g \in Goals : ServerGoal(g) \/ ServerMove(g) \/ ServerReply(g)
               \/ \E g \in Goals, r \in Requests : ServerAsk(r, g))

FairSpec == Spec /\ Fairness

(***************************************************************************)
(* Properties                                                              *)
(***************************************************************************)
\* What the client reports as the result of a goal is the terminal state the
\* goal has at the server, whatever status messages and responses arrive in
\* between (handle_result_response, set_result); UNKNOWN is the answer for a
\* goal the server does not know, an exception what invalidate() leaves.
ResultIsTheServers ==
    \A g \in Goals : rpromise[g] \notin {None, "UNKNOWN", "EXCEPTION"} =>
        gstate[g] \in Final /\ rpromise[g] = gstate[g]

\* A result promise is set once, except for a handle that a failed request has
\* invalidated (make_result_aware: one request per handle).
PromiseSetOnce == threw \subseteq invalid

\* Once the user has the result, no status message that was on its way makes
\* the handle look active again (handle_status_message, the erasure of the
\* goal).  With one executor thread for the client, as in its default group.
StatusStaysFinal ==
    [][\A g \in Goals : rpromise[g] \in Final => status'[g] = status[g]]_vars

\* stop_callbacks() is final: whatever is in flight, neither callback of the
\* goal is called after it has returned.
StopIsFinal == late = {}

\* Whoever holds a goal handle of a destroyed client does not wait for ever for
\* its result: the handle has one, or an exception (~Client).
DestroyFulfils == ~alive => \A g \in uref \ stopped : rpromise[g] # None

\* Every future completes, unless a message is lost or the client destroyed:
\* that of async_send_goal, and that of a result once it was requested.
FuturesComplete ==
    \A g \in Goals :
        /\ (gpromise[g] = "pending") ~> (gpromise[g] # "pending" \/ lost > 0 \/ ~alive)
        /\ (g \in aware) ~> (rpromise[g] # None \/ lost > 0 \/ ~alive)
=============================================================================
