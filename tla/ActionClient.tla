---------------------------- MODULE ActionClient ----------------------------
(***************************************************************************)
(* The action client of rclcpp: ClientBase (client.cpp), Client<ActionT>   *)
(* (client.hpp) and ClientGoalHandle (client_goal_handle*.hpp).            *)
(*                                                                         *)
(* The user's thread sends goals, asks for results, cancels goals, stops   *)
(* callbacks and drops handles.  Executor threads handle responses,        *)
(* feedback and status.  A handler is one step per critical section.       *)
(* Messages to and from the server are in net; what the server does with   *)
(* them is in ActionSystem.                                                *)
(***************************************************************************)
EXTENDS Naturals, FiniteSets

CONSTANTS
    Goals,        \* goals, each with its own id
    Requests,     \* sequence numbers of result requests
    Cancels,      \* sequence numbers of cancel requests
    MaxCalls,     \* bound: calls the user makes after async_send_goal
    Threads,      \* executor threads
    User,         \* the user's thread
    None

Final == {"SUCCEEDED", "ABORTED", "CANCELED"}
Active == {"ACCEPTED", "EXECUTING", "CANCELING"}

ASSUME ClientAssumption ==
    /\ MaxCalls \in Nat
    /\ User \notin Threads
    /\ None \notin Goals \cup {"UNKNOWN", "EXCEPTION"} \cup Final

Actors == Threads \cup {User}

VARIABLES
    net,          \* messages on their way
    gpromise,     \* per goal: the promise of async_send_goal
    wanted,       \* goals sent with a result callback in their options
    pendingGoal,  \* pending_goal_responses
    pendingResult,        \* pending_result_responses: request -> goal
    pendingCancel,        \* per cancel request: its entry of pending_cancel_responses
    calls,        \* number of calls so far
    known,        \* goal_handles_
    uref,         \* goals whose handle the user holds
    aware, invalid,       \* is_result_aware_, invalidate_exception_ of the handles
    rpromise,     \* per handle: what result_promise_ was set to
    status,       \* status_ of the handles
    cb, fcb,      \* goals with a result callback, with a feedback callback
    late,         \* goals one of whose callbacks was called after stop_callbacks()
    threw,        \* goals whose result promise was set a second time, which throws
    stopped,      \* goals for which stop_callbacks() has returned
    pc, arg, code,        \* per actor: where it is, its goal, the result it handles
    alive         \* the client is not destroyed

handleVars == <<aware, invalid, rpromise, status, threw>>
callbackVars == <<cb, fcb, late, stopped>>
pendingVars == <<pendingGoal, pendingResult, pendingCancel>>
clientVars == <<net, gpromise, wanted, pendingGoal, pendingResult, pendingCancel, known, uref,
                aware, invalid, rpromise, status, cb, fcb, late, threw, stopped,
                pc, arg, code, calls, alive>>

GoalRequest(g) == [type |-> "goal", goal |-> g]
GoalResponse(g, yes) == [type |-> "goalResponse", goal |-> g, accepted |-> yes]
ResultRequest(r, g) == [type |-> "result", req |-> r, goal |-> g]
ResultResponse(r, c) == [type |-> "resultResponse", req |-> r, code |-> c]
CancelRequest(c, g) == [type |-> "cancel", req |-> c, goal |-> g]
CancelResponse(c, yes) == [type |-> "cancelResponse", req |-> c, accepted |-> yes]
Feedback(g) == [type |-> "feedback", goal |-> g]

Messages ==
    {GoalRequest(g) : g \in Goals} \cup {Feedback(g) : g \in Goals}
    \cup {GoalResponse(g, b) : g \in Goals, b \in BOOLEAN}
    \cup {ResultRequest(r, g) : r \in Requests, g \in Goals}
    \cup {ResultResponse(r, c) : r \in Requests, c \in Final \cup {"UNKNOWN"}}
    \cup {CancelRequest(c, g) : c \in Cancels, g \in Goals}
    \cup {CancelResponse(c, b) : c \in Cancels, b \in BOOLEAN}

ClientTypeOK ==
    /\ net \subseteq Messages
    /\ gpromise \in [Goals -> {"unsent", "pending", "handle", "null"}]
    /\ wanted \subseteq Goals /\ pendingGoal \subseteq Goals
    /\ pendingResult \in [Requests -> Goals \cup {None}]
    /\ pendingCancel \in [Cancels -> {"unsent", "pending", "answered"}]
    /\ known \subseteq {g \in Goals : gpromise[g] = "handle"}
    /\ uref \subseteq Goals /\ aware \subseteq Goals /\ invalid \subseteq Goals
    /\ rpromise \in [Goals -> Final \cup Active \cup {"UNKNOWN", "EXCEPTION", None}]
    /\ status \in [Goals -> Final \cup Active \cup {"UNKNOWN"}]
    /\ cb \subseteq Goals /\ fcb \subseteq Goals /\ late \subseteq Goals
    /\ threw \subseteq Goals /\ stopped \subseteq Goals
    /\ pc \in [Actors -> {"idle", "aware", "send", "set", "erase", "stop"}]
    /\ arg \in [Actors -> Goals \cup {None}]
    /\ code \in [Actors -> Final \cup {"UNKNOWN", None}]
    /\ calls \in 0..MaxCalls
    /\ alive \in BOOLEAN

ClientInit ==
    /\ net = {}
    /\ gpromise = [g \in Goals |-> "unsent"]
    /\ wanted = {} /\ pendingGoal = {}
    /\ pendingCancel = [c \in Cancels |-> "unsent"]
    /\ pendingResult = [r \in Requests |-> None]
    /\ known = {} /\ uref = {} /\ aware = {} /\ invalid = {}
    /\ rpromise = [g \in Goals |-> None]
    /\ status = [g \in Goals |-> "UNKNOWN"]
    /\ cb = {} /\ fcb = {} /\ late = {} /\ threw = {} /\ stopped = {}
    /\ pc = [a \in Actors |-> "idle"]
    /\ arg = [a \in Actors |-> None]
    /\ code = [a \in Actors |-> None]
    /\ calls = 0
    /\ alive = TRUE

\* Actor a goes on to place with goal g.
Go(a, place, g) ==
    /\ pc' = [pc EXCEPT ![a] = place]
    /\ arg' = [arg EXCEPT ![a] = IF place = "idle" THEN None ELSE g]

\* async_get_result() holds goal_handles_mutex_ to its end; nobody else keeps
\* it across a step.
HandlesUnlocked == pc[User] \notin {"aware", "send"}

\* A weak pointer in goal_handles_ can be locked: the user, the callback of a
\* pending result request or a handler holds the handle.
CanLock(g) ==
    \/ g \in uref
    \/ \E r \in Requests : pendingResult[r] = g
    \/ \E a \in Actors : arg[a] = g

(***************************************************************************)
(* The user's thread                                                       *)
(***************************************************************************)
\* A call on a goal, one of at most MaxCalls.
Call ==
    /\ pc[User] = "idle" /\ alive
    /\ calls < MaxCalls
    /\ calls' = calls + 1

\* async_send_goal(): send the request, then forget the goals nobody refers to.
SendGoal(g, options) ==
    /\ pc[User] = "idle" /\ alive
    /\ gpromise[g] = "unsent"
    /\ gpromise' = [gpromise EXCEPT ![g] = "pending"]
    /\ net' = net \cup {GoalRequest(g)}
    /\ pendingGoal' = pendingGoal \cup {g}
    /\ wanted' = IF options = "result" THEN wanted \cup {g} ELSE wanted
    /\ known' = {h \in known : CanLock(h)}
    /\ UNCHANGED <<pendingResult, pendingCancel, uref, handleVars, callbackVars, pc, arg, code,
                   calls, alive>>

\* async_get_result() up to make_result_aware(); it throws for a goal that is
\* unknown or invalidated.
GetResult(g, withCallback) ==
    /\ Call
    /\ g \in uref /\ g \in known /\ g \notin invalid
    /\ cb' = IF withCallback THEN cb \cup {g} ELSE cb
    /\ Go(User, "aware", g)
    /\ UNCHANGED <<net, gpromise, wanted, pendingVars, known, uref, handleVars,
                   fcb, late, stopped, code, alive>>

\* async_cancel_goal().
CancelGoal(c, g) ==
    /\ Call
    /\ g \in uref /\ g \in known
    /\ pendingCancel[c] = "unsent"
    /\ pendingCancel' = [pendingCancel EXCEPT ![c] = "pending"]
    /\ net' = net \cup {CancelRequest(c, g)}
    /\ UNCHANGED <<gpromise, wanted, pendingGoal, pendingResult, known, uref, handleVars,
                   callbackVars, pc, arg, code, alive>>

\* Mutant: only the feedback callback is cleared.
StopFeedbackOnly(g) ==
    /\ Call
    /\ g \in uref
    /\ fcb' = fcb \ {g}
    /\ Go(User, "stop", g)
    /\ UNCHANGED <<net, gpromise, wanted, pendingVars, known, uref, handleVars,
                   cb, late, stopped, code, alive>>

\* stop_callbacks(): clear both callbacks under the handle's mutex, ...
StopCallbacks(g) ==
    /\ Call
    /\ g \in uref
    /\ cb' = cb \ {g}
    /\ fcb' = fcb \ {g}
    /\ Go(User, "stop", g)
    /\ UNCHANGED <<net, gpromise, wanted, pendingVars, known, uref, handleVars,
                   late, stopped, code, alive>>

\* ... then forget the goal.
StopErase ==
    /\ pc[User] = "stop"
    /\ known' = known \ {arg[User]}
    /\ stopped' = stopped \cup {arg[User]}
    /\ Go(User, "idle", None)
    /\ UNCHANGED <<net, gpromise, wanted, pendingVars, uref, handleVars,
                   cb, fcb, late, code, calls, alive>>

\* The user drops the handle and the future that holds it.
Drop(g) ==
    /\ pc[User] = "idle"
    /\ g \in uref
    /\ uref' = uref \ {g}
    /\ UNCHANGED <<net, gpromise, wanted, pendingVars, known, handleVars, callbackVars,
                   pc, arg, code, calls, alive>>

\* ClientGoalHandle::invalidate(), once per handle, for the handles in gs.
InvalidateEach(gs) ==
    /\ invalid' = invalid \cup gs
    /\ aware' = aware \ (gs \ invalid)
    /\ status' = [g \in Goals |-> IF g \in gs \ invalid THEN "UNKNOWN" ELSE status[g]]
    /\ rpromise' = [g \in Goals |->
                      IF g \in gs \ invalid /\ rpromise[g] = None
                      THEN "EXCEPTION" ELSE rpromise[g]]
    /\ threw' = threw \cup {g \in gs \ invalid : rpromise[g] # None}

\* Mutant: the destructor leaves the handles as they are.
DestroyOnly ==
    /\ \A a \in Actors : pc[a] = "idle"
    /\ alive
    /\ alive' = FALSE
    /\ pendingGoal' = {}
    /\ pendingCancel' = [c \in Cancels |-> "answered"]
    /\ pendingResult' = [r \in Requests |-> None]
    /\ known' = {}
    /\ UNCHANGED <<net, gpromise, wanted, uref, handleVars, callbackVars, pc, arg, code, calls>>

\* ~Client(): invalidates the handles it knows; the pending callbacks go with
\* the base class.  The user must not destroy a client that is being executed.
Destroy ==
    /\ \A a \in Actors : pc[a] = "idle"
    /\ alive
    /\ alive' = FALSE
    /\ InvalidateEach({g \in known : CanLock(g)})
    /\ pendingGoal' = {}
    /\ pendingCancel' = [c \in Cancels |-> "answered"]
    /\ pendingResult' = [r \in Requests |-> None]
    /\ known' = {}
    /\ UNCHANGED <<net, gpromise, wanted, uref, callbackVars, pc, arg, code, calls>>

(***************************************************************************)
(* make_result_aware(), by the user's thread or after a goal response      *)
(***************************************************************************)
\* Mutant: awareness is not exchanged, every caller sends a request.
AlwaysSend(a) ==
    /\ pc[a] = "aware"
    /\ aware' = aware \cup {arg[a]}
    /\ Go(a, "send", arg[a])
    /\ UNCHANGED <<net, gpromise, wanted, pendingVars, known, uref, invalid, rpromise, status,
                   threw, callbackVars, code, calls, alive>>

\* Mutant: the goal is marked, but the request is left to somebody else.
MarkOnly(a) ==
    /\ pc[a] = "aware"
    /\ aware' = aware \cup {arg[a]}
    /\ Go(a, "idle", None)
    /\ UNCHANGED <<net, gpromise, wanted, pendingVars, known, uref, invalid, rpromise, status,
                   threw, callbackVars, code, calls, alive>>

\* set_result_awareness(true): whoever sets it first sends the request.
MakeResultAware(a) ==
    /\ pc[a] = "aware"
    /\ aware' = aware \cup {arg[a]}
    /\ IF arg[a] \in aware THEN Go(a, "idle", None) ELSE Go(a, "send", arg[a])
    /\ UNCHANGED <<net, gpromise, wanted, pendingVars, known, uref, invalid, rpromise, status,
                   threw, callbackVars, code, calls, alive>>

\* send_result_request() under result_requests_mutex.
SendResultRequest(a, r) ==
    /\ pc[a] = "send"
    /\ pendingResult[r] = None
    /\ \A m \in net : m.type \in {"result", "resultResponse"} => m.req # r
    /\ pendingResult' = [pendingResult EXCEPT ![r] = arg[a]]
    /\ net' = net \cup {ResultRequest(r, arg[a])}
    /\ Go(a, "idle", None)
    /\ UNCHANGED <<gpromise, wanted, pendingGoal, pendingCancel, known, uref, handleVars,
                   callbackVars, code, calls, alive>>

\* The send fails and the handle is invalidated.
SendResultFails(a) ==
    /\ pc[a] = "send"
    /\ InvalidateEach({arg[a]})
    /\ Go(a, "idle", None)
    /\ UNCHANGED <<net, gpromise, wanted, pendingVars, known, uref, callbackVars, code, calls,
                   alive>>

(***************************************************************************)
(* Executor threads                                                        *)
(***************************************************************************)
Take(t, m) ==
    /\ pc[t] = "idle" /\ alive
    /\ m \in net
    /\ net' = net \ {m}

\* handle_goal_response(): a handle for an accepted goal, stored before the
\* promise is set and the user hears of it.
HandleGoalResponse(t, g, accepted) ==
    /\ Take(t, GoalResponse(g, accepted))
    /\ HandlesUnlocked
    /\ g \in pendingGoal
    /\ pendingGoal' = pendingGoal \ {g}
    /\ IF accepted
       THEN /\ gpromise' = [gpromise EXCEPT ![g] = "handle"]
            /\ known' = known \cup {g}
            /\ uref' = uref \cup {g}
            /\ status' = [status EXCEPT ![g] = "ACCEPTED"]
            /\ fcb' = fcb \cup {g}
            /\ cb' = IF g \in wanted THEN cb \cup {g} ELSE cb
            /\ IF g \in wanted THEN Go(t, "aware", g) ELSE UNCHANGED <<pc, arg>>
       ELSE /\ gpromise' = [gpromise EXCEPT ![g] = "null"]
            /\ UNCHANGED <<known, uref, status, fcb, cb, pc, arg>>
    /\ UNCHANGED <<wanted, pendingResult, pendingCancel, aware, invalid, rpromise, threw,
                   late, stopped, code, calls, alive>>

\* handle_result_response(): the callback leaves the map, so that it runs
\* without result_requests_mutex.
HandleResultResponse(t, r, c) ==
    /\ Take(t, ResultResponse(r, c))
    /\ pendingResult[r] # None
    /\ pendingResult' = [pendingResult EXCEPT ![r] = None]
    /\ Go(t, "set", pendingResult[r])
    /\ code' = [code EXCEPT ![t] = c]
    /\ UNCHANGED <<gpromise, wanted, pendingGoal, pendingCancel, known, uref, handleVars,
                   callbackVars, calls, alive>>

\* Mutant: the result takes its code from the last status message.
SetLastStatus(t) ==
    LET g == arg[t] IN
    /\ pc[t] = "set"
    /\ rpromise' = [rpromise EXCEPT ![g] = status[g]]
    /\ Go(t, "erase", g)
    /\ code' = [code EXCEPT ![t] = None]
    /\ UNCHANGED <<net, gpromise, wanted, pendingVars, known, uref, aware, invalid, status, threw,
                   callbackVars, calls, alive>>

\* set_result() under the handle's mutex: status, promise, callback.  A promise
\* that is set already throws before the callback and the erasure.
SetResult(t) ==
    LET g == arg[t] IN
    /\ pc[t] = "set"
    /\ status' = [status EXCEPT ![g] = code[t]]
    /\ IF rpromise[g] # None
       THEN /\ threw' = threw \cup {g}
            /\ Go(t, "idle", None)
            /\ UNCHANGED <<rpromise, late, cb>>
       ELSE /\ rpromise' = [rpromise EXCEPT ![g] = code[t]]
            /\ late' = IF g \in cb \cap stopped THEN late \cup {g} ELSE late
            /\ cb' = cb \ {g}
            /\ Go(t, "erase", g)
            /\ UNCHANGED threw
    /\ code' = [code EXCEPT ![t] = None]
    /\ UNCHANGED <<net, gpromise, wanted, pendingVars, known, uref, aware, invalid,
                   fcb, stopped, calls, alive>>

\* Mutant: the goal is not forgotten when its result arrives.
KeepGoal(t) ==
    /\ pc[t] = "erase"
    /\ HandlesUnlocked
    /\ Go(t, "idle", None)
    /\ UNCHANGED <<net, gpromise, wanted, pendingVars, known, uref, handleVars, callbackVars,
                   code, calls, alive>>

\* The goal is forgotten, under goal_handles_mutex_.
EraseGoal(t) ==
    /\ pc[t] = "erase"
    /\ HandlesUnlocked
    /\ known' = known \ {arg[t]}
    /\ Go(t, "idle", None)
    /\ UNCHANGED <<net, gpromise, wanted, pendingVars, uref, handleVars, callbackVars,
                   code, calls, alive>>

\* handle_cancel_response(): promise and callback are the user's business.
HandleCancelResponse(t, c, accepted) ==
    /\ Take(t, CancelResponse(c, accepted))
    /\ pendingCancel[c] = "pending"
    /\ pendingCancel' = [pendingCancel EXCEPT ![c] = "answered"]
    /\ UNCHANGED <<gpromise, wanted, pendingGoal, pendingResult, known, uref, handleVars,
                   callbackVars, pc, arg, code, calls, alive>>

\* handle_feedback_message() under goal_handles_mutex_.
HandleFeedback(t, g) ==
    /\ Take(t, Feedback(g))
    /\ HandlesUnlocked
    /\ known' = IF CanLock(g) THEN known ELSE known \ {g}
    /\ late' = IF g \in known \cap fcb \cap stopped /\ CanLock(g) THEN late \cup {g} ELSE late
    /\ UNCHANGED <<gpromise, wanted, pendingVars, uref, handleVars, cb, fcb, stopped,
                   pc, arg, code, calls, alive>>

\* handle_status_message() under goal_handles_mutex_, for a message that lists
\* the goals in DOMAIN list.
HandleStatus(t, list) ==
    /\ pc[t] = "idle" /\ alive
    /\ HandlesUnlocked
    /\ known' = {g \in known : g \in DOMAIN list => CanLock(g)}
    /\ status' = [g \in Goals |->
                    IF g \in known \cap DOMAIN list /\ CanLock(g) THEN list[g] ELSE status[g]]
    /\ UNCHANGED <<net, gpromise, wanted, pendingVars, uref, aware, invalid, rpromise, threw,
                   callbackVars, pc, arg, code, calls, alive>>
=============================================================================
