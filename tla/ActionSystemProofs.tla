------------------------- MODULE ActionSystemProofs -------------------------
(***************************************************************************)
(* For any number of goals, requests, executor threads, calls and lost     *)
(* messages: the safety properties of ActionSystem, that is of the action  *)
(* client against any server that keeps the contract.                      *)
(***************************************************************************)
EXTENDS ActionSystem, TLAPS

(***************************************************************************)
(* The inductive invariant of the client                                   *)
(***************************************************************************)
Places == {"idle", "aware", "send", "set", "erase", "stop"}

\* The types of the client's variables but for net and the Boolean ones.
Types ==
    /\ gpromise \in [Goals -> {"unsent", "pending", "handle", "null"}]
    /\ wanted \subseteq Goals /\ pendingGoal \subseteq Goals
    /\ pendingResult \in [Requests -> Goals \cup {None}]
    /\ pendingCancel \in [Cancels -> {"unsent", "pending", "answered"}]
    /\ known \subseteq Goals /\ uref \subseteq Goals /\ aware \subseteq Goals
    /\ invalid \subseteq Goals
    /\ rpromise \in [Goals -> Final \cup {"UNKNOWN", "EXCEPTION", None}]
    /\ status \in [Goals -> Final \cup Active \cup {"UNKNOWN"}]
    /\ cb \subseteq Goals /\ fcb \subseteq Goals /\ threw \subseteq Goals
    /\ stopped \subseteq Goals
    /\ pc \in [Actors -> Places]
    /\ arg \in [Actors -> Goals \cup {None}]
    /\ code \in [Actors -> Final \cup {"UNKNOWN", None}]
    /\ calls \in 0..MaxCalls

\* An actor between two steps of a handler or a call holds the handle it works
\* on; results are set by executor threads, callbacks stopped by the user.
PlaceOK ==
    /\ \A a \in Actors : pc[a] = "idle" <=> arg[a] = None
    /\ \A a \in Actors : pc[a] = "set" => code[a] # None
    /\ \A a \in Actors : pc[a] = "erase" => rpromise[arg[a]] # None
    /\ \A t \in Threads : pc[t] # "stop"
    /\ pc[User] \notin {"set", "erase"}
    /\ ~alive => \A a \in Actors : pc[a] = "idle"

\* Before its goal is accepted there is nothing of a handle.
FreshOK ==
    /\ \A g \in pendingGoal : gpromise[g] = "pending"
    /\ \A g \in Goals : gpromise[g] # "handle" =>
           /\ g \notin uref /\ g \notin known /\ g \notin aware /\ g \notin stopped
           /\ rpromise[g] = None
           /\ \A r \in Requests : pendingResult[r] # g
           /\ \A a \in Actors : arg[a] # g

\* The actor is about to send the result request of the goal or has the
\* response in its hands.
Busy(a, g) == pc[a] \in {"send", "set"} /\ arg[a] = g

\* One result request per handle, from the exchange of is_result_aware_ to the
\* promise, as long as the handle is valid.
RequestOK(g) ==
    /\ \A a, b \in Actors : Busy(a, g) /\ Busy(b, g) => a = b
    /\ \A r, s \in Requests : pendingResult[r] = g /\ pendingResult[s] = g => r = s
    /\ \A a \in Actors, r \in Requests : ~(Busy(a, g) /\ pendingResult[r] = g)
    /\ \A a \in Actors : Busy(a, g) => rpromise[g] = None /\ g \in aware
    /\ \A r \in Requests : pendingResult[r] = g => rpromise[g] = None /\ g \in aware
    /\ rpromise[g] # None => g \in aware

OneRequest == \A g \in Goals : g \notin invalid => RequestOK(g)

\* Only invalidate() sets an exception.
InvalidOK ==
    /\ \A g \in Goals : g \in invalid <=> rpromise[g] = "EXCEPTION"
    /\ threw \subseteq invalid

\* stop_callbacks() takes both callbacks, and nobody brings them back.
StopOK ==
    /\ \A g \in stopped : g \notin cb /\ g \notin fcb /\ g \notin known
    /\ pc[User] = "stop" => arg[User] \notin cb /\ arg[User] \notin fcb
    /\ late = {}

\* A goal leaves goal_handles_ when its result has arrived, when callbacks are
\* stopped or when nobody holds its handle.
KnownOK ==
    /\ \A g \in uref \ stopped : g \in known \/ rpromise[g] # None
    /\ \A g \in known : rpromise[g] \notin {None, "EXCEPTION"} =>
           \E t \in Threads : pc[t] = "erase" /\ arg[t] = g
    /\ ~alive => known = {} /\ \A g \in uref \ stopped : rpromise[g] # None

ClientInv ==
    Types /\ PlaceOK /\ FreshOK /\ OneRequest /\ InvalidOK /\ StopOK /\ KnownOK

LEMMA InitClient == ClientInit => ClientInv
BY ClientAssumption
   DEF ClientInit, ClientInv, Types, PlaceOK, FreshOK, OneRequest, RequestOK, Busy, InvalidOK,
       StopOK, KnownOK, Actors, Places

LEMMA ClientUnchanged == ASSUME ClientInv, UNCHANGED clientButNet PROVE ClientInv'
BY DEF ClientInv, clientButNet, pendingVars, handleVars, callbackVars, Types, PlaceOK, FreshOK,
       OneRequest, RequestOK, Busy, InvalidOK, StopOK, KnownOK

(***************************************************************************)
(* One lemma per operation of the client, one step per part of ClientInv   *)
(***************************************************************************)
LEMMA ClientSendGoal ==
    ASSUME ClientInv, NEW g \in Goals, NEW o, SendGoal(g, o)
    PROVE  ClientInv'
<1> USE ClientAssumption DEF Actors, Final, Active
<1> USE DEF SendGoal, CanLock, handleVars, callbackVars, pendingVars
<1>1. Types'
  BY DEF ClientInv, Types, PlaceOK, Places
<1>2. PlaceOK'
  BY DEF ClientInv, Types, PlaceOK, Places
<1>3. FreshOK'
  BY DEF ClientInv, Types, PlaceOK, FreshOK
<1>4. OneRequest'
  BY DEF ClientInv, Types, PlaceOK, FreshOK, OneRequest, RequestOK, Busy, InvalidOK
<1>5. InvalidOK'
  BY DEF ClientInv, Types, PlaceOK, OneRequest, RequestOK, Busy, InvalidOK, KnownOK
<1>6. StopOK'
  BY DEF ClientInv, Types, PlaceOK, StopOK, FreshOK
<1>7. KnownOK'
  BY DEF ClientInv, Types, PlaceOK, KnownOK, FreshOK, InvalidOK
<1> QED
  BY <1>1, <1>2, <1>3, <1>4, <1>5, <1>6, <1>7 DEF ClientInv

LEMMA ClientGetResult ==
    ASSUME ClientInv, NEW g \in Goals, NEW b, GetResult(g, b)
    PROVE  ClientInv'
<1> USE ClientAssumption DEF Actors, Final, Active
<1> USE DEF GetResult, Call, Go, handleVars, callbackVars, pendingVars
<1>1. Types'
  BY DEF ClientInv, Types, PlaceOK, Places
<1>2. PlaceOK'
  BY DEF ClientInv, Types, PlaceOK, Places
<1>3. FreshOK'
  BY DEF ClientInv, Types, PlaceOK, FreshOK
<1>4. OneRequest'
  BY DEF ClientInv, Types, PlaceOK, FreshOK, OneRequest, RequestOK, Busy, InvalidOK
<1>5. InvalidOK'
  BY DEF ClientInv, Types, PlaceOK, OneRequest, RequestOK, Busy, InvalidOK, KnownOK
<1>6. StopOK'
  BY DEF ClientInv, Types, PlaceOK, StopOK, FreshOK
<1>7. KnownOK'
  BY DEF ClientInv, Types, PlaceOK, KnownOK, FreshOK, InvalidOK
<1> QED
  BY <1>1, <1>2, <1>3, <1>4, <1>5, <1>6, <1>7 DEF ClientInv

LEMMA ClientCancelGoal ==
    ASSUME ClientInv, NEW g \in Goals, NEW c \in Cancels, CancelGoal(c, g)
    PROVE  ClientInv'
<1> USE ClientAssumption DEF Actors, Final, Active
<1> USE DEF CancelGoal, Call, handleVars, callbackVars, pendingVars
<1>1. Types'
  BY DEF ClientInv, Types, PlaceOK, Places
<1>2. PlaceOK'
  BY DEF ClientInv, Types, PlaceOK, Places
<1>3. FreshOK'
  BY DEF ClientInv, Types, PlaceOK, FreshOK
<1>4. OneRequest'
  BY DEF ClientInv, Types, PlaceOK, FreshOK, OneRequest, RequestOK, Busy, InvalidOK
<1>5. InvalidOK'
  BY DEF ClientInv, Types, PlaceOK, OneRequest, RequestOK, Busy, InvalidOK, KnownOK
<1>6. StopOK'
  BY DEF ClientInv, Types, PlaceOK, StopOK, FreshOK
<1>7. KnownOK'
  BY DEF ClientInv, Types, PlaceOK, KnownOK, FreshOK, InvalidOK
<1> QED
  BY <1>1, <1>2, <1>3, <1>4, <1>5, <1>6, <1>7 DEF ClientInv

LEMMA ClientStopCallbacks ==
    ASSUME ClientInv, NEW g \in Goals, StopCallbacks(g)
    PROVE  ClientInv'
<1> USE ClientAssumption DEF Actors, Final, Active
<1> USE DEF StopCallbacks, Call, Go, handleVars, callbackVars, pendingVars
<1>1. Types'
  BY DEF ClientInv, Types, PlaceOK, Places
<1>2. PlaceOK'
  BY DEF ClientInv, Types, PlaceOK, Places
<1>3. FreshOK'
  BY DEF ClientInv, Types, PlaceOK, FreshOK
<1>4. OneRequest'
  BY DEF ClientInv, Types, PlaceOK, FreshOK, OneRequest, RequestOK, Busy, InvalidOK
<1>5. InvalidOK'
  BY DEF ClientInv, Types, PlaceOK, OneRequest, RequestOK, Busy, InvalidOK, KnownOK
<1>6. StopOK'
  BY DEF ClientInv, Types, PlaceOK, StopOK, FreshOK
<1>7. KnownOK'
  BY DEF ClientInv, Types, PlaceOK, KnownOK, FreshOK, InvalidOK
<1> QED
  BY <1>1, <1>2, <1>3, <1>4, <1>5, <1>6, <1>7 DEF ClientInv

LEMMA ClientStopErase ==
    ASSUME ClientInv, StopErase
    PROVE  ClientInv'
<1> USE ClientAssumption DEF Actors, Final, Active
<1> USE DEF StopErase, Go, handleVars, callbackVars, pendingVars
<1>1. Types'
  BY DEF ClientInv, Types, PlaceOK, Places
<1>2. PlaceOK'
  BY DEF ClientInv, Types, PlaceOK, Places
<1>3. FreshOK'
  BY DEF ClientInv, Types, PlaceOK, FreshOK
<1>4. OneRequest'
  BY DEF ClientInv, Types, PlaceOK, FreshOK, OneRequest, RequestOK, Busy, InvalidOK
<1>5. InvalidOK'
  BY DEF ClientInv, Types, PlaceOK, OneRequest, RequestOK, Busy, InvalidOK, KnownOK
<1>6. StopOK'
  BY DEF ClientInv, Types, PlaceOK, StopOK, FreshOK
<1>7. KnownOK'
  BY DEF ClientInv, Types, PlaceOK, KnownOK, FreshOK, InvalidOK
<1> QED
  BY <1>1, <1>2, <1>3, <1>4, <1>5, <1>6, <1>7 DEF ClientInv

LEMMA ClientDrop ==
    ASSUME ClientInv, NEW g \in Goals, Drop(g)
    PROVE  ClientInv'
<1> USE ClientAssumption DEF Actors, Final, Active
<1> USE DEF Drop, handleVars, callbackVars, pendingVars
<1>1. Types'
  BY DEF ClientInv, Types, PlaceOK, Places
<1>2. PlaceOK'
  BY DEF ClientInv, Types, PlaceOK, Places
<1>3. FreshOK'
  BY DEF ClientInv, Types, PlaceOK, FreshOK
<1>4. OneRequest'
  BY DEF ClientInv, Types, PlaceOK, FreshOK, OneRequest, RequestOK, Busy, InvalidOK
<1>5. InvalidOK'
  BY DEF ClientInv, Types, PlaceOK, OneRequest, RequestOK, Busy, InvalidOK, KnownOK
<1>6. StopOK'
  BY DEF ClientInv, Types, PlaceOK, StopOK, FreshOK
<1>7. KnownOK'
  BY DEF ClientInv, Types, PlaceOK, KnownOK, FreshOK, InvalidOK
<1> QED
  BY <1>1, <1>2, <1>3, <1>4, <1>5, <1>6, <1>7 DEF ClientInv

LEMMA ClientDestroy ==
    ASSUME ClientInv, Destroy
    PROVE  ClientInv'
<1> USE ClientAssumption DEF Actors, Final, Active
<1> USE DEF Destroy, InvalidateEach, CanLock, handleVars, callbackVars, pendingVars
<1>1. Types'
  BY DEF ClientInv, Types, PlaceOK, Places
<1>2. PlaceOK'
  BY DEF ClientInv, Types, PlaceOK, Places
<1>3. FreshOK'
  BY DEF ClientInv, Types, PlaceOK, FreshOK
<1>4. OneRequest'
  BY DEF ClientInv, Types, PlaceOK, FreshOK, OneRequest, RequestOK, Busy, InvalidOK
<1>5. InvalidOK'
  BY DEF ClientInv, Types, PlaceOK, OneRequest, RequestOK, Busy, InvalidOK, KnownOK
<1>6. StopOK'
  BY DEF ClientInv, Types, PlaceOK, StopOK, FreshOK
<1>7. KnownOK'
  BY DEF ClientInv, Types, PlaceOK, KnownOK, FreshOK, InvalidOK
<1> QED
  BY <1>1, <1>2, <1>3, <1>4, <1>5, <1>6, <1>7 DEF ClientInv

LEMMA ClientMakeResultAware ==
    ASSUME ClientInv, NEW a \in Actors, MakeResultAware(a)
    PROVE  ClientInv'
<1> USE ClientAssumption DEF Actors, Final, Active
<1> USE DEF MakeResultAware, Go, handleVars, callbackVars, pendingVars
<1>1. Types'
  BY DEF ClientInv, Types, PlaceOK, Places
<1>2. PlaceOK'
  BY DEF ClientInv, Types, PlaceOK, Places
<1>3. FreshOK'
  BY DEF ClientInv, Types, PlaceOK, FreshOK
<1>4. OneRequest'
  BY DEF ClientInv, Types, PlaceOK, FreshOK, OneRequest, RequestOK, Busy, InvalidOK
<1>5. InvalidOK'
  BY DEF ClientInv, Types, PlaceOK, OneRequest, RequestOK, Busy, InvalidOK, KnownOK
<1>6. StopOK'
  BY DEF ClientInv, Types, PlaceOK, StopOK, FreshOK
<1>7. KnownOK'
  BY DEF ClientInv, Types, PlaceOK, KnownOK, FreshOK, InvalidOK
<1> QED
  BY <1>1, <1>2, <1>3, <1>4, <1>5, <1>6, <1>7 DEF ClientInv

LEMMA ClientSendResultRequest ==
    ASSUME ClientInv, NEW a \in Actors, NEW r \in Requests, SendResultRequest(a, r)
    PROVE  ClientInv'
<1> USE ClientAssumption DEF Actors, Final, Active
<1> USE DEF SendResultRequest, Go, handleVars, callbackVars, pendingVars
<1>1. Types'
  BY DEF ClientInv, Types, PlaceOK, Places
<1>2. PlaceOK'
  BY DEF ClientInv, Types, PlaceOK, Places
<1>3. FreshOK'
  BY DEF ClientInv, Types, PlaceOK, FreshOK
<1>4. OneRequest'
  BY DEF ClientInv, Types, PlaceOK, FreshOK, OneRequest, RequestOK, Busy, InvalidOK
<1>5. InvalidOK'
  BY DEF ClientInv, Types, PlaceOK, OneRequest, RequestOK, Busy, InvalidOK, KnownOK
<1>6. StopOK'
  BY DEF ClientInv, Types, PlaceOK, StopOK, FreshOK
<1>7. KnownOK'
  BY DEF ClientInv, Types, PlaceOK, KnownOK, FreshOK, InvalidOK
<1> QED
  BY <1>1, <1>2, <1>3, <1>4, <1>5, <1>6, <1>7 DEF ClientInv

LEMMA ClientSendResultFails ==
    ASSUME ClientInv, NEW a \in Actors, SendResultFails(a)
    PROVE  ClientInv'
<1> USE ClientAssumption DEF Actors, Final, Active
<1> USE DEF SendResultFails, InvalidateEach, Go, handleVars, callbackVars, pendingVars
<1>1. Types'
  BY DEF ClientInv, Types, PlaceOK, Places
<1>2. PlaceOK'
  BY DEF ClientInv, Types, PlaceOK, Places
<1>3. FreshOK'
  BY DEF ClientInv, Types, PlaceOK, FreshOK
<1>4. OneRequest'
  BY DEF ClientInv, Types, PlaceOK, FreshOK, OneRequest, RequestOK, Busy, InvalidOK
<1>5. InvalidOK'
  BY DEF ClientInv, Types, PlaceOK, OneRequest, RequestOK, Busy, InvalidOK, KnownOK
<1>6. StopOK'
  BY DEF ClientInv, Types, PlaceOK, StopOK, FreshOK
<1>7. KnownOK'
  BY DEF ClientInv, Types, PlaceOK, KnownOK, FreshOK, InvalidOK
<1> QED
  BY <1>1, <1>2, <1>3, <1>4, <1>5, <1>6, <1>7 DEF ClientInv

LEMMA ClientHandleGoalResponse ==
    ASSUME ClientInv, NEW t \in Threads, NEW g \in Goals, NEW b, HandleGoalResponse(t, g, b)
    PROVE  ClientInv'
<1> USE ClientAssumption DEF Actors, Final, Active
<1> USE DEF HandleGoalResponse, Take, Go, handleVars, callbackVars, pendingVars
<1>1. Types'
  BY DEF ClientInv, Types, PlaceOK, Places
<1>2. PlaceOK'
  BY DEF ClientInv, Types, PlaceOK, Places
<1>3. FreshOK'
  BY DEF ClientInv, Types, PlaceOK, FreshOK
<1>4. OneRequest'
  BY DEF ClientInv, Types, PlaceOK, FreshOK, OneRequest, RequestOK, Busy, InvalidOK
<1>5. InvalidOK'
  BY DEF ClientInv, Types, PlaceOK, OneRequest, RequestOK, Busy, InvalidOK, KnownOK
<1>6. StopOK'
  BY DEF ClientInv, Types, PlaceOK, StopOK, FreshOK
<1>7. KnownOK'
  BY DEF ClientInv, Types, PlaceOK, KnownOK, FreshOK, InvalidOK
<1> QED
  BY <1>1, <1>2, <1>3, <1>4, <1>5, <1>6, <1>7 DEF ClientInv

LEMMA ClientHandleResultResponse ==
    ASSUME ClientInv, NEW t \in Threads, NEW r \in Requests, NEW c \in Final \cup {"UNKNOWN"}, HandleResultResponse(t, r, c)
    PROVE  ClientInv'
<1> USE ClientAssumption DEF Actors, Final, Active
<1> USE DEF HandleResultResponse, Take, Go, handleVars, callbackVars, pendingVars
<1>1. Types'
  BY DEF ClientInv, Types, PlaceOK, Places
<1>2. PlaceOK'
  BY DEF ClientInv, Types, PlaceOK, Places
<1>3. FreshOK'
  BY DEF ClientInv, Types, PlaceOK, FreshOK
<1>4. OneRequest'
  BY DEF ClientInv, Types, PlaceOK, FreshOK, OneRequest, RequestOK, Busy, InvalidOK
<1>5. InvalidOK'
  BY DEF ClientInv, Types, PlaceOK, OneRequest, RequestOK, Busy, InvalidOK, KnownOK
<1>6. StopOK'
  BY DEF ClientInv, Types, PlaceOK, StopOK, FreshOK
<1>7. KnownOK'
  BY DEF ClientInv, Types, PlaceOK, KnownOK, FreshOK, InvalidOK
<1> QED
  BY <1>1, <1>2, <1>3, <1>4, <1>5, <1>6, <1>7 DEF ClientInv

LEMMA ClientSetResult ==
    ASSUME ClientInv, NEW t \in Threads, SetResult(t)
    PROVE  ClientInv'
<1> USE ClientAssumption DEF Actors, Final, Active
<1> USE DEF SetResult, Go, handleVars, callbackVars, pendingVars
<1>1. Types'
  BY DEF ClientInv, Types, PlaceOK, Places
<1>2. PlaceOK'
  BY DEF ClientInv, Types, PlaceOK, Places
<1>3. FreshOK'
  BY DEF ClientInv, Types, PlaceOK, FreshOK
<1>4. OneRequest'
  BY DEF ClientInv, Types, PlaceOK, FreshOK, OneRequest, RequestOK, Busy, InvalidOK
<1>5. InvalidOK'
  BY DEF ClientInv, Types, PlaceOK, OneRequest, RequestOK, Busy, InvalidOK, KnownOK
<1>6. StopOK'
  BY DEF ClientInv, Types, PlaceOK, StopOK, FreshOK
<1>7. KnownOK'
  BY DEF ClientInv, Types, PlaceOK, KnownOK, FreshOK, InvalidOK
<1> QED
  BY <1>1, <1>2, <1>3, <1>4, <1>5, <1>6, <1>7 DEF ClientInv

LEMMA ClientEraseGoal ==
    ASSUME ClientInv, NEW t \in Threads, EraseGoal(t)
    PROVE  ClientInv'
<1> USE ClientAssumption DEF Actors, Final, Active
<1> USE DEF EraseGoal, Go, handleVars, callbackVars, pendingVars
<1>1. Types'
  BY DEF ClientInv, Types, PlaceOK, Places
<1>2. PlaceOK'
  BY DEF ClientInv, Types, PlaceOK, Places
<1>3. FreshOK'
  BY DEF ClientInv, Types, PlaceOK, FreshOK
<1>4. OneRequest'
  BY DEF ClientInv, Types, PlaceOK, FreshOK, OneRequest, RequestOK, Busy, InvalidOK
<1>5. InvalidOK'
  BY DEF ClientInv, Types, PlaceOK, OneRequest, RequestOK, Busy, InvalidOK, KnownOK
<1>6. StopOK'
  BY DEF ClientInv, Types, PlaceOK, StopOK, FreshOK
<1>7. KnownOK'
  BY DEF ClientInv, Types, PlaceOK, KnownOK, FreshOK, InvalidOK
<1> QED
  BY <1>1, <1>2, <1>3, <1>4, <1>5, <1>6, <1>7 DEF ClientInv

LEMMA ClientHandleCancelResponse ==
    ASSUME ClientInv, NEW t \in Threads, NEW c \in Cancels, NEW b, HandleCancelResponse(t, c, b)
    PROVE  ClientInv'
<1> USE ClientAssumption DEF Actors, Final, Active
<1> USE DEF HandleCancelResponse, Take, handleVars, callbackVars, pendingVars
<1>1. Types'
  BY DEF ClientInv, Types, PlaceOK, Places
<1>2. PlaceOK'
  BY DEF ClientInv, Types, PlaceOK, Places
<1>3. FreshOK'
  BY DEF ClientInv, Types, PlaceOK, FreshOK
<1>4. OneRequest'
  BY DEF ClientInv, Types, PlaceOK, FreshOK, OneRequest, RequestOK, Busy, InvalidOK
<1>5. InvalidOK'
  BY DEF ClientInv, Types, PlaceOK, OneRequest, RequestOK, Busy, InvalidOK, KnownOK
<1>6. StopOK'
  BY DEF ClientInv, Types, PlaceOK, StopOK, FreshOK
<1>7. KnownOK'
  BY DEF ClientInv, Types, PlaceOK, KnownOK, FreshOK, InvalidOK
<1> QED
  BY <1>1, <1>2, <1>3, <1>4, <1>5, <1>6, <1>7 DEF ClientInv

LEMMA ClientHandleFeedback ==
    ASSUME ClientInv, NEW t \in Threads, NEW g \in Goals, HandleFeedback(t, g)
    PROVE  ClientInv'
<1> USE ClientAssumption DEF Actors, Final, Active
<1> USE DEF HandleFeedback, Take, CanLock, handleVars, callbackVars, pendingVars
<1>1. Types'
  BY DEF ClientInv, Types, PlaceOK, Places
<1>2. PlaceOK'
  BY DEF ClientInv, Types, PlaceOK, Places
<1>3. FreshOK'
  BY DEF ClientInv, Types, PlaceOK, FreshOK
<1>4. OneRequest'
  BY DEF ClientInv, Types, PlaceOK, FreshOK, OneRequest, RequestOK, Busy, InvalidOK
<1>5. InvalidOK'
  BY DEF ClientInv, Types, PlaceOK, OneRequest, RequestOK, Busy, InvalidOK, KnownOK
<1>6. StopOK'
  BY DEF ClientInv, Types, PlaceOK, StopOK, FreshOK
<1>7. KnownOK'
  BY DEF ClientInv, Types, PlaceOK, KnownOK, FreshOK, InvalidOK
<1> QED
  BY <1>1, <1>2, <1>3, <1>4, <1>5, <1>6, <1>7 DEF ClientInv

(***************************************************************************)
(* The server and the messages                                             *)
(***************************************************************************)
\* The types of the server's variables and of the status topic.
ServerTypes ==
    /\ gstate \in [Goals -> Final \cup Active \cup {"UNKNOWN"}]
    /\ asked \in [Requests -> Goals \cup {None}]
    /\ DOMAIN list \subseteq Goals
    /\ \A g \in DOMAIN list : list[g] \in Final \cup Active
    /\ sent \subseteq Goals
    /\ lost \in 0..MaxLost

\* Messages of the result service belong to one request for one goal, and a
\* result on its way to the user is the terminal state of that goal.
WireOK ==
    /\ \A r \in Requests, g \in Goals :
           ResultRequest(r, g) \in net => asked[r] = None /\ pendingResult[r] \in {None, g}
    /\ \A r \in Requests, g, h \in Goals :
           ResultRequest(r, g) \in net /\ ResultRequest(r, h) \in net => g = h
    /\ \A r \in Requests : asked[r] # None => pendingResult[r] \in {None, asked[r]}
    /\ \A r \in Requests, c \in Final :
           ResultResponse(r, c) \in net => asked[r] \in Goals /\ gstate[asked[r]] = c
    /\ \A a \in Actors : pc[a] = "set" /\ code[a] \in Final => gstate[arg[a]] = code[a]
    /\ \A g \in Goals : rpromise[g] \in Final => gstate[g] = rpromise[g]

LEMMA InitServer == Init => ServerTypes /\ WireOK
BY ClientAssumption, SystemAssumption
   DEF Init, ClientInit, Server!Init, NoStatus, ServerTypes, WireOK, Final, Actors

LEMMA ClientHandleStatus ==
    ASSUME ClientInv, ServerTypes, NEW t \in Threads, HandleStatus(t, list)
    PROVE  ClientInv'
<1> USE ClientAssumption DEF Actors, Final, Active
<1> USE DEF HandleStatus, CanLock, handleVars, callbackVars, pendingVars
<1>1. Types'
  BY DEF ClientInv, Types, ServerTypes, Places
<1>2. PlaceOK' /\ FreshOK'
  BY DEF ClientInv, Types, PlaceOK, FreshOK
<1>3. OneRequest'
  BY DEF ClientInv, Types, OneRequest, RequestOK, Busy
<1>4. InvalidOK' /\ StopOK' /\ KnownOK'
  BY DEF ClientInv, Types, InvalidOK, StopOK, KnownOK
<1> QED
  BY <1>1, <1>2, <1>3, <1>4 DEF ClientInv

\* Messages of the result service are told apart from all others.
LEMMA MessageFacts ==
    /\ \A r, g, s, h : ResultRequest(r, g) = ResultRequest(s, h) => r = s /\ g = h
    /\ \A r, c, s, d : ResultResponse(r, c) = ResultResponse(s, d) => r = s /\ c = d
    /\ \A r, g, s, c : ResultRequest(r, g) # ResultResponse(s, c)
    /\ \A r, g, h : ResultRequest(r, g) # GoalRequest(h) /\ ResultResponse(r, g) # GoalRequest(h)
    /\ \A r, g, h : ResultRequest(r, g) # Feedback(h) /\ ResultResponse(r, g) # Feedback(h)
    /\ \A r, g, h, b : /\ ResultRequest(r, g) # GoalResponse(h, b)
                       /\ ResultResponse(r, g) # GoalResponse(h, b)
    /\ \A r, g, c, h : /\ ResultRequest(r, g) # CancelRequest(c, h)
                       /\ ResultResponse(r, g) # CancelRequest(c, h)
    /\ \A r, g, c, b : /\ ResultRequest(r, g) # CancelResponse(c, b)
                       /\ ResultResponse(r, g) # CancelResponse(c, b)
    /\ \A r, g : ResultRequest(r, g).type = "result" /\ ResultRequest(r, g).req = r
BY DEF GoalRequest, GoalResponse, ResultRequest, ResultResponse, CancelRequest, CancelResponse,
       Feedback

\* What the client does without touching the result service.
LEMMA WireQuiet ==
    ASSUME WireOK, UNCHANGED <<gstate, asked>>,
           \A r \in Requests, g \in Goals : ResultRequest(r, g) \in net' => ResultRequest(r, g) \in net,
           \A r \in Requests, c \in Final : ResultResponse(r, c) \in net' => ResultResponse(r, c) \in net,
           \A r \in Requests : pendingResult'[r] \in {None, pendingResult[r]},
           \A a \in Actors : pc'[a] = "set" => pc[a] = "set" /\ code'[a] = code[a] /\ arg'[a] = arg[a],
           \A g \in Goals : rpromise'[g] \in Final => rpromise'[g] = rpromise[g]
    PROVE  WireOK'
BY DEF WireOK

LEMMA WireClient ==
    ASSUME ClientInv, ServerTypes, WireOK, UNCHANGED serverVars, NEW a \in Actors,
           UserCalls \/ MakeResultAware(a) \/ SendResultFails(a) \/ (a = User /\ StopErase)
    PROVE  WireOK'
<1> USE ClientAssumption DEF Actors, serverVars, handleVars, callbackVars, pendingVars
<1>1. ASSUME NEW g \in Goals, NEW o, SendGoal(g, o) PROVE WireOK'
  BY <1>1, WireQuiet, MessageFacts DEF SendGoal
<1>2. ASSUME NEW g \in Goals, NEW b, GetResult(g, b) PROVE WireOK'
  <2>1. pc' = [pc EXCEPT ![User] = "aware"] /\ arg' = [arg EXCEPT ![User] = g]
    BY <1>2 DEF GetResult, Go
  <2> QED
    BY <1>2, <2>1, WireQuiet DEF GetResult, ClientInv, Types
<1>3. ASSUME NEW g \in Goals, NEW c \in Cancels, CancelGoal(c, g) PROVE WireOK'
  BY <1>3, WireQuiet, MessageFacts DEF CancelGoal
<1>4. ASSUME NEW g \in Goals, StopCallbacks(g) PROVE WireOK'
  <2>1. pc' = [pc EXCEPT ![User] = "stop"] /\ arg' = [arg EXCEPT ![User] = g]
    BY <1>4 DEF StopCallbacks, Go
  <2> QED
    BY <1>4, <2>1, WireQuiet DEF StopCallbacks, ClientInv, Types
<1>5. ASSUME NEW g \in Goals, Drop(g) PROVE WireOK'
  BY <1>5, WireQuiet DEF Drop
<1>6. CASE Destroy
  BY <1>6, WireQuiet DEF Destroy, InvalidateEach, Final, ClientInv, Types
<1>7. CASE MakeResultAware(a)
  <2>1. /\ \E p \in {"idle", "send"} :
             \E x : pc' = [pc EXCEPT ![a] = p] /\ arg' = [arg EXCEPT ![a] = x]
        /\ UNCHANGED <<net, pendingResult, rpromise, code>>
    BY <1>7 DEF MakeResultAware, Go
  <2> QED
    BY <2>1, WireQuiet DEF ClientInv, Types
<1>8. CASE SendResultFails(a)
  BY <1>8, WireQuiet DEF SendResultFails, InvalidateEach, Go, Final, ClientInv, Types
<1>9. CASE a = User /\ StopErase
  BY <1>9, WireQuiet DEF StopErase, Go, ClientInv, Types
<1> QED
  BY <1>1, <1>2, <1>3, <1>4, <1>5, <1>6, <1>7, <1>8, <1>9 DEF UserCalls

LEMMA WireSendRequest ==
    ASSUME ClientInv, ServerTypes, WireOK, UNCHANGED serverVars, NEW a \in Actors,
           NEW r \in Requests, asked[r] = None, SendResultRequest(a, r)
    PROVE  WireOK'
<1>1. /\ \A g \in Goals : ResultRequest(r, g) \notin net
      /\ pendingResult' = [pendingResult EXCEPT ![r] = arg[a]]
      /\ net' = net \cup {ResultRequest(r, arg[a])}
      /\ pc' = [pc EXCEPT ![a] = "idle"] /\ arg' = [arg EXCEPT ![a] = None]
      /\ UNCHANGED <<rpromise, code, gstate, asked>>
  BY MessageFacts DEF SendResultRequest, Go, serverVars, handleVars
<1>2. /\ \A s \in Requests, g \in Goals : ResultRequest(s, g) \in net' =>
             ResultRequest(s, g) \in net \/ (s = r /\ g = arg[a])
      /\ \A s \in Requests, c \in Final : ResultResponse(s, c) \in net' => ResultResponse(s, c) \in net
  BY <1>1, MessageFacts
<1>3. /\ pendingResult'[r] = arg[a]
      /\ \A s \in Requests \ {r} : pendingResult'[s] = pendingResult[s]
      /\ \A b \in Actors : pc'[b] = "set" => pc[b] = "set" /\ arg'[b] = arg[b]
  BY <1>1 DEF ClientInv, Types
<1> QED
  BY <1>1, <1>2, <1>3 DEF WireOK

LEMMA WireHandles ==
    ASSUME ClientInv, ServerTypes, WireOK, UNCHANGED serverVars, NEW t \in Threads,
           Handles(t) \/ SetResult(t) \/ EraseGoal(t) \/ HandleStatus(t, list)
    PROVE  WireOK'
<1> USE ClientAssumption DEF Actors, serverVars, handleVars, callbackVars, pendingVars
<1>1. ASSUME NEW g \in Goals, NEW b, HandleGoalResponse(t, g, b) PROVE WireOK'
  <2>1. /\ net' \subseteq net /\ UNCHANGED <<pendingResult, code, rpromise>>
        /\ \/ UNCHANGED <<pc, arg>>
           \/ pc' = [pc EXCEPT ![t] = "aware"] /\ arg' = [arg EXCEPT ![t] = g]
    BY <1>1 DEF HandleGoalResponse, Take, Go
  <2> QED
    BY <2>1, WireQuiet DEF ClientInv, Types
<1>2. ASSUME NEW r \in Requests, NEW c \in Final \cup {"UNKNOWN"}, HandleResultResponse(t, r, c)
      PROVE  WireOK'
  <2>1. /\ ResultResponse(r, c) \in net /\ net' \subseteq net /\ pendingResult[r] # None
        /\ pendingResult' = [pendingResult EXCEPT ![r] = None]
        /\ pc' = [pc EXCEPT ![t] = "set"] /\ arg' = [arg EXCEPT ![t] = pendingResult[r]]
        /\ code' = [code EXCEPT ![t] = c] /\ rpromise' = rpromise
    BY <1>2 DEF HandleResultResponse, Take, Go
  <2>2. c \in Final => gstate[pendingResult[r]] = c
    BY <2>1 DEF WireOK
  <2>3. /\ \A b \in Actors \ {t} : pc'[b] = pc[b] /\ arg'[b] = arg[b] /\ code'[b] = code[b]
        /\ code'[t] = c /\ arg'[t] = pendingResult[r]
        /\ \A s \in Requests : pendingResult'[s] \in {None, pendingResult[s]}
    BY <2>1 DEF ClientInv, Types
  <2> QED
    BY <2>1, <2>2, <2>3 DEF WireOK
<1>3. ASSUME NEW c \in Cancels, NEW b, HandleCancelResponse(t, c, b) PROVE WireOK'
  BY <1>3, WireQuiet DEF HandleCancelResponse, Take
<1>4. ASSUME NEW g \in Goals, HandleFeedback(t, g) PROVE WireOK'
  BY <1>4, WireQuiet DEF HandleFeedback, Take
<1>5. CASE SetResult(t)
  <2>1. /\ UNCHANGED <<net, pendingResult>> /\ pc[t] = "set" /\ arg[t] \in Goals
        /\ \E p \in {"idle", "erase"} :
             \E x : pc' = [pc EXCEPT ![t] = p] /\ arg' = [arg EXCEPT ![t] = x]
        /\ rpromise' = rpromise \/ rpromise' = [rpromise EXCEPT ![arg[t]] = code[t]]
        /\ code' = [code EXCEPT ![t] = None]
    BY <1>5, ZenonT(40) DEF SetResult, Go, ClientInv, PlaceOK, Types
  <2>2. \A b \in Actors : pc'[b] = "set" => pc[b] = "set" /\ arg'[b] = arg[b] /\ code'[b] = code[b]
    BY <2>1 DEF ClientInv, Types
  <2>3. \A g \in Goals : rpromise'[g] \in Final => gstate[g] = rpromise'[g]
    BY <2>1 DEF WireOK, ClientInv, Types
  <2> QED
    BY <2>1, <2>2, <2>3 DEF WireOK
<1>6. CASE EraseGoal(t)
  BY <1>6, WireQuiet DEF EraseGoal, Go, ClientInv, Types
<1>7. CASE HandleStatus(t, list)
  BY <1>7, WireQuiet DEF HandleStatus
<1> QED
  BY <1>1, <1>2, <1>3, <1>4, <1>5, <1>6, <1>7 DEF Handles

\* A step of the server: goals only leave active states, requests are asked
\* once.
LEMMA ServerMoves ==
    ASSUME ServerTypes, NEW g \in Goals,
           \/ Server!Accept(g) \/ Server!Execute(g) \/ Server!Finish(g) \/ Server!Canceled(g)
           \/ Server!Cancel(g)
    PROVE  /\ gstate' \in [Goals -> Final \cup Active \cup {"UNKNOWN"}]
           /\ \A h \in Goals : gstate[h] \in Final => gstate'[h] = gstate[h]
           /\ asked' = asked
BY DEF ServerTypes, Server!Accept, Server!Execute, Server!Finish, Server!Canceled, Server!Cancel,
       Server!Move, Final, Active

LEMMA WireServerQuiet ==
    ASSUME ClientInv, WireOK, UNCHANGED <<pendingResult, pc, arg, code, rpromise, asked>>,
           \A h \in Goals : gstate[h] \in Final => gstate'[h] = gstate[h],
           \A r \in Requests, g \in Goals : ResultRequest(r, g) \in net' => ResultRequest(r, g) \in net,
           \A r \in Requests, c \in Final : ResultResponse(r, c) \in net' => ResultResponse(r, c) \in net
    PROVE  WireOK'
<1>1. \A a \in Actors : pc[a] = "set" => arg[a] \in Goals
  BY ClientAssumption DEF ClientInv, PlaceOK, Types
<1> QED
  BY <1>1 DEF WireOK

LEMMA ServerStepInv ==
    ASSUME ClientInv, ServerTypes, WireOK, ServerStep
    PROVE  ClientInv' /\ ServerTypes' /\ WireOK'
<1> USE ClientAssumption
<1>0. UNCHANGED clientButNet
  BY DEF ServerStep, ServerGoal, ServerMove, ServerReply, ServerFeedback, ServerAsk, ServerCancel,
         ServerStatus
<1>1. ClientInv'
  BY <1>0, ClientUnchanged
<1>2. UNCHANGED <<pendingResult, pc, arg, code, rpromise>>
  BY <1>0 DEF clientButNet, pendingVars, handleVars
<1>3. ASSUME NEW g \in Goals, ServerGoal(g) PROVE ServerTypes' /\ WireOK'
  <2>1. /\ \E b : net' = (net \ {GoalRequest(g)}) \cup {GoalResponse(g, b)}
        /\ Server!Accept(g) \/ UNCHANGED serverVars
        /\ UNCHANGED <<list, unread, sent, lost>>
    BY <1>3 DEF ServerGoal, Exchange
  <2>2. /\ \A r \in Requests, h \in Goals : ResultRequest(r, h) \in net' => ResultRequest(r, h) \in net
        /\ \A r \in Requests, c \in Final : ResultResponse(r, c) \in net' => ResultResponse(r, c) \in net
    BY <2>1, MessageFacts
  <2>3. ServerTypes'
    BY <2>1, ServerMoves DEF ServerTypes, serverVars
  <2> QED
    BY <1>2, <2>1, <2>2, <2>3, ServerMoves, WireServerQuiet DEF serverVars
<1>4. ASSUME NEW g \in Goals, ServerMove(g) PROVE ServerTypes' /\ WireOK'
  <2>1. /\ Server!Execute(g) \/ Server!Finish(g) \/ Server!Canceled(g)
        /\ UNCHANGED <<net, list, sent, lost>>
    BY <1>4 DEF ServerMove
  <2> QED
    BY <1>2, <2>1, ServerMoves, WireServerQuiet DEF ServerTypes
<1>5. ASSUME NEW g \in Goals, NEW r \in Requests, ServerAsk(r, g) PROVE ServerTypes' /\ WireOK'
  <2>1. /\ asked[r] = None /\ asked' = [asked EXCEPT ![r] = g] /\ gstate' = gstate
        /\ ResultRequest(r, g) \in net
        /\ \E rs : /\ net' = (net \ {ResultRequest(r, g)}) \cup rs
                   /\ \A m \in rs : m = ResultResponse(r, "UNKNOWN")
        /\ UNCHANGED <<list, sent, lost>>
    <3>1. Server!Ask(r, g) /\ ResultRequest(r, g) \in net /\ UNCHANGED <<list, sent, lost>>
      BY <1>5 DEF ServerAsk, Exchange
    <3>2. \E rs : /\ net' = (net \ {ResultRequest(r, g)}) \cup rs
                  /\ \A m \in rs : m = ResultResponse(r, "UNKNOWN")
      <4> DEFINE rs == {ResultResponse(r, c) : c \in {c \in {"UNKNOWN"} : answer'[r] = <<c>>}}
      <4>1. net' = (net \ {ResultRequest(r, g)}) \cup rs
        BY <1>5 DEF ServerAsk, Exchange
      <4>2. \A m \in rs : m = ResultResponse(r, "UNKNOWN")
        OBVIOUS
      <4> HIDE DEF rs
      <4> QED
        BY <4>1, <4>2
    <3> QED
      BY <3>1, <3>2 DEF Server!Ask
  <2>2. /\ \A s \in Requests, h \in Goals : ResultRequest(s, h) \in net' =>
               ResultRequest(s, h) \in net /\ (s = r => h # g)
        /\ \A s \in Requests, c \in Final : ResultResponse(s, c) \in net' => ResultResponse(s, c) \in net
    BY <2>1, MessageFacts DEF Final
  <2>3. asked'[r] = g /\ \A s \in Requests \ {r} : asked'[s] = asked[s]
    BY <2>1 DEF ServerTypes
  <2>4. WireOK'
    BY <1>2, <2>1, <2>2, <2>3 DEF WireOK
  <2> QED
    BY <2>1, <2>4 DEF ServerTypes
<1>6. ASSUME NEW g \in Goals, ServerReply(g) PROVE ServerTypes' /\ WireOK'
  <2>1. /\ UNCHANGED <<gstate, asked, list, sent, lost>> /\ gstate[g] \in Final
        /\ \A r \in Requests : answer'[r] # answer[r] => asked[r] = g
        /\ net' = net \cup {ResultResponse(r, gstate[g]) :
                              r \in {r \in Requests : answer'[r] # answer[r]}}
    BY <1>6 DEF ServerReply, Server!Reply, Server!Final, Final
  <2>2. /\ \A s \in Requests, h \in Goals : ResultRequest(s, h) \in net' => ResultRequest(s, h) \in net
        /\ \A s \in Requests, c \in Final : ResultResponse(s, c) \in net' =>
               ResultResponse(s, c) \in net \/ (asked[s] = g /\ c = gstate[g])
    BY <2>1, MessageFacts
  <2>3. WireOK'
    BY <1>2, <2>1, <2>2 DEF WireOK
  <2> QED
    BY <2>1, <2>3 DEF ServerTypes
<1>7. ASSUME NEW g \in Goals, NEW c \in Cancels, ServerCancel(c, g) PROVE ServerTypes' /\ WireOK'
  <2>1. /\ \E b : net' = (net \ {CancelRequest(c, g)}) \cup {CancelResponse(c, b)}
        /\ Server!Cancel(g) \/ UNCHANGED serverVars
        /\ UNCHANGED <<list, sent, lost>>
    BY <1>7 DEF ServerCancel, Exchange
  <2>2. /\ \A r \in Requests, h \in Goals : ResultRequest(r, h) \in net' => ResultRequest(r, h) \in net
        /\ \A r \in Requests, d \in Final : ResultResponse(r, d) \in net' => ResultResponse(r, d) \in net
    BY <2>1, MessageFacts
  <2>3. ServerTypes'
    BY <2>1, ServerMoves DEF ServerTypes, serverVars
  <2> QED
    BY <1>2, <2>1, <2>2, <2>3, ServerMoves, WireServerQuiet DEF serverVars
<1>8. ASSUME NEW g \in Goals, ServerFeedback(g) PROVE ServerTypes' /\ WireOK'
  <2>1. /\ net' = net \cup {Feedback(g)} /\ sent' = sent \cup {g}
        /\ UNCHANGED <<gstate, asked, list, lost>>
    BY <1>8 DEF ServerFeedback, serverVars
  <2>2. WireOK'
    BY <1>2, <2>1, MessageFacts, WireServerQuiet
  <2> QED
    BY <2>1, <2>2 DEF ServerTypes
<1>9. CASE ServerStatus
  <2>1. list' = Statuses /\ UNCHANGED <<net, gstate, asked, sent, lost>>
    BY <1>9 DEF ServerStatus, serverVars
  <2>2. /\ DOMAIN list' \subseteq Goals
        /\ \A g \in DOMAIN list' : list'[g] \in Final \cup Active
    BY <2>1 DEF Statuses, ServerTypes
  <2>3. WireOK'
    BY <1>2, <2>1, WireServerQuiet
  <2> QED
    BY <1>1, <2>1, <2>2, <2>3 DEF ServerTypes
<1> QED
  BY <1>1, <1>3, <1>4, <1>5, <1>6, <1>7, <1>8, <1>9 DEF ServerStep

(***************************************************************************)
(* The theorems                                                            *)
(***************************************************************************)
Inv == ClientInv /\ ServerTypes /\ WireOK

LEMMA InitInv == Init => Inv
BY InitClient, InitServer DEF Init, Inv

LEMMA InvStep == Inv /\ [Next]_vars => Inv'
<1> SUFFICES ASSUME Inv, [Next]_vars PROVE Inv'
  OBVIOUS
<1> USE DEF Inv
<1>0. UNCHANGED serverButNet => UNCHANGED serverVars /\ (ServerTypes => ServerTypes')
  BY DEF serverButNet, serverVars, ServerTypes
<1>1. User \in Actors /\ Threads \subseteq Actors
  BY DEF Actors
<1>2. CASE UserCalls /\ UNCHANGED serverButNet
  <2>1. ClientInv'
    BY <1>2, ClientSendGoal, ClientGetResult, ClientCancelGoal, ClientStopCallbacks, ClientDrop,
       ClientDestroy DEF UserCalls
  <2> QED
    BY <1>0, <1>1, <1>2, <2>1, WireClient
<1>3. ASSUME NEW a \in Actors, Continues(a), UNCHANGED serverButNet PROVE Inv'
  <2>1. ClientInv'
    BY <1>3, ClientMakeResultAware, ClientSendResultRequest, ClientSendResultFails,
       ClientStopErase, ClientSetResult, ClientEraseGoal DEF Continues
  <2>2. WireOK'
    BY <1>0, <1>3, WireClient, WireSendRequest, WireHandles DEF Continues
  <2> QED
    BY <1>0, <1>3, <2>1, <2>2
<1>4. ASSUME NEW t \in Threads, Handles(t), UNCHANGED serverButNet PROVE Inv'
  <2>1. ClientInv'
    BY <1>4, ClientHandleGoalResponse, ClientHandleResultResponse, ClientHandleCancelResponse,
       ClientHandleFeedback DEF Handles
  <2> QED
    BY <1>0, <1>4, <2>1, WireHandles
<1>5. ASSUME NEW t \in Threads, TakesStatus(t) PROVE Inv'
  <2>1. HandleStatus(t, list) /\ UNCHANGED <<serverVars, list, sent, lost>>
    BY <1>5 DEF TakesStatus
  <2>2. ServerTypes'
    BY <2>1 DEF ServerTypes, serverVars
  <2> QED
    BY <2>1, <2>2, ClientHandleStatus, WireHandles
<1>6. CASE ServerStep
  BY <1>6, ServerStepInv
<1>7. ASSUME NEW m \in net, Lose(m) PROVE Inv'
  <2>1. /\ UNCHANGED <<clientButNet, serverVars, list, sent>> /\ net' \subseteq net
        /\ lost < MaxLost /\ lost' = lost + 1
    BY <1>7 DEF Lose
  <2>2. ServerTypes'
    BY <2>1, SystemAssumption DEF ServerTypes, serverVars
  <2>3. WireOK'
    BY <2>1, WireServerQuiet DEF serverVars, clientButNet, pendingVars, handleVars
  <2> QED
    BY <2>1, <2>2, <2>3, ClientUnchanged
<1>8. CASE UNCHANGED vars
  <2>1. UNCHANGED <<clientButNet, net, gstate, asked, list, sent, lost>>
    BY <1>8 DEF vars, clientVars, clientButNet, pendingVars, handleVars, callbackVars
  <2>2. WireOK'
    BY <2>1, WireServerQuiet DEF clientButNet, pendingVars, handleVars
  <2> QED
    BY <2>1, <2>2, ClientUnchanged DEF ServerTypes
<1> QED
  BY <1>2, <1>3, <1>4, <1>5, <1>6, <1>7, <1>8 DEF Next

LEMMA InvHolds == Spec => []Inv
BY InitInv, InvStep, PTL DEF Spec

\* The result a client reports is the terminal state its goal has at the
\* server, for any number of goals and executor threads, and whatever is lost
\* or delayed (handle_result_response, set_result).
THEOREM ResultsAreTheServers == Spec => []ResultIsTheServers
<1>1. Inv => ResultIsTheServers
  BY DEF Inv, ClientInv, Types, WireOK, ResultIsTheServers
<1> QED
  BY <1>1, InvHolds, PTL

\* No valid handle gets two results: is_result_aware_ lets one caller through,
\* of all that ask for the result (make_result_aware, set_result).
THEOREM OneResultPerHandle == Spec => []PromiseSetOnce
<1>1. Inv => PromiseSetOnce
  BY DEF Inv, ClientInv, InvalidOK, PromiseSetOnce
<1> QED
  BY <1>1, InvHolds, PTL

\* After ~Client() whoever holds a handle, and has not stopped its callbacks,
\* has a result or an exception.
THEOREM NobodyWaitsForADeadClient == Spec => []DestroyFulfils
<1>1. Inv => DestroyFulfils
  BY DEF Inv, ClientInv, KnownOK, DestroyFulfils
<1> QED
  BY <1>1, InvHolds, PTL

\* After stop_callbacks() neither callback of the goal is called, whatever
\* responses and feedback are in flight.
THEOREM StoppedForGood == Spec => []StopIsFinal
<1>1. Inv => StopIsFinal
  BY DEF Inv, ClientInv, StopOK, StopIsFinal
<1> QED
  BY <1>1, InvHolds, PTL

\* With one executor thread, a status message that was on its way does not
\* change the status of a goal whose result the user has
\* (handle_status_message, the erasure in handle_result_response).
THEOREM FinalStatusStays == (\A s, t \in Threads : s = t) => (Spec => StatusStaysFinal)
<1> SUFFICES ASSUME \A s, t \in Threads : s = t PROVE Spec => StatusStaysFinal
  OBVIOUS
<1>1. Inv /\ [Next]_vars =>
          [\A g \in Goals : rpromise[g] \in Final => status'[g] = status[g]]_vars
  <2> SUFFICES ASSUME Inv, Next, NEW g \in Goals, rpromise[g] \in Final
               PROVE  status'[g] = status[g]
    OBVIOUS
  <2>1. /\ g \notin invalid /\ rpromise[g] \notin {None, "UNKNOWN", "EXCEPTION"}
        /\ \A a \in Actors : ~Busy(a, g)
        /\ gpromise[g] = "handle"
        /\ g \in known => \E t \in Threads : pc[t] = "erase" /\ arg[t] = g
    BY ClientAssumption DEF Inv, ClientInv, InvalidOK, OneRequest, RequestOK, FreshOK, KnownOK, Final
  <2>2. ASSUME NEW gs, InvalidateEach(gs), g \notin gs PROVE status'[g] = status[g]
    BY <2>2 DEF InvalidateEach
  <2>3. CASE UserCalls
    <3>1. CASE Destroy
      BY <2>1, <2>2, <3>1 DEF Destroy, Actors
    <3>2. CASE ~Destroy
      BY <2>3, <3>2 DEF UserCalls, SendGoal, GetResult, CancelGoal, StopCallbacks, Drop, handleVars
    <3> QED
      BY <3>1, <3>2
  <2>4. ASSUME NEW a \in Actors, Continues(a) PROVE status'[g] = status[g]
    <3>1. CASE SendResultFails(a)
      BY <2>1, <2>2, <3>1 DEF SendResultFails, Busy
    <3>2. CASE SetResult(a)
      <4>1. arg[a] # g /\ status' = [status EXCEPT ![arg[a]] = code[a]]
        BY <2>1, <3>2 DEF SetResult, Busy
      <4> QED
        BY <4>1 DEF Inv, ClientInv, Types
    <3>3. CASE ~SendResultFails(a) /\ ~SetResult(a)
      BY <2>4, <3>3 DEF Continues, MakeResultAware, SendResultRequest, StopErase, EraseGoal,
         handleVars
    <3> QED
      BY <3>1, <3>2, <3>3
  <2>5. ASSUME NEW t \in Threads, Handles(t) PROVE status'[g] = status[g]
    <3>1. ASSUME NEW h \in Goals, NEW b \in BOOLEAN, HandleGoalResponse(t, h, b)
          PROVE  status'[g] = status[g]
      <4>1. h # g /\ (status' = status \/ status' = [status EXCEPT ![h] = "ACCEPTED"])
        BY <2>1, <3>1 DEF HandleGoalResponse, Inv, ClientInv, FreshOK
      <4> QED
        BY <4>1 DEF Inv, ClientInv, Types
    <3> QED
      BY <2>5, <3>1 DEF Handles, HandleResultResponse, HandleCancelResponse, HandleFeedback,
         handleVars
  <2>6. ASSUME NEW t \in Threads, TakesStatus(t) PROVE status'[g] = status[g]
    <3>1. g \notin known
      BY <2>1, <2>6 DEF TakesStatus, HandleStatus
    <3> QED
      BY <2>6, <3>1 DEF TakesStatus, HandleStatus
  <2>7. ASSUME ServerStep \/ \E m \in net : Lose(m) PROVE status'[g] = status[g]
    BY <2>7 DEF ServerStep, ServerGoal, ServerMove, ServerReply, ServerFeedback, ServerAsk,
       ServerCancel, ServerStatus, Lose, clientButNet, handleVars
  <2> QED
    BY <2>3, <2>4, <2>5, <2>6, <2>7 DEF Next
<1> QED
  BY <1>1, InvHolds, PTL DEF Spec, StatusStaysFinal

(***************************************************************************)
(* Type correctness                                                        *)
(***************************************************************************)
LEMMA MessageTypes ==
    /\ \A g \in Goals : GoalRequest(g) \in Messages /\ Feedback(g) \in Messages
    /\ \A g \in Goals, b \in BOOLEAN : GoalResponse(g, b) \in Messages
    /\ \A r \in Requests, g \in Goals : ResultRequest(r, g) \in Messages
    /\ \A r \in Requests, c \in Final \cup {"UNKNOWN"} : ResultResponse(r, c) \in Messages
    /\ \A c \in Cancels, g \in Goals : CancelRequest(c, g) \in Messages
    /\ \A c \in Cancels, b \in BOOLEAN : CancelResponse(c, b) \in Messages
BY DEF Messages

LEMMA NetStep == Inv /\ net \subseteq Messages /\ [Next]_vars => net' \subseteq Messages
<1> SUFFICES ASSUME Inv, net \subseteq Messages, [Next]_vars PROVE net' \subseteq Messages
  OBVIOUS
<1>1. CASE net' \subseteq net
  BY <1>1
<1>2. CASE \E m \in Messages : net' \subseteq net \cup {m}
  BY <1>2
<1>3. CASE UserCalls
  <2>1. ASSUME NEW g \in Goals, NEW o, SendGoal(g, o) PROVE net' \subseteq Messages
    BY <1>2, <2>1, MessageTypes DEF SendGoal
  <2>2. ASSUME NEW g \in Goals, NEW c \in Cancels, CancelGoal(c, g) PROVE net' \subseteq Messages
    BY <1>2, <2>2, MessageTypes DEF CancelGoal
  <2>3. ASSUME NEW g \in Goals, NEW b,
               GetResult(g, b) \/ StopCallbacks(g) \/ Drop(g) \/ Destroy
        PROVE  net' \subseteq net
    BY <2>3 DEF GetResult, StopCallbacks, Drop, Destroy
  <2>4. Destroy => net' \subseteq net
    BY DEF Destroy
  <2> QED
    BY <1>1, <1>3, <2>1, <2>2, <2>3, <2>4 DEF UserCalls
<1>4. ASSUME NEW a \in Actors, Continues(a) PROVE net' \subseteq Messages
  <2>1. ASSUME NEW r \in Requests, SendResultRequest(a, r) PROVE net' \subseteq Messages
    <3>1. arg[a] \in Goals /\ net' = net \cup {ResultRequest(r, arg[a])}
      BY <2>1 DEF SendResultRequest, Inv, ClientInv, Types, PlaceOK
    <3> QED
      BY <1>2, <3>1, MessageTypes
  <2>2. ASSUME MakeResultAware(a) \/ SendResultFails(a) \/ StopErase \/ SetResult(a) \/ EraseGoal(a)
        PROVE  net' \subseteq net
    BY <2>2 DEF MakeResultAware, SendResultFails, StopErase, SetResult, EraseGoal
  <2> QED
    BY <1>1, <1>4, <2>1, <2>2 DEF Continues
<1>5. ASSUME NEW t \in Threads, Handles(t) \/ TakesStatus(t) PROVE net' \subseteq net
  BY <1>5 DEF Handles, HandleGoalResponse, HandleResultResponse, HandleCancelResponse,
     HandleFeedback, TakesStatus, HandleStatus, Take
<1>6. CASE ServerStep
  <2>1. ASSUME NEW g \in Goals, ServerGoal(g) PROVE net' \subseteq Messages
    <3>1. \E b \in BOOLEAN : net' \subseteq net \cup {GoalResponse(g, b)}
      BY <2>1 DEF ServerGoal, Exchange
    <3> QED
      BY <1>2, <3>1, MessageTypes
  <2>2. ASSUME NEW g \in Goals, NEW c \in Cancels, ServerCancel(c, g) PROVE net' \subseteq Messages
    <3>1. \E b \in BOOLEAN : net' \subseteq net \cup {CancelResponse(c, b)}
      BY <2>2 DEF ServerCancel, Exchange
    <3> QED
      BY <1>2, <3>1, MessageTypes
  <2>3. ASSUME NEW g \in Goals, NEW r \in Requests, ServerAsk(r, g) PROVE net' \subseteq Messages
    <3>1. net' \subseteq net \cup {ResultResponse(r, "UNKNOWN")}
      BY <2>3 DEF ServerAsk, Exchange
    <3> QED
      BY <1>2, <3>1, MessageTypes
  <2>4. ASSUME NEW g \in Goals, ServerReply(g) PROVE net' \subseteq Messages
    <3>1. gstate[g] \in Final
      BY <2>4 DEF ServerReply, Server!Reply, Server!Final, Final
    <3>2. net' \subseteq net \cup {ResultResponse(r, gstate[g]) : r \in Requests}
      BY <2>4 DEF ServerReply
    <3> QED
      BY <3>1, <3>2, MessageTypes
  <2>5. ASSUME NEW g \in Goals, ServerFeedback(g) PROVE net' \subseteq Messages
    BY <1>2, <2>5, MessageTypes DEF ServerFeedback
  <2>6. ASSUME NEW g \in Goals, ServerMove(g) PROVE net' \subseteq net
    BY <2>6 DEF ServerMove
  <2>7. ServerStatus => net' \subseteq net
    BY DEF ServerStatus
  <2> QED
    BY <1>1, <1>6, <2>1, <2>2, <2>3, <2>4, <2>5, <2>6, <2>7 DEF ServerStep
<1>7. ASSUME NEW m \in net, Lose(m) PROVE net' \subseteq net
  BY <1>7 DEF Lose
<1>8. UNCHANGED vars => net' \subseteq net
  BY DEF vars, clientVars
<1> QED
  BY <1>1, <1>3, <1>4, <1>5, <1>6, <1>7, <1>8 DEF Next

LEMMA FlagsStep ==
    ASSUME alive \in BOOLEAN, unread \in BOOLEAN, [Next]_vars
    PROVE  alive' \in BOOLEAN /\ unread' \in BOOLEAN
<1>1. CASE UserCalls /\ UNCHANGED serverButNet
  BY <1>1, Zenon DEF UserCalls, SendGoal, GetResult, CancelGoal, StopCallbacks, Drop, Destroy,
     serverButNet
<1>2. ASSUME NEW a \in Actors, Continues(a), UNCHANGED serverButNet
      PROVE  alive' \in BOOLEAN /\ unread' \in BOOLEAN
  BY <1>2, Zenon DEF Continues, MakeResultAware, SendResultRequest, SendResultFails, StopErase,
     SetResult, EraseGoal, serverButNet
<1>3. ASSUME NEW t \in Threads, Handles(t), UNCHANGED serverButNet
      PROVE  alive' \in BOOLEAN /\ unread' \in BOOLEAN
  BY <1>3, Zenon DEF Handles, HandleGoalResponse, HandleResultResponse, HandleCancelResponse,
     HandleFeedback, serverButNet
<1>4. ASSUME NEW t \in Threads, TakesStatus(t)
      PROVE  alive' \in BOOLEAN /\ unread' \in BOOLEAN
  BY <1>4, Zenon DEF TakesStatus, HandleStatus
<1>5. CASE ServerStep
  BY <1>5, Zenon DEF ServerStep, ServerGoal, ServerMove, ServerReply, ServerFeedback, ServerAsk,
     ServerCancel, ServerStatus, clientButNet
<1>6. ASSUME NEW m \in net, Lose(m)
      PROVE  alive' \in BOOLEAN /\ unread' \in BOOLEAN
  BY <1>6, Zenon DEF Lose, clientButNet
<1>7. CASE UNCHANGED vars
  BY <1>7, Zenon DEF vars, clientVars
<1> QED
  BY <1>1, <1>2, <1>3, <1>4, <1>5, <1>6, <1>7, Zenon DEF Next

\* The variables keep their types, messages and status topic included, whatever
\* calls, handlers and losses interleave (ClientBase, ClientGoalHandle).
THEOREM TypeCorrect == Spec => []TypeOK
<1> DEFINE Typed == Inv /\ net \subseteq Messages /\ alive \in BOOLEAN /\ unread \in BOOLEAN
<1>1. Init => Typed
  <2>1. Init => alive \in BOOLEAN /\ unread \in BOOLEAN
    BY Zenon DEF Init, ClientInit
  <2>2. Init => net \subseteq Messages
    BY DEF Init, ClientInit
  <2> QED
    BY <2>1, <2>2, InitInv
<1>2. Typed /\ [Next]_vars => Typed'
  BY InvStep, NetStep, FlagsStep
<1>3. Typed => TypeOK
  <2> SUFFICES ASSUME Typed PROVE TypeOK
    OBVIOUS
  <2>1. known \subseteq {g \in Goals : gpromise[g] = "handle"}
    BY DEF Inv, ClientInv, FreshOK, Types
  <2>2. rpromise \in [Goals -> Final \cup Active \cup {"UNKNOWN", "EXCEPTION", None}]
    BY DEF Inv, ClientInv, Types
  <2>3. late \subseteq Goals
    BY DEF Inv, ClientInv, StopOK
  <2>4. ClientTypeOK
    BY <2>1, <2>2, <2>3 DEF ClientTypeOK, Inv, ClientInv, Types, Places
  <2> QED
    BY <2>4 DEF TypeOK, Inv, ServerTypes
<1> HIDE DEF Typed
<1> QED
  BY <1>1, <1>2, <1>3, PTL DEF Spec
=============================================================================
