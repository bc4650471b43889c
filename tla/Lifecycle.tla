----------------------------- MODULE Lifecycle -----------------------------
(***************************************************************************)
(* A managed node: the default state machine of rcl_lifecycle              *)
(* (default_state_machine.c, rcl_lifecycle.c) and LifecycleNode's          *)
(* change_state() on it (lifecycle_node_interface_impl.cpp).               *)
(*                                                                         *)
(* Several threads change the state at once: the handler of the            *)
(* change_state service and callers of trigger_transition().  The mutex    *)
(* state_machine_mutex_ is held while the machine takes one transition,    *)
(* not while a user's callback runs.  The copy current_state_, which       *)
(* change_state() writes for get_current_state() and never reads, is left  *)
(* out.                                                                    *)
(***************************************************************************)
EXTENDS Naturals

CONSTANTS
    Service,      \* the executor thread that handles change_state requests
    Users,        \* threads that call trigger_transition(), shutdown(), ...
    MaxFailed,    \* bound: notifications whose publication fails
    MaxPrivate,   \* bound: requests for private transitions
    None

ASSUME LifecycleAssumption ==
    /\ Service \notin Users
    /\ MaxFailed \in Nat /\ MaxPrivate \in Nat

Callers == Users \cup {Service}

(***************************************************************************)
(* The default state machine                                               *)
(***************************************************************************)
Primary == {"unconfigured", "inactive", "active", "finalized"}
Intermediate == {"configuring", "cleaningup", "activating", "deactivating", "shuttingdown",
                 "errorprocessing"}
States == Primary \cup Intermediate

PublicLabels == {"configure", "cleanup", "activate", "deactivate", "shutdown"}
Codes == {"SUCCESS", "FAILURE", "ERROR"}

\* _register_transitions(): <<start, label, goal>>; start and label determine the
\* id.  The labels of the private transitions are the codes of callbacks.
PublicTransitions ==
    {<<"unconfigured", "configure", "configuring">>,
     <<"inactive", "cleanup", "cleaningup">>,
     <<"inactive", "activate", "activating">>,
     <<"active", "deactivate", "deactivating">>,
     <<"unconfigured", "shutdown", "shuttingdown">>,
     <<"inactive", "shutdown", "shuttingdown">>,
     <<"active", "shutdown", "shuttingdown">>}

SuccessGoal == [configuring |-> "inactive", cleaningup |-> "unconfigured",
                activating |-> "active", deactivating |-> "inactive",
                shuttingdown |-> "finalized", errorprocessing |-> "unconfigured"]

FailureGoal == [configuring |-> "unconfigured", cleaningup |-> "inactive",
                activating |-> "inactive", deactivating |-> "active",
                shuttingdown |-> "finalized", errorprocessing |-> "finalized"]

ErrorGoal == [s \in Intermediate |->
                IF s = "errorprocessing" THEN "finalized" ELSE "errorprocessing"]

PrivateTransitions ==
    {<<s, "SUCCESS", SuccessGoal[s]>> : s \in Intermediate}
    \cup {<<s, "FAILURE", FailureGoal[s]>> : s \in Intermediate}
    \cup {<<s, "ERROR", ErrorGoal[s]>> : s \in Intermediate}

\* The look-ups in a state's valid transitions do not tell private from public.
Transitions == PublicTransitions \cup PrivateTransitions

(***************************************************************************)
(* State                                                                   *)
(***************************************************************************)
VARIABLES
    state,        \* state_machine_.current_state
    activated,    \* activated_ of the managed entities
    pc, stage,    \* per caller: where it is; 1 transition, 2 error handling
    id,           \* the transition asked for, <<start, label>>
    initial, cbid,        \* initial_state, current_state_id
    ret,          \* cb_return_code, None while uninitialised
    next,         \* the code of the last callback, the label of the next transition
    answer,       \* the response the last step sent, if any: success, whether a transition began
    failed,       \* number of notifications that could not be published
    flawed,       \* some callback did not succeed
    privates,     \* number of requests for private transitions
    meddled       \* a private transition was taken by a request since no call was under way

machineVars == <<state, failed>>
vars == <<state, activated, pc, stage, id, initial, cbid, ret, next, answer, failed,
          flawed, privates, meddled>>

TypeOK ==
    /\ state \in States
    /\ activated \in BOOLEAN
    /\ pc \in [Callers -> {"idle", "start", "callback", "finish"}]
    /\ stage \in [Callers -> 1..2]
    /\ id \in [Callers -> (States \X (PublicLabels \cup Codes)) \cup {None}]
    /\ initial \in [Callers -> States \cup {None}]
    /\ cbid \in [Callers -> States \cup {None}]
    /\ ret \in [Callers -> Codes \cup {None}]
    /\ next \in [Callers -> Codes \cup {None}]
    /\ answer \in [success : BOOLEAN, began : BOOLEAN] \cup {None}
    /\ failed \in 0..MaxFailed
    /\ flawed \in BOOLEAN /\ meddled \in BOOLEAN
    /\ privates \in 0..MaxPrivate

Init ==
    /\ state = "unconfigured"
    /\ activated = FALSE
    /\ pc = [c \in Callers |-> "idle"]
    /\ stage = [c \in Callers |-> 1]
    /\ id = [c \in Callers |-> None]
    /\ initial = [c \in Callers |-> None]
    /\ cbid = [c \in Callers |-> None]
    /\ ret = [c \in Callers |-> None]
    /\ next = [c \in Callers |-> None]
    /\ answer = None
    /\ failed = 0
    /\ flawed = FALSE /\ meddled = FALSE
    /\ privates = 0

Goto(c, place) == pc' = [pc EXCEPT ![c] = place]

\* A call returns; the locals of change_state() go.  When it was the last one under
\* way, what private requests did to other calls is over.
Return(c, private) ==
    /\ Goto(c, "idle")
    /\ meddled' = ((meddled \/ private) /\ \E d \in Callers \ {c} : pc[d] # "idle")
    /\ stage' = [stage EXCEPT ![c] = 1]
    /\ id' = [id EXCEPT ![c] = None]
    /\ initial' = [initial EXCEPT ![c] = None]
    /\ cbid' = [cbid EXCEPT ![c] = None]
    /\ next' = [next EXCEPT ![c] = None]
    /\ ret' = [ret EXCEPT ![c] = None]

\* The service's response: whether the callback succeeded, whatever is in
\* cb_return_code if no callback was called.
Respond(c, began) ==
    IF c = Service
    THEN \E yes \in IF ret[c] = None THEN BOOLEAN ELSE {ret[c] = "SUCCESS"} :
           answer' = [success |-> yes, began |-> began]
    ELSE answer' = None

(***************************************************************************)
(* A request                                                               *)
(***************************************************************************)
\* A request's transition may be a private one; those are counted, and bounded.
CountPrivate(l) ==
    IF l \in Codes
    THEN privates < MaxPrivate /\ privates' = privates + 1
    ELSE UNCHANGED privates

\* trigger_transition(id), or on_change_state() without a label.
Request(c, s, l) ==
    /\ pc[c] = "idle"
    /\ CountPrivate(l)
    /\ id' = [id EXCEPT ![c] = <<s, l>>]
    /\ answer' = None
    /\ Goto(c, "start")
    /\ UNCHANGED <<machineVars, activated, stage, initial, cbid, ret, next, flawed, meddled>>

\* trigger_transition(label), or on_change_state() with a label, which is looked
\* up under the mutex; its id is used after the mutex was released.
RequestByLabel(c, l) ==
    /\ pc[c] = "idle"
    /\ IF \E t \in Transitions : t[1] = state /\ t[2] = l
       THEN /\ CountPrivate(l)
            /\ id' = [id EXCEPT ![c] = <<state, l>>]
            /\ Goto(c, "start")
            /\ answer' = None
       ELSE /\ answer' = IF c = Service THEN [success |-> FALSE, began |-> FALSE] ELSE None
            /\ UNCHANGED <<id, pc, privates>>
    /\ UNCHANGED <<machineVars, activated, stage, initial, cbid, ret, next, flawed, meddled>>

(***************************************************************************)
(* change_state()                                                          *)
(***************************************************************************)
\* Mutant: the transition is looked up in the whole map, not in the state's
\* valid transitions.
StartFromAnyState(c) ==
    /\ pc[c] = "start"
    /\ \E t \in Transitions :
         /\ t[1] = id[c][1] /\ t[2] = id[c][2]
         /\ state' = t[3]
         /\ cbid' = [cbid EXCEPT ![c] = t[3]]
         /\ meddled' = (meddled \/ t \in PrivateTransitions)
    /\ initial' = [initial EXCEPT ![c] = state]
    /\ Goto(c, "callback")
    /\ answer' = None
    /\ UNCHANGED <<activated, stage, id, ret, next, failed, flawed, privates>>

\* Mutant: the initial state is kept after the transition was taken.
StartThenKeep(c) ==
    /\ pc[c] = "start"
    /\ \E t \in Transitions :
         /\ t[1] = state /\ id[c] = <<t[1], t[2]>>
         /\ state' = t[3]
         /\ cbid' = [cbid EXCEPT ![c] = t[3]]
         /\ initial' = [initial EXCEPT ![c] = t[3]]
         /\ meddled' = (meddled \/ t \in PrivateTransitions)
    /\ Goto(c, "callback")
    /\ answer' = None
    /\ UNCHANGED <<activated, stage, id, ret, next, failed, flawed, privates>>

\* The first critical section: keep the initial state, take the transition, and
\* publish it after the machine has changed.
Start(c) ==
    /\ pc[c] = "start"
    /\ \E t \in Transitions :
         /\ t[1] = state /\ id[c] = <<t[1], t[2]>>
         /\ state' = t[3]
         /\ cbid' = [cbid EXCEPT ![c] = t[3]]
         /\ meddled' = (meddled \/ t \in PrivateTransitions)
    /\ initial' = [initial EXCEPT ![c] = state]
    /\ Goto(c, "callback")
    /\ answer' = None
    /\ UNCHANGED <<activated, stage, id, ret, next, failed, flawed, privates>>

\* ... the transition is not one of the current state's.
StartRefused(c) ==
    /\ pc[c] = "start"
    /\ ~\E t \in Transitions : t[1] = state /\ id[c] = <<t[1], t[2]>>
    /\ Respond(c, FALSE)
    /\ Return(c, FALSE)
    /\ UNCHANGED <<machineVars, activated, flawed, privates>>

\* ... the notification is not published: an error, though the machine moved.
StartUnpublished(c) ==
    /\ pc[c] = "start"
    /\ failed < MaxFailed
    /\ failed' = failed + 1
    /\ \E t \in Transitions :
         /\ t[1] = state /\ id[c] = <<t[1], t[2]>>
         /\ state' = t[3]
         /\ Return(c, t \in PrivateTransitions)
    /\ Respond(c, TRUE)
    /\ UNCHANGED <<activated, flawed, privates>>

\* Mutant: on_deactivate() leaves the managed entities alone.
ActivateOnly(c, code) ==
    /\ pc[c] = "callback"
    /\ cbid[c] \in Primary => code = "SUCCESS"
    /\ activated' = (activated \/ cbid[c] = "activating")
    /\ ret' = IF stage[c] = 1 THEN [ret EXCEPT ![c] = code] ELSE ret
    /\ next' = [next EXCEPT ![c] = code]
    /\ flawed' = (flawed \/ code # "SUCCESS")
    /\ Goto(c, "finish")
    /\ answer' = None
    /\ UNCHANGED <<machineVars, stage, id, initial, cbid, privates, meddled>>

\* execute_callback(): on_activate() and on_deactivate() switch the managed
\* entities; the user's code decides the result, an exception is an ERROR.  In a
\* primary state, where only a private request leads, no callback is attached.
ExecuteCallback(c, code) ==
    /\ pc[c] = "callback"
    /\ cbid[c] \in Primary => code = "SUCCESS"
    /\ activated' = IF cbid[c] = "activating" THEN TRUE
                    ELSE IF cbid[c] = "deactivating" THEN FALSE ELSE activated
    /\ ret' = IF stage[c] = 1 THEN [ret EXCEPT ![c] = code] ELSE ret
    /\ next' = [next EXCEPT ![c] = code]
    /\ flawed' = (flawed \/ code # "SUCCESS")
    /\ Goto(c, "finish")
    /\ answer' = None
    /\ UNCHANGED <<machineVars, stage, id, initial, cbid, privates, meddled>>

\* Mutant: an error is not handled.
FinishAndReturn(c) ==
    /\ pc[c] = "finish"
    /\ \E t \in PrivateTransitions : t[1] = state /\ t[2] = next[c] /\ state' = t[3]
    /\ Respond(c, TRUE)
    /\ Return(c, FALSE)
    /\ UNCHANGED <<failed, activated, flawed, privates>>

\* The second critical section, and the third after an error: the transition the
\* callback's code names, in the state the machine is in by then.  After the
\* second the error callback runs if there was an error; else the call returns.
Finish(c) ==
    /\ pc[c] = "finish"
    /\ \E t \in PrivateTransitions :
         /\ t[1] = state /\ t[2] = next[c]
         /\ state' = t[3]
         /\ \/ /\ stage[c] = 1 /\ ret[c] = "ERROR"
               /\ cbid' = [cbid EXCEPT ![c] = t[3]]
               /\ stage' = [stage EXCEPT ![c] = 2]
               /\ next' = [next EXCEPT ![c] = None]
               /\ Goto(c, "callback")
               /\ answer' = None
               /\ UNCHANGED <<id, initial, ret, meddled>>
            \/ /\ stage[c] = 2 \/ ret[c] # "ERROR"
               /\ Respond(c, TRUE)
               /\ Return(c, FALSE)
    /\ UNCHANGED <<failed, activated, flawed, privates>>

\* ... the state has no such transition: it is a primary one.
FinishRefused(c) ==
    /\ pc[c] = "finish"
    /\ ~\E t \in PrivateTransitions : t[1] = state /\ t[2] = next[c]
    /\ Respond(c, TRUE)
    /\ Return(c, FALSE)
    /\ UNCHANGED <<machineVars, activated, flawed, privates>>

\* ... it is not published.
FinishUnpublished(c) ==
    /\ pc[c] = "finish"
    /\ failed < MaxFailed
    /\ failed' = failed + 1
    /\ \E t \in PrivateTransitions :
         /\ t[1] = state /\ t[2] = next[c]
         /\ state' = t[3]
    /\ Respond(c, TRUE)
    /\ Return(c, FALSE)
    /\ UNCHANGED <<activated, flawed, privates>>

Step(c) ==
    \/ Start(c) \/ StartRefused(c)
    \/ \E code \in Codes : ExecuteCallback(c, code)
    \/ Finish(c) \/ FinishRefused(c)

Next ==
    \/ \E c \in Callers : Step(c) \/ StartUnpublished(c) \/ FinishUnpublished(c)
    \/ \E c \in Callers, t \in Transitions : Request(c, t[1], t[2])
    \/ \E c \in Callers, l \in PublicLabels \cup Codes : RequestByLabel(c, l)

Spec == Init /\ [][Next]_vars

\* A caller goes on; a callback returns.
FairSpec ==
    /\ Spec
    /\ \A c \in Callers : WF_vars(Step(c) \/ StartUnpublished(c) \/ FinishUnpublished(c))

(***************************************************************************)
(* Properties                                                              *)
(***************************************************************************)
\* Caller c has begun a transition that it has not finished.
InTransition(c) == pc[c] \in {"callback", "finish"}

\* Though no mutex is held while callbacks run, one transition runs at a time
\* unless a private one was requested meanwhile: its caller finds the machine in
\* the state it left it in, so that each callback runs in its own state and
\* finishing never fails for the state.
OneTransition ==
    ~meddled => \A c \in Callers : InTransition(c) =>
        /\ state = cbid[c] /\ state \in Intermediate
        /\ \A d \in Callers \ {c} : ~InTransition(d)

\* The machine rests in a primary state: an intermediate one has a caller that
\* will leave it, whoever brought the machine there and whatever was requested,
\* unless a notification could not be published, after which change_state()
\* gives up with the machine already moved.
RestsInPrimary ==
    failed = 0 => (state \in Primary \/ \E c \in Callers : InTransition(c))

\* The state a callback is given as the previous one, the error callback too, is
\* the primary state in which its transition began (initial_state), unless a
\* private transition was requested meanwhile.
CallbackSeesOrigin ==
    ~meddled => \A c \in Callers : InTransition(c) =>
        /\ initial[c] = id[c][1]
        /\ stage[c] = 1 => <<initial[c], id[c][2], cbid[c]>> \in PublicTransitions

\* As long as callbacks succeed, notifications are published and nobody requests
\* a private transition, the managed entities are enabled exactly in the active
\* state (a node that was shut down leaves them as they were).
EntitiesFollow ==
    failed = 0 /\ privates = 0 /\ ~flawed /\ state \in Primary \ {"finalized"} =>
        (activated <=> state = "active")

\* Every transition that began ends in a primary state, whatever the callbacks
\* return and whatever is requested meanwhile, unless a notification could not be
\* published.
TransitionsEnd == (state \in Intermediate) ~> (state \in Primary \/ failed > 0)

\* Transition.msg: private transitions "cannot be invoked by a user" and "are
\* implicitly invoked based on the callback feedback of the intermediate
\* transition states".  So the state a caller's callback runs in is left by
\* that caller alone.
OnlyCallbacksEndTransitions == \A c \in Callers : InTransition(c) => state = cbid[c]
=============================================================================
