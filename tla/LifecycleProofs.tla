-------------------------- MODULE LifecycleProofs --------------------------
(***************************************************************************)
(* For every set of user threads and any number of failed notifications   *)
(* and of requests for private transitions: the safety properties of       *)
(* Lifecycle.                                                              *)
(***************************************************************************)
EXTENDS Lifecycle, TLAPS

(***************************************************************************)
(* The state machine                                                       *)
(***************************************************************************)
\* A public transition leads from a primary state to an intermediate one.
LEMMA PublicFacts ==
    ASSUME NEW t \in PublicTransitions
    PROVE  /\ t = <<t[1], t[2], t[3]>>
           /\ t[1] \in {"unconfigured", "inactive", "active"}
           /\ t[2] \in PublicLabels
           /\ t[3] \in Intermediate \ {"errorprocessing"}
BY DEF PublicTransitions, PublicLabels, Intermediate

\* Where the callbacks' codes lead.
LEMMA GoalFacts ==
    ASSUME NEW s \in Intermediate
    PROVE  /\ SuccessGoal[s] \in Primary /\ FailureGoal[s] \in Primary
           /\ s = "errorprocessing" => ErrorGoal[s] \in Primary
           /\ s # "errorprocessing" => ErrorGoal[s] = "errorprocessing"
BY DEF SuccessGoal, FailureGoal, ErrorGoal, Intermediate, Primary

\* A private transition starts in an intermediate state; it ends in a primary
\* one, or is an error outside of error processing.
LEMMA PrivateFacts ==
    ASSUME NEW t \in PrivateTransitions
    PROVE  /\ t[1] \in Intermediate /\ t[2] \in Codes
           /\ t[2] = "SUCCESS" => t[3] = SuccessGoal[t[1]]
           /\ IF t[2] = "ERROR" /\ t[1] # "errorprocessing"
              THEN t[3] = "errorprocessing" ELSE t[3] \in Primary
<1>1. PICK s \in Intermediate : \/ t = <<s, "SUCCESS", SuccessGoal[s]>>
                                \/ t = <<s, "FAILURE", FailureGoal[s]>>
                                \/ t = <<s, "ERROR", ErrorGoal[s]>>
  BY DEF PrivateTransitions
<1> QED
  BY <1>1, GoalFacts DEF Codes

LEMMA StateKinds == Primary \cap Intermediate = {} /\ "errorprocessing" \in Intermediate
BY DEF Primary, Intermediate

\* In an intermediate state every code of a callback names a transition.
LEMMA CodeFacts ==
    ASSUME NEW s \in Intermediate, NEW code \in Codes
    PROVE  \E t \in PrivateTransitions : t[1] = s /\ t[2] = code
<1>1. CASE code = "SUCCESS"
  <2>1. <<s, "SUCCESS", SuccessGoal[s]>> \in PrivateTransitions
    BY DEF PrivateTransitions
  <2> QED
    BY <1>1, <2>1
<1>2. CASE code = "FAILURE"
  <2>1. <<s, "FAILURE", FailureGoal[s]>> \in PrivateTransitions
    BY DEF PrivateTransitions
  <2> QED
    BY <1>2, <2>1
<1>3. CASE code = "ERROR"
  <2>1. <<s, "ERROR", ErrorGoal[s]>> \in PrivateTransitions
    BY DEF PrivateTransitions
  <2> QED
    BY <1>3, <2>1
<1> QED
  BY <1>1, <1>2, <1>3 DEF Codes

\* What a request may name; its label tells private from public.
LEMMA TransitionFacts ==
    ASSUME NEW t \in Transitions
    PROVE  /\ t[1] \in States /\ t[2] \in PublicLabels \cup Codes /\ t[3] \in States
           /\ t \in PrivateTransitions <=> t[2] \in Codes
           /\ t \notin PrivateTransitions => t \in PublicTransitions
<1>1. \A u \in PrivateTransitions : u[3] \in States
  BY PrivateFacts, StateKinds DEF States
<1>2. PublicLabels \cap Codes = {}
  BY DEF PublicLabels, Codes
<1> QED
  BY <1>1, <1>2, PublicFacts, PrivateFacts DEF Transitions, States, Primary

(***************************************************************************)
(* The inductive invariant                                                 *)
(***************************************************************************)
\* The locals of change_state() against the place a caller has reached.
LocalsOK ==
    \A c \in Callers :
        /\ pc[c] \in {"idle", "start"} => stage[c] = 1
        /\ stage[c] = 2 => ret[c] = "ERROR"
        /\ (~meddled /\ stage[c] = 2) => cbid[c] = "errorprocessing"
        /\ pc[c] = "finish" => next[c] \in Codes
        /\ (pc[c] = "finish" /\ stage[c] = 1) => next[c] = ret[c]

\* Nobody has been meddled with unless a private transition was requested.
PrivatesOK ==
    privates = 0 =>
        /\ ~meddled
        /\ \A c \in Callers : pc[c] = "start" => id[c][2] \notin Codes

\* Whoever has brought the machine to an intermediate state other than error
\* processing has yet to run the transition's callback or to finish.
StarterOK ==
    failed = 0 /\ state \in Intermediate \ {"errorprocessing"} =>
        \E c \in Callers : InTransition(c) /\ stage[c] = 1

\* While every callback succeeds the entities are as they were where the
\* transition began, and after its callback as they have to be where it ends.
EntitiesOK ==
    failed = 0 /\ privates = 0 /\ ~flawed =>
        \A c \in Callers : InTransition(c) =>
            /\ stage[c] = 1
            /\ pc[c] # "finish" => (activated <=> initial[c] = "active")
            /\ pc[c] = "finish" =>
                  /\ next[c] = "SUCCESS"
                  /\ cbid[c] # "shuttingdown" => (activated <=> SuccessGoal[cbid[c]] = "active")

Inv ==
    /\ TypeOK /\ LocalsOK /\ PrivatesOK
    /\ OneTransition /\ RestsInPrimary /\ StarterOK /\ CallbackSeesOrigin
    /\ EntitiesOK /\ EntitiesFollow

LEMMA InitInv == Init => Inv
<1> SUFFICES ASSUME Init PROVE Inv
  OBVIOUS
<1>1. \A c \in Callers : ~InTransition(c)
  BY DEF Init, InTransition
<1>2. activated \in BOOLEAN /\ flawed \in BOOLEAN /\ meddled \in BOOLEAN /\ answer \in {None}
  BY Zenon DEF Init
<1>3. failed \in 0..MaxFailed /\ privates \in 0..MaxPrivate /\ stage \in [Callers -> 1..2]
  BY LifecycleAssumption DEF Init, LifecycleAssumption
<1>4. TypeOK
  BY <1>2, <1>3 DEF Init, TypeOK, States, Primary
<1>5. ~meddled
  BY Zenon DEF Init
<1> QED
  BY <1>1, <1>4, <1>5, StateKinds DEF Init, Inv, LocalsOK, PrivatesOK, OneTransition,
     RestsInPrimary, StarterOK, CallbackSeesOrigin, EntitiesOK, EntitiesFollow, Primary

(***************************************************************************)
(* Types                                                                   *)
(***************************************************************************)
\* A call that returns leaves well-typed locals.
LEMMA ReturnTypes ==
    ASSUME TypeOK, NEW c \in Callers, NEW private \in BOOLEAN, Return(c, private)
    PROVE  /\ pc' \in [Callers -> {"idle", "start", "callback", "finish"}]
           /\ stage' \in [Callers -> 1..2]
           /\ id' \in [Callers -> (States \X (PublicLabels \cup Codes)) \cup {None}]
           /\ initial' \in [Callers -> States \cup {None}]
           /\ cbid' \in [Callers -> States \cup {None}]
           /\ ret' \in [Callers -> Codes \cup {None}]
           /\ next' \in [Callers -> Codes \cup {None}]
           /\ meddled' \in BOOLEAN
<1>1. meddled' \in BOOLEAN
  BY Zenon DEF Return
<1> QED
  BY <1>1 DEF TypeOK, Return, Goto

LEMMA RespondTypes ==
    ASSUME TypeOK, NEW c \in Callers, NEW b \in BOOLEAN, Respond(c, b)
    PROVE  answer' \in [success : BOOLEAN, began : BOOLEAN] \cup {None}
<1>1. CASE c = Service
  <2>1. PICK yes \in IF ret[c] = None THEN BOOLEAN ELSE {ret[c] = "SUCCESS"} :
          answer' = [success |-> yes, began |-> b]
    BY <1>1, Zenon DEF Respond
  <2>2. yes \in BOOLEAN
    BY <2>1, Zenon
  <2> QED
    BY <2>1, <2>2, Zenon
<1>2. CASE c # Service
  BY <1>2, Zenon DEF Respond
<1> QED
  BY <1>1, <1>2, Zenon

LEMMA CountTypes ==
    ASSUME TypeOK, NEW l, CountPrivate(l)
    PROVE  /\ privates' \in 0..MaxPrivate
           /\ privates' = 0 => privates = 0 /\ l \notin Codes
BY LifecycleAssumption DEF TypeOK, CountPrivate, LifecycleAssumption

LEMMA TypeStep ==
    ASSUME TypeOK, Next
    PROVE  TypeOK'
<1> USE DEF TypeOK
<1>1. ASSUME NEW c \in Callers, NEW t \in Transitions, Request(c, t[1], t[2])
      PROVE  TypeOK'
  <2>1. <<t[1], t[2]>> \in States \X (PublicLabels \cup Codes)
    BY TransitionFacts
  <2>2. answer' \in {None} /\ privates' \in 0..MaxPrivate
    BY <1>1, CountTypes DEF Request
  <2> QED
    BY <1>1, <2>1, <2>2 DEF Request, Goto, machineVars
<1>2. ASSUME NEW c \in Callers, NEW l \in PublicLabels \cup Codes, RequestByLabel(c, l)
      PROVE  TypeOK'
  <2>1. answer' \in [success : BOOLEAN, began : BOOLEAN] \cup {None}
    <3>1. [success |-> FALSE, began |-> FALSE] \in [success : BOOLEAN, began : BOOLEAN]
      BY Zenon
    <3> QED
      BY <1>2, <3>1, Zenon DEF RequestByLabel
  <2>2. privates' \in 0..MaxPrivate
    BY <1>2, CountTypes DEF RequestByLabel
  <2> QED
    BY <1>2, <2>1, <2>2 DEF RequestByLabel, Goto, machineVars
<1>3. ASSUME NEW c \in Callers, Start(c)
      PROVE  TypeOK'
  <2>1. meddled' \in BOOLEAN
    BY <1>3, Zenon DEF Start
  <2> QED
    BY <1>3, <2>1, TransitionFacts DEF Start, Goto
<1>4. ASSUME NEW c \in Callers, StartRefused(c)
      PROVE  TypeOK'
  BY <1>4, ReturnTypes, RespondTypes DEF StartRefused, machineVars
<1>5. ASSUME NEW c \in Callers, StartUnpublished(c)
      PROVE  TypeOK'
  <2>1. failed' \in 0..MaxFailed
    BY <1>5, LifecycleAssumption DEF StartUnpublished, LifecycleAssumption
  <2>2. PICK t \in Transitions : state' = t[3] /\ Return(c, t \in PrivateTransitions)
    BY <1>5 DEF StartUnpublished
  <2>3. state' \in States /\ (t \in PrivateTransitions) \in BOOLEAN
    BY <2>2, TransitionFacts
  <2> QED
    BY <1>5, <2>1, <2>2, <2>3, ReturnTypes, RespondTypes DEF StartUnpublished
<1>6. ASSUME NEW c \in Callers, NEW code \in Codes, ExecuteCallback(c, code)
      PROVE  TypeOK'
  <2>1. activated' \in BOOLEAN /\ flawed' \in BOOLEAN
    BY <1>6, Zenon DEF ExecuteCallback
  <2> QED
    BY <1>6, <2>1 DEF ExecuteCallback, Goto, machineVars
<1>7. \A t \in PrivateTransitions : t[3] \in States
  BY PrivateFacts, StateKinds DEF States
<1>8. ASSUME NEW c \in Callers, Finish(c)
      PROVE  TypeOK'
  <2>1. PICK t \in PrivateTransitions :
          /\ state' = t[3]
          /\ \/ /\ cbid' = [cbid EXCEPT ![c] = t[3]]
                /\ stage' = [stage EXCEPT ![c] = 2]
                /\ next' = [next EXCEPT ![c] = None]
                /\ Goto(c, "callback")
                /\ answer' = None
                /\ UNCHANGED <<id, initial, ret, meddled>>
             \/ Respond(c, TRUE) /\ Return(c, FALSE)
    BY <1>8, Zenon DEF Finish
  <2>2. UNCHANGED <<failed, activated, flawed, privates>>
    BY <1>8 DEF Finish
  <2>3. CASE Respond(c, TRUE) /\ Return(c, FALSE)
    BY <1>7, <2>1, <2>2, <2>3, ReturnTypes, RespondTypes
  <2>4. CASE /\ cbid' = [cbid EXCEPT ![c] = t[3]]
             /\ stage' = [stage EXCEPT ![c] = 2]
             /\ next' = [next EXCEPT ![c] = None]
             /\ Goto(c, "callback")
             /\ answer' = None
             /\ UNCHANGED <<id, initial, ret, meddled>>
    BY <1>7, <2>1, <2>2, <2>4 DEF Goto
  <2> QED
    BY <2>1, <2>3, <2>4, Zenon
<1>9. ASSUME NEW c \in Callers, FinishRefused(c)
      PROVE  TypeOK'
  BY <1>9, ReturnTypes, RespondTypes DEF FinishRefused, machineVars
<1>10. ASSUME NEW c \in Callers, FinishUnpublished(c)
       PROVE  TypeOK'
  <2>1. failed' \in 0..MaxFailed
    BY <1>10, LifecycleAssumption DEF FinishUnpublished, LifecycleAssumption
  <2>2. state' \in States
    BY <1>7, <1>10 DEF FinishUnpublished
  <2> QED
    BY <1>10, <2>1, <2>2, ReturnTypes, RespondTypes DEF FinishUnpublished
<1> QED
  BY <1>1, <1>2, <1>3, <1>4, <1>5, <1>6, <1>8, <1>9, <1>10 DEF Next, Step

(***************************************************************************)
(* Steps                                                                   *)
(***************************************************************************)
\* A step of c leaves the locals of every other caller alone.
Frame(c) ==
    \A d \in Callers \ {c} :
        /\ pc'[d] = pc[d] /\ stage'[d] = stage[d] /\ id'[d] = id[d] /\ initial'[d] = initial[d]
        /\ cbid'[d] = cbid[d] /\ ret'[d] = ret[d] /\ next'[d] = next[d]

LEMMA FrameTransitions ==
    ASSUME NEW c \in Callers, Frame(c)
    PROVE  \A d \in Callers \ {c} : InTransition(d)' <=> InTransition(d)
BY DEF Frame, InTransition

\* After a call has returned, meddling is forgotten only if nobody else calls.
LEMMA Returns ==
    ASSUME Inv, NEW c \in Callers, NEW private \in BOOLEAN, Return(c, private)
    PROVE  /\ Frame(c) /\ pc'[c] = "idle" /\ LocalsOK'
           /\ ~InTransition(c)'
           /\ \A d \in Callers \ {c} : InTransition(d)' <=> InTransition(d)
           /\ meddled' => meddled \/ private
           /\ (~meddled' /\ (meddled \/ private)) => \A d \in Callers : ~InTransition(d)'
<1>1. Frame(c) /\ pc'[c] = "idle" /\ stage'[c] = 1
  BY DEF Inv, TypeOK, Frame, Return, Goto
<1>2. /\ ~InTransition(c)'
      /\ \A d \in Callers \ {c} : InTransition(d)' <=> InTransition(d)
  BY <1>1, FrameTransitions DEF InTransition
<1>3. meddled' => meddled \/ private
  BY Zenon DEF Return
<1>4. (~meddled' /\ (meddled \/ private)) => \A d \in Callers \ {c} : pc[d] = "idle"
  BY Zenon DEF Return
<1>5. LocalsOK'
  BY <1>1, <1>4 DEF Inv, LocalsOK, Frame
<1>6. (~meddled' /\ (meddled \/ private)) => \A d \in Callers : ~InTransition(d)'
  BY <1>1, <1>2, <1>4 DEF InTransition, Frame
<1> QED
  BY <1>1, <1>2, <1>3, <1>5, <1>6

\* A step of c that leaves the machine alone, before c is in a transition.
LEMMA QuietStep ==
    ASSUME Inv, NEW c \in Callers, Frame(c), TypeOK', LocalsOK', PrivatesOK',
           UNCHANGED <<state, activated, failed, flawed>>,
           ~InTransition(c), ~InTransition(c)',
           privates' = 0 => privates = 0,
           ~meddled' => ~meddled \/ \A d \in Callers : ~InTransition(d)'
    PROVE  Inv'
<1>1. \A d \in Callers : InTransition(d)' <=> InTransition(d)
  BY FrameTransitions
<1>2. OneTransition' /\ RestsInPrimary' /\ StarterOK'
  BY <1>1 DEF Inv, OneTransition, RestsInPrimary, StarterOK, Frame
<1>3. CallbackSeesOrigin'
  BY <1>1 DEF Inv, CallbackSeesOrigin, Frame
<1>4. EntitiesOK' /\ EntitiesFollow'
  BY <1>1 DEF Inv, EntitiesOK, EntitiesFollow, Frame
<1> QED
  BY <1>2, <1>3, <1>4 DEF Inv

LEMMA RequestStep ==
    ASSUME Inv, NEW c \in Callers, TypeOK',
           \/ \E t \in Transitions : Request(c, t[1], t[2])
           \/ \E l \in PublicLabels \cup Codes : RequestByLabel(c, l)
    PROVE  Inv'
<1>1. /\ pc[c] = "idle" /\ pc'[c] \in {"idle", "start"}
      /\ UNCHANGED <<state, activated, failed, flawed, stage, initial, cbid, ret, next, meddled>>
      /\ \A d \in Callers \ {c} : pc'[d] = pc[d] /\ id'[d] = id[d]
  BY DEF Inv, TypeOK, Request, RequestByLabel, Goto, machineVars
<1>2. /\ privates' = 0 => privates = 0
      /\ (privates' = 0 /\ pc'[c] = "start") => id'[c][2] \notin Codes
  <2>1. ASSUME NEW t \in Transitions, Request(c, t[1], t[2])
        PROVE  /\ privates' = 0 => privates = 0
               /\ (privates' = 0 /\ pc'[c] = "start") => id'[c][2] \notin Codes
    <3>1. id'[c] = <<t[1], t[2]>> /\ CountPrivate(t[2])
      BY <2>1 DEF Inv, TypeOK, Request
    <3> QED
      BY <3>1, CountTypes DEF Inv
  <2>2. ASSUME NEW l \in PublicLabels \cup Codes, RequestByLabel(c, l)
        PROVE  /\ privates' = 0 => privates = 0
               /\ (privates' = 0 /\ pc'[c] = "start") => id'[c][2] \notin Codes
    <3>1. \/ id'[c] = <<state, l>> /\ CountPrivate(l)
          \/ UNCHANGED <<pc, privates>>
      BY <2>2 DEF Inv, TypeOK, RequestByLabel
    <3> QED
      BY <1>1, <3>1, CountTypes DEF Inv
  <2> QED
    BY <2>1, <2>2
<1>3. stage[c] = 1
  BY <1>1 DEF Inv, LocalsOK
<1>4. Frame(c)
  BY <1>1 DEF Frame
<1>5. ~InTransition(c) /\ ~InTransition(c)'
  BY <1>1 DEF InTransition
<1>6. LocalsOK'
  BY <1>1, <1>3, <1>4 DEF Inv, LocalsOK, Frame
<1>7. PrivatesOK'
  BY <1>1, <1>2 DEF Inv, PrivatesOK
<1> QED
  BY <1>1, <1>2, <1>4, <1>5, <1>6, <1>7, QuietStep

LEMMA StartStep ==
    ASSUME Inv, NEW c \in Callers, TypeOK', Start(c)
    PROVE  Inv'
<1>1. PICK t \in Transitions :
        /\ t[1] = state /\ id[c] = <<t[1], t[2]>>
        /\ state' = t[3] /\ cbid' = [cbid EXCEPT ![c] = t[3]]
        /\ meddled' = (meddled \/ t \in PrivateTransitions)
  BY DEF Start
<1>2. ~meddled' => ~meddled /\ t \notin PrivateTransitions
  BY <1>1, Zenon
<1>3. meddled' => meddled \/ t \in PrivateTransitions
  BY <1>1, Zenon
<1>4. /\ pc[c] = "start" /\ pc'[c] = "callback" /\ stage'[c] = 1 /\ cbid'[c] = state'
      /\ initial'[c] = state /\ id'[c] = id[c] /\ id[c][1] = state /\ id[c][2] = t[2]
      /\ UNCHANGED <<activated, failed, flawed, privates>>
  BY <1>1 DEF Inv, TypeOK, LocalsOK, Start, Goto
<1>5. Frame(c)
  BY <1>1 DEF Inv, TypeOK, Frame, Start, Goto
<1>6. InTransition(c)'
  BY <1>4 DEF InTransition
<1>7. LocalsOK'
  BY <1>2, <1>4, <1>5 DEF Inv, LocalsOK, Frame
<1>8. PrivatesOK'
  BY <1>3, <1>4, <1>5, TransitionFacts DEF Inv, PrivatesOK, Frame
<1>9. RestsInPrimary' /\ StarterOK'
  BY <1>4, <1>6 DEF RestsInPrimary, StarterOK
<1>10. ASSUME ~meddled'
       PROVE  /\ OneTransition' /\ CallbackSeesOrigin' /\ EntitiesOK' /\ EntitiesFollow'
  <2>1. ~meddled /\ t \in PublicTransitions /\ t = <<state, id[c][2], state'>>
    BY <1>1, <1>2, <1>4, <1>10, TransitionFacts, PublicFacts
  <2>2. /\ state \in Primary \ {"finalized"} /\ state' \in Intermediate
        /\ state' \notin Primary /\ state \notin Intermediate
    BY <2>1, <1>1, PublicFacts, StateKinds DEF Primary
  <2>3. \A d \in Callers \ {c} : ~InTransition(d)'
    BY <1>5, <2>1, <2>2, FrameTransitions DEF Inv, OneTransition
  <2>4. OneTransition' /\ CallbackSeesOrigin'
    BY <1>4, <1>6, <2>1, <2>2, <2>3 DEF OneTransition, CallbackSeesOrigin
  <2>5. EntitiesOK' /\ EntitiesFollow'
    BY <1>4, <2>2, <2>3 DEF Inv, EntitiesOK, EntitiesFollow
  <2> QED
    BY <2>4, <2>5
<1>11. CASE meddled'
  BY <1>7, <1>8, <1>9, <1>11
     DEF Inv, OneTransition, CallbackSeesOrigin, EntitiesOK, EntitiesFollow, PrivatesOK
<1> QED
  BY <1>7, <1>8, <1>9, <1>10, <1>11 DEF Inv

LEMMA RefusedStep ==
    ASSUME Inv, NEW c \in Callers, TypeOK', StartRefused(c)
    PROVE  Inv'
<1>1. /\ pc[c] = "start" /\ Return(c, FALSE)
      /\ UNCHANGED <<state, activated, failed, flawed, privates>>
  BY DEF StartRefused, machineVars
<1>2. /\ Frame(c) /\ pc'[c] = "idle" /\ LocalsOK' /\ ~InTransition(c)'
      /\ meddled' => meddled
      /\ (~meddled' /\ meddled) => \A d \in Callers : ~InTransition(d)'
  BY <1>1, Returns
<1>3. PrivatesOK' /\ ~InTransition(c)
  BY <1>1, <1>2 DEF Inv, PrivatesOK, Frame, InTransition
<1> QED
  BY <1>1, <1>2, <1>3, QuietStep

\* A transition whose notification failed: its caller returns, and the machine
\* has moved.
LEMMA UnpublishedStep ==
    ASSUME Inv, NEW c \in Callers, TypeOK', StartUnpublished(c) \/ FinishUnpublished(c)
    PROVE  Inv'
<1>1. failed' = failed + 1 /\ failed \in 0..MaxFailed /\ privates' = privates
  BY Zenon DEF StartUnpublished, FinishUnpublished, Inv, TypeOK
<1>2. failed' # 0
  BY <1>1, LifecycleAssumption DEF LifecycleAssumption
<1>3. PICK private \in BOOLEAN :
        /\ Return(c, private)
        /\ ~private => meddled \/ \A d \in Callers \ {c} : ~InTransition(d)
        /\ private => privates # 0
  <2>1. CASE StartUnpublished(c)
    <3>1. PICK t \in Transitions : /\ t[1] = state /\ id[c] = <<t[1], t[2]>>
                                   /\ Return(c, t \in PrivateTransitions)
      BY <2>1 DEF StartUnpublished
    <3>2. t \notin PrivateTransitions => state \notin Intermediate
      BY <3>1, TransitionFacts, PublicFacts, StateKinds DEF Primary
    <3>3. pc[c] = "start" /\ (t \in PrivateTransitions => id[c][2] \in Codes)
      BY <2>1, <3>1, TransitionFacts DEF StartUnpublished
    <3>4. /\ t \notin PrivateTransitions => meddled \/ \A d \in Callers \ {c} : ~InTransition(d)
          /\ t \in PrivateTransitions => privates # 0
      BY <3>2, <3>3 DEF Inv, OneTransition, PrivatesOK
    <3>5. CASE t \in PrivateTransitions
      <4>1. (t \in PrivateTransitions) = TRUE
        BY <3>5
      <4>2. Return(c, TRUE)
        BY <3>1, <4>1, Zenon
      <4> QED
        BY <3>4, <3>5, <4>2, Zenon
    <3>6. CASE t \notin PrivateTransitions
      <4>1. (t \in PrivateTransitions) = FALSE
        BY <3>6
      <4>2. Return(c, FALSE)
        BY <3>1, <4>1, Zenon
      <4> QED
        BY <3>4, <3>6, <4>2, Zenon
    <3> QED
      BY <3>5, <3>6
  <2>2. CASE FinishUnpublished(c)
    <3>1. pc[c] = "finish" /\ Return(c, FALSE)
      BY <2>2 DEF FinishUnpublished
    <3>2. meddled \/ \A d \in Callers \ {c} : ~InTransition(d)
      BY <3>1 DEF Inv, OneTransition, InTransition
    <3> QED
      BY <3>1, <3>2
  <2> QED
    BY <2>1, <2>2
<1>4. /\ Frame(c) /\ pc'[c] = "idle" /\ LocalsOK' /\ ~InTransition(c)'
      /\ \A d \in Callers \ {c} : InTransition(d)' <=> InTransition(d)
      /\ meddled' => meddled \/ private
      /\ (~meddled' /\ (meddled \/ private)) => \A d \in Callers : ~InTransition(d)'
  BY <1>3, Returns
<1>5. PrivatesOK'
  BY <1>1, <1>3, <1>4 DEF Inv, PrivatesOK, Frame
<1>6. meddled' \/ \A d \in Callers : ~InTransition(d)'
  BY <1>3, <1>4
<1> QED
  BY <1>2, <1>4, <1>5, <1>6 DEF Inv, OneTransition, RestsInPrimary, StarterOK, CallbackSeesOrigin,
     EntitiesOK, EntitiesFollow

LEMMA CallbackStep ==
    ASSUME Inv, NEW c \in Callers, TypeOK', NEW code \in Codes, ExecuteCallback(c, code)
    PROVE  Inv'
<1>1. /\ pc[c] = "callback" /\ pc'[c] = "finish" /\ next'[c] = code
      /\ UNCHANGED <<state, failed, stage, id, initial, cbid, privates, meddled>>
      /\ ret'[c] = IF stage[c] = 1 THEN code ELSE ret[c]
  BY DEF Inv, TypeOK, ExecuteCallback, Goto, machineVars
<1>2. Frame(c)
  BY DEF Inv, TypeOK, ExecuteCallback, Goto, Frame
<1>3. InTransition(c) /\ InTransition(c)' /\ stage[c] \in {1, 2}
  BY <1>1 DEF Inv, TypeOK, InTransition
<1>4. \A d \in Callers : InTransition(d)' <=> InTransition(d)
  BY <1>2, <1>3, FrameTransitions
<1>5. LocalsOK' /\ PrivatesOK'
  BY <1>1, <1>2, <1>3 DEF Inv, LocalsOK, PrivatesOK, Frame
<1>6. OneTransition' /\ RestsInPrimary' /\ StarterOK'
  BY <1>1, <1>2, <1>4 DEF Inv, OneTransition, RestsInPrimary, StarterOK
<1>7. CallbackSeesOrigin'
  BY <1>1, <1>4 DEF Inv, CallbackSeesOrigin
<1>8. EntitiesFollow' /\ EntitiesOK'
  <2> SUFFICES ASSUME failed = 0, privates = 0, ~flawed'
               PROVE  EntitiesFollow' /\ EntitiesOK'
    BY <1>1 DEF EntitiesFollow, EntitiesOK
  <2>0. /\ ~meddled /\ state \notin Primary
        /\ \A d \in Callers \ {c} : ~InTransition(d)'
    BY <1>3, <1>4, StateKinds DEF Inv, PrivatesOK, OneTransition
  <2>1. ~flawed /\ code = "SUCCESS"
    BY Zenon DEF ExecuteCallback
  <2>2. stage[c] = 1 /\ (activated <=> initial[c] = "active")
    BY <1>1, <1>3, <2>1 DEF Inv, EntitiesOK
  <2>3. <<initial[c], id[c][2], cbid[c]>> \in PublicTransitions
    BY <1>3, <2>0, <2>2 DEF Inv, CallbackSeesOrigin
  <2>4. cbid[c] # "shuttingdown" => (activated' <=> SuccessGoal[cbid[c]] = "active")
    <3>1. CASE cbid[c] = "activating"
      BY <2>1, <2>2, <3>1 DEF ExecuteCallback, SuccessGoal
    <3>2. CASE cbid[c] = "deactivating"
      BY <2>1, <2>2, <3>2 DEF ExecuteCallback, SuccessGoal
    <3>3. CASE cbid[c] \notin {"activating", "deactivating"}
      <4>1. \/ cbid[c] = "shuttingdown"
            \/ cbid[c] \in {"configuring", "cleaningup"} /\ initial[c] # "active"
        BY <2>3, <3>3 DEF PublicTransitions
      <4>2. activated' = activated
        BY <3>3, Zenon DEF ExecuteCallback
      <4> QED
        BY <2>1, <2>2, <4>1, <4>2 DEF SuccessGoal
    <3> QED
      BY <3>1, <3>2, <3>3
  <2> QED
    BY <1>1, <2>0, <2>1, <2>2, <2>4 DEF EntitiesFollow, EntitiesOK
<1> QED
  BY <1>5, <1>6, <1>7, <1>8 DEF Inv

\* Finishing is refused in a primary state only, where without meddling nobody
\* finishes.
LEMMA FinishRefusedStep ==
    ASSUME Inv, NEW c \in Callers, TypeOK', FinishRefused(c)
    PROVE  Inv'
<1>1. /\ pc[c] = "finish" /\ Return(c, FALSE)
      /\ UNCHANGED <<state, activated, failed, flawed, privates>>
      /\ ~\E t \in PrivateTransitions : t[1] = state /\ t[2] = next[c]
  BY DEF FinishRefused, machineVars
<1>2. next[c] \in Codes /\ InTransition(c)
  BY <1>1 DEF Inv, LocalsOK, InTransition
<1>3. state \in Primary /\ state \notin Intermediate
  BY <1>1, <1>2, CodeFacts, StateKinds DEF Inv, TypeOK, States
<1>4. meddled
  BY <1>2, <1>3 DEF Inv, OneTransition
<1>5. /\ Frame(c) /\ pc'[c] = "idle" /\ LocalsOK'
      /\ (~meddled' /\ meddled) => \A d \in Callers : ~InTransition(d)'
  BY <1>1, Returns
<1>6. privates' # 0 /\ PrivatesOK'
  BY <1>1, <1>4 DEF Inv, PrivatesOK
<1> QED
  BY <1>1, <1>3, <1>4, <1>5, <1>6 DEF Inv, OneTransition, RestsInPrimary, StarterOK,
     CallbackSeesOrigin, EntitiesOK, EntitiesFollow

LEMMA FinishStep ==
    ASSUME Inv, NEW c \in Callers, TypeOK', Finish(c)
    PROVE  Inv'
<1>1. PICK t \in PrivateTransitions :
        /\ t[1] = state /\ t[2] = next[c]
        /\ state' = t[3]
        /\ \/ /\ stage[c] = 1 /\ ret[c] = "ERROR"
              /\ cbid' = [cbid EXCEPT ![c] = t[3]]
              /\ stage' = [stage EXCEPT ![c] = 2]
              /\ next' = [next EXCEPT ![c] = None]
              /\ Goto(c, "callback")
              /\ UNCHANGED <<id, initial, ret, meddled>>
           \/ (stage[c] = 2 \/ ret[c] # "ERROR") /\ Return(c, FALSE)
  BY Zenon DEF Finish
<1>2. pc[c] = "finish" /\ UNCHANGED <<failed, activated, flawed, privates>>
  BY DEF Finish
<1>3. /\ InTransition(c) /\ stage[c] \in {1, 2} /\ state \in Intermediate
      /\ stage[c] = 1 => next[c] = ret[c]
      /\ stage[c] = 2 => ret[c] = "ERROR"
  BY <1>1, <1>2, PrivateFacts DEF Inv, TypeOK, LocalsOK, InTransition
<1>4. IF next[c] = "ERROR" /\ state # "errorprocessing"
      THEN state' = "errorprocessing" ELSE state' \in Primary
  BY <1>1, PrivateFacts
<1>5. ASSUME ~meddled
      PROVE  /\ state = cbid[c] /\ \A d \in Callers \ {c} : ~InTransition(d)
             /\ stage[c] = 2 => state = "errorprocessing"
             /\ stage[c] = 1 => state # "errorprocessing"
  <2>1. state = cbid[c] /\ \A d \in Callers \ {c} : ~InTransition(d)
    BY <1>3, <1>5 DEF Inv, OneTransition
  <2>2. stage[c] = 1 => <<initial[c], id[c][2], cbid[c]>> \in PublicTransitions
    BY <1>3, <1>5 DEF Inv, CallbackSeesOrigin
  <2>3. stage[c] = 1 => cbid[c] # "errorprocessing"
    BY <2>2, PublicFacts
  <2> QED
    BY <1>5, <2>1, <2>3 DEF Inv, LocalsOK
<1>6. ASSUME failed = 0, state' \in Intermediate, stage[c] = 2
      PROVE  \E d \in Callers \ {c} : InTransition(d)
  BY <1>4, <1>6, <1>3, StateKinds DEF Inv, StarterOK
<1>7. CASE stage[c] = 1 /\ ret[c] = "ERROR"
  <2>1. /\ pc'[c] = "callback" /\ stage'[c] = 2 /\ cbid'[c] = state'
        /\ UNCHANGED <<id, initial, ret, meddled>>
    BY <1>1, <1>7 DEF Inv, TypeOK, Goto
  <2>2. Frame(c)
    BY <1>1, <1>7 DEF Inv, TypeOK, Goto, Frame
  <2>3. InTransition(c)' /\ \A d \in Callers \ {c} : InTransition(d)' <=> InTransition(d)
    BY <2>1, <2>2, FrameTransitions DEF InTransition
  <2>4. ~meddled => state' = "errorprocessing"
    BY <1>3, <1>4, <1>5, <1>7
  <2>5. LocalsOK' /\ PrivatesOK'
    BY <1>2, <1>7, <2>1, <2>2, <2>4 DEF Inv, LocalsOK, PrivatesOK, Frame
  <2>6. RestsInPrimary' /\ StarterOK'
    BY <1>4, <2>3, StateKinds DEF RestsInPrimary, StarterOK
  <2>7. OneTransition' /\ CallbackSeesOrigin'
    BY <1>3, <1>5, <2>1, <2>3, <2>4, StateKinds DEF Inv, OneTransition, CallbackSeesOrigin
  <2>8. ~(failed = 0 /\ privates = 0 /\ ~flawed)
    BY <1>2, <1>3, <1>7 DEF Inv, EntitiesOK
  <2> QED
    BY <1>2, <2>5, <2>6, <2>7, <2>8 DEF Inv, EntitiesOK, EntitiesFollow
<1>8. CASE (stage[c] = 2 \/ ret[c] # "ERROR") /\ Return(c, FALSE)
  <2>1. /\ Frame(c) /\ pc'[c] = "idle" /\ LocalsOK' /\ ~InTransition(c)'
        /\ \A d \in Callers \ {c} : InTransition(d)' <=> InTransition(d)
        /\ meddled' => meddled
        /\ (~meddled' /\ meddled) => \A d \in Callers : ~InTransition(d)'
    BY <1>8, Returns
  <2>2. PrivatesOK'
    BY <1>2, <2>1 DEF Inv, PrivatesOK, Frame
  <2>3. stage[c] = 1 => state' \in Primary
    BY <1>3, <1>4, <1>8
  <2>4. RestsInPrimary' /\ StarterOK'
    <3>1. state' \in Primary \/ state' = "errorprocessing"
      BY <1>4
    <3>2. StarterOK'
      BY <3>1, StateKinds DEF StarterOK
    <3>3. (failed = 0 /\ state' \notin Primary) => \E d \in Callers : InTransition(d)'
      BY <1>3, <1>6, <2>1, <2>3, <3>1, StateKinds
    <3> QED
      BY <1>2, <3>2, <3>3 DEF RestsInPrimary
  <2>5. OneTransition' /\ CallbackSeesOrigin'
    BY <1>5, <2>1 DEF OneTransition, CallbackSeesOrigin
  <2>6. EntitiesOK' /\ EntitiesFollow'
    <3> SUFFICES ASSUME failed = 0, privates = 0, ~flawed
                 PROVE  EntitiesOK' /\ EntitiesFollow'
      BY <1>2 DEF EntitiesOK, EntitiesFollow
    <3>0. ~meddled
      BY DEF Inv, PrivatesOK
    <3>1. /\ stage[c] = 1 /\ next[c] = "SUCCESS"
          /\ cbid[c] # "shuttingdown" => (activated <=> SuccessGoal[cbid[c]] = "active")
      BY <1>2, <1>3 DEF Inv, EntitiesOK
    <3>2. state = cbid[c] /\ state' = SuccessGoal[state]
      BY <1>1, <1>5, <3>0, <3>1, PrivateFacts
    <3>3. state = "shuttingdown" => state' = "finalized"
      BY <3>2 DEF SuccessGoal
    <3>4. \A d \in Callers : ~InTransition(d)'
      BY <1>5, <2>1, <3>0
    <3> QED
      BY <1>2, <3>1, <3>2, <3>3, <3>4 DEF EntitiesOK, EntitiesFollow
  <2> QED
    BY <2>1, <2>2, <2>4, <2>5, <2>6 DEF Inv
<1> QED
  BY <1>1, <1>7, <1>8

LEMMA InvStep == Inv /\ [Next]_vars => Inv'
<1> SUFFICES ASSUME Inv, [Next]_vars PROVE Inv'
  OBVIOUS
<1>1. CASE Next
  <2>1. TypeOK'
    BY <1>1, TypeStep DEF Inv
  <2> QED
    BY <1>1, <2>1, RequestStep, StartStep, RefusedStep, UnpublishedStep, CallbackStep, FinishStep,
       FinishRefusedStep DEF Next, Step
<1>2. CASE UNCHANGED vars
  BY <1>2 DEF vars, Inv, TypeOK, LocalsOK, PrivatesOK, OneTransition, RestsInPrimary, StarterOK,
     CallbackSeesOrigin, EntitiesOK, EntitiesFollow, InTransition
<1> QED
  BY <1>1, <1>2

LEMMA InvHolds == Spec => []Inv
BY InitInv, InvStep, PTL DEF Spec

(***************************************************************************)
(* Theorems                                                                *)
(***************************************************************************)
\* Whatever the number of threads that call trigger_transition() while the
\* service changes the state, the machine and the locals of change_state()
\* keep their types.
THEOREM TypeCorrect == Spec => []TypeOK
<1>1. Inv => TypeOK
  BY DEF Inv
<1> QED
  BY <1>1, InvHolds, PTL

\* One transition runs at a time, though change_state() holds no mutex while a
\* callback runs, as long as no request takes a private transition: a public
\* one is found from primary states only, and the machine is in an
\* intermediate one until its caller has finished.
THEOREM TransitionsExclude == Spec => []OneTransition
<1>1. Inv => OneTransition
  BY DEF Inv
<1> QED
  BY <1>1, InvHolds, PTL

\* Without a failed notification the machine is never left in an intermediate
\* state by everybody: an error leads to error processing and that to a
\* primary state, whatever the callbacks return and whichever transitions,
\* private ones too, are requested meanwhile.
THEOREM MachineRests == Spec => []RestsInPrimary
<1>1. Inv => RestsInPrimary
  BY DEF Inv
<1> QED
  BY <1>1, InvHolds, PTL

\* Callbacks, the error callback too, are given the state in which their
\* transition began, and run in the state it leads to, as long as no request
\* takes a private transition.
THEOREM OriginIsPassed == Spec => []CallbackSeesOrigin
<1>1. Inv => CallbackSeesOrigin
  BY DEF Inv
<1> QED
  BY <1>1, InvHolds, PTL

\* As long as callbacks succeed, notifications are published and no private
\* transition is requested, the managed entities are enabled exactly in the
\* active state.
THEOREM EntitiesAgree == Spec => []EntitiesFollow
<1>1. Inv => EntitiesFollow
  BY DEF Inv
<1> QED
  BY <1>1, InvHolds, PTL
=============================================================================
