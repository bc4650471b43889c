--------------------------- MODULE ExecutorProofs ---------------------------
(***************************************************************************)
(* For every set of threads, users, nodes, groups and entities: the safety *)
(* properties of Executor.                                                 *)
(***************************************************************************)
EXTENDS Executor, FiniteSetTheorems, TLAPS

(***************************************************************************)
(* What a selection is                                                     *)
(***************************************************************************)
\* get_next_ready_executable() picks an entity of the result whose group can
\* be taken from, and what it leaves does not hold that entity.
LEMMA SelectionFacts ==
    ASSUME result \subseteq Entities, NEW s \in Selections
    PROVE  /\ s.e \in result /\ s.e \in Entities
           /\ free[GroupOf[s.e]]
           /\ s.left \subseteq result /\ s.e \notin s.left
           /\ s.e \in Waitables => data[s.e] > 0
<1> DEFINE live == TakeableTimers \ canceled
           Facts(e, left) == /\ e \in result /\ e \in Entities /\ free[GroupOf[e]]
                             /\ left \subseteq result /\ e \notin left
                             /\ e \in Waitables => data[e] > 0
<1>1. CASE live # {}
  <2>1. PICK e \in live, passed \in SUBSET (TakeableTimers \cap canceled) :
            s = [e |-> e, left |-> result \ ({e} \cup passed)]
    BY <1>1 DEF Selections
  <2>2. Facts(e, result \ ({e} \cup passed))
    BY ExecutorAssumption DEF TakeableTimers, CanBeTakenFrom
  <2> QED
    BY <2>1, <2>2
<1>2. CASE live = {} /\ ReadyTakeables # {}
  <2>1. PICK e \in ReadyTakeables,
             passed \in SUBSET ((result \cap Takeables) \ ReadyTakeables) :
            s = [e |-> e, left |-> (BusyTimers \cup (result \ Timers)) \ ({e} \cup passed)]
    BY <1>2 DEF Selections
  <2>2. Facts(e, (BusyTimers \cup (result \ Timers)) \ ({e} \cup passed))
    BY DEF ReadyTakeables, BusyTimers, Takeables, CanBeTakenFrom
  <2> QED
    BY <2>1, <2>2
<1>3. CASE live = {} /\ ReadyTakeables = {}
  <2>1. PICK e \in ReadyWaitables,
             passed \in SUBSET ((result \cap Waitables) \ ReadyWaitables) :
            s = [e |-> e, left |-> (BusyTimers \cup (result \cap Waitables)) \ ({e} \cup passed)]
    BY <1>3 DEF Selections
  <2>2. Facts(e, (BusyTimers \cup (result \cap Waitables)) \ ({e} \cup passed))
    BY DEF ReadyWaitables, BusyTimers, CanBeTakenFrom
  <2> QED
    BY <2>1, <2>2
<1> QED
  BY <1>1, <1>2, <1>3

(***************************************************************************)
(* Types                                                                   *)
(***************************************************************************)
\* The part of the type invariant the other arguments need, with the counters
\* that bound the model.
Types ==
    /\ mode \in AllModes \cup {None}
    /\ nodes \subseteq Nodes /\ adding \subseteq Nodes /\ removing \subseteq Nodes
    /\ associated \subseteq Nodes
    /\ created \subseteq Entities /\ collection \subseteq Entities
    /\ result \subseteq collection
    /\ gcs \subseteq GuardConditions /\ trig \subseteq GuardConditions
    /\ free \in [Groups -> BOOLEAN]
    /\ data \in [Entities -> Nat] /\ ran \in [Entities -> Nat]
    /\ arrived \in [Entities -> 0..MaxData]
    /\ canceled \subseteq Timers
    /\ mutex \in Threads \cup {None}
    /\ pc \in [Threads -> {"idle", "check", "next", "collect", "wait", "retry",
                           "exec", "callback", "signal", "joined"}]
    /\ item \in [Threads -> Entities \cup {None}]
    /\ upc \in [Users -> {"idle", "insert", "unlink", "store", "test", "recollect", "trigger"}]
    /\ uarg \in [Users -> GuardConditions \cup {None}]
    /\ \A u \in Users : upc[u] # "idle" => uarg[u] \in GuardConditions
    /\ \A u \in Users : upc[u] \in {"insert", "unlink"} => uarg[u] \in Nodes
    /\ spins \in Nat

Locked == {"next", "collect", "wait", "retry"}

Working == {"exec", "callback", "signal"}

\* wait_mutex_ is held by the thread that is between the head of its loop and
\* the callback, in a multi-threaded spin; in the other ones only the calling
\* thread runs.  A thread has an executable from selecting it to dropping it.
ControlOK ==
    /\ \A t \in Threads : mutex = t <=> (mode = "multi" /\ pc[t] \in Locked)
    /\ mode # "multi" => \A t \in Threads \ {Main} : pc[t] = "idle"
    /\ mode = None => pc[Main] = "idle"
    /\ \A t \in Threads : item[t] # None <=> pc[t] \in Working

\* What user threads and the outside world leave alone.
LEMMA OutsideSteps ==
    ASSUME \/ \E u \in Users : UserContinues(u) \/ UserCalls(u)
           \/ \E e \in Entities : Arrive(e)
           \/ UNCHANGED vars
    PROVE  UNCHANGED <<threadVars, free, ran, spins>>
<1>1. CASE \E u \in Users : UserContinues(u)
  BY <1>1 DEF UserContinues, InsertNode, UnlinkNode, StoreRebuild, TestSpinning, Recollect, Trigger,
     entityVars, boundVars
<1>2. CASE \E u \in Users, n \in Nodes : AddNode(u, n) \/ RemoveNode(u, n)
  BY <1>2 DEF AddNode, RemoveNode, entityVars
<1>3. CASE \E u \in Users : Cancel(u) \/ Shutdown(u)
  BY <1>3 DEF Cancel, Shutdown, entityVars
<1>4. CASE \E u \in Users, e \in Entities : CreateEntity(u, e) \/ CancelTimer(u, e)
  BY <1>4 DEF CreateEntity, CancelTimer, entityVars
<1>5. CASE \E e \in Entities : Arrive(e)
  BY <1>5 DEF Arrive
<1>6. CASE UNCHANGED vars
  BY <1>6 DEF vars, threadVars
<1> QED
  BY <1>1, <1>2, <1>3, <1>4, <1>5, <1>6 DEF UserCalls

LEMMA InitTypes == Init => Types /\ ControlOK
BY ExecutorAssumption
   DEF Init, Types, ControlOK, AllModes, GuardConditions, Locked, Working

\* The effect of a selection.
LEMMA SelectTypes ==
    ASSUME Types, NEW t \in Threads, NEW s \in Selections, Select(t, s)
    PROVE  /\ result' \subseteq collection
           /\ item' \in [Threads -> Entities \cup {None}] /\ item'[t] \in Entities
           /\ free' \in [Groups -> BOOLEAN]
           /\ data' \in [Entities -> Nat]
<1>1. s.e \in Entities /\ s.left \subseteq result
  BY SelectionFacts DEF Types
<1>2. GroupOf[s.e] \in Groups
  BY <1>1, ExecutorAssumption
<1>3. free' \in [Groups -> BOOLEAN]
  BY <1>2 DEF Types, Select, Reserve
<1>4. data' \in [Entities -> Nat]
  BY <1>1 DEF Types, Select, TakeUnderLock
<1> QED
  BY <1>1, <1>3, <1>4 DEF Types, Select

LEMMA CollectTypes ==
    ASSUME Types, CollectEntities, created' = created
    PROVE  /\ nodes' \subseteq Nodes /\ adding' \subseteq Nodes /\ removing' \subseteq Nodes
           /\ associated' \subseteq Nodes
           /\ collection' \subseteq Entities /\ result' \subseteq collection'
           /\ gcs' \subseteq GuardConditions
BY DEF Types, CollectEntities, ProcessQueues, BuildEntitiesCollection, GuardConditions

LEMMA TypesSpin ==
    ASSUME Types, NEW m \in Modes, Spin(m)
    PROVE  Types'
BY ExecutorAssumption
   DEF Types, Spin, collectorVars, waitVars, entityVars, userVars, GuardConditions

LEMMA TypesThread ==
    ASSUME Types, NEW t \in Threads, ThreadStep(t)
    PROVE  Types'
<1>1. CASE EnterLoop(t)
  BY <1>1 DEF Types, EnterLoop, Goto, collectorVars, waitVars, entityVars, userVars, boundVars,
     GuardConditions
<1>2. CASE LeaveLoop(t)
  BY <1>2 DEF Types, LeaveLoop, Goto, collectorVars, waitVars, entityVars, userVars, boundVars,
     GuardConditions
<1>3. CASE GetNextReady(t)
  <2>1. CASE \E s \in Selections :
                 Select(t, s) /\ mutex' = None /\ Goto(t, "exec")
    BY <1>3, <2>1, SelectTypes
       DEF Types, GetNextReady, Goto, collectorVars, waitVars, userVars, boundVars, GuardConditions
  <2>2. CASE Selections = {} /\ UNCHANGED <<free, item, data, mutex>>
    BY <1>3, <2>2
       DEF Types, GetNextReady, Goto, BusyTimers, collectorVars, waitVars, userVars, boundVars,
           GuardConditions
  <2> QED
    BY <1>3, <2>1, <2>2 DEF GetNextReady
<1>4. CASE CollectIfNeeded(t)
  <2>1. UNCHANGED <<mode, created, trig, free, data, ran, canceled, arrived, mutex, item, upc, uarg, spins>>
    BY <1>4 DEF CollectIfNeeded, entityVars, userVars, boundVars
  <2>2. pc' = [pc EXCEPT ![t] = "wait"]
    BY <1>4 DEF CollectIfNeeded, Goto
  <2>3. CASE rebuild \/ collection = {}
    BY <1>4, <2>1, <2>2, <2>3, CollectTypes DEF Types, CollectIfNeeded, GuardConditions
  <2>4. CASE ~(rebuild \/ collection = {})
    BY <1>4, <2>1, <2>2, <2>4 DEF Types, CollectIfNeeded, collectorVars, waitVars, GuardConditions
  <2> QED
    BY <2>3, <2>4
<1>5. CASE Wait(t)
  BY <1>5 DEF Types, Wait, ReadyNow, Goto, collectorVars, waitVars, entityVars, userVars,
     boundVars, GuardConditions
<1>6. CASE GetNextReadyAgain(t)
  <2>1. CASE \E s \in Selections : Select(t, s) /\ Goto(t, "exec")
    BY <1>6, <2>1, SelectTypes
       DEF Types, GetNextReadyAgain, Goto, collectorVars, waitVars, userVars, boundVars,
           GuardConditions
  <2>2. CASE /\ UNCHANGED <<item, free, data>> /\ result' \in {result, BusyTimers}
             /\ Goto(t, IF mode = "once" THEN "joined" ELSE "check")
    BY <1>6, <2>2
       DEF Types, GetNextReadyAgain, Goto, BusyTimers, collectorVars, waitVars, userVars, boundVars,
           GuardConditions
  <2> QED
    BY <1>6, <2>1, <2>2 DEF GetNextReadyAgain
<1>7. CASE Execute(t)
  <2>1. data' \in [Entities -> Nat]
    BY <1>7 DEF Types, Execute, Takeables
  <2>2. ran' \in [Entities -> Nat]
    <3>1. ran' = ran \/ ran' = [ran EXCEPT ![item[t]] = @ + 1]
      BY <1>7 DEF Execute
    <3> QED
      BY <3>1 DEF Types
  <2> QED
    BY <1>7, <2>1, <2>2 DEF Types, Execute, Goto, collectorVars, waitVars, userVars, boundVars,
       GuardConditions
<1>8. CASE ResetGroup(t)
  <2>1. free' \in [Groups -> BOOLEAN]
    BY <1>8 DEF Types, ResetGroup
  <2> QED
    BY <1>8, <2>1 DEF Types, ResetGroup, Goto, collectorVars, waitVars, entityVars, userVars,
       boundVars, GuardConditions
<1>9. CASE Signal(t)
  <2>1. free' \in [Groups -> BOOLEAN]
    BY <1>9 DEF Types, Signal
  <2> QED
    BY <1>9, <2>1 DEF Types, Signal, Goto, collectorVars, waitVars, entityVars, userVars, boundVars,
       GuardConditions
<1> QED
  BY <1>1, <1>2, <1>3, <1>4, <1>5, <1>6, <1>7, <1>8, <1>9 DEF ThreadStep

LEMMA TypesOutside ==
    ASSUME Types,
           \/ \E u \in Users : UserContinues(u) \/ UserCalls(u)
           \/ \E e \in Entities : Arrive(e)
           \/ UNCHANGED vars
    PROVE  Types'
<1>0. UNCHANGED <<mode, mutex, pc, item, free, ran, spins>>
  BY OutsideSteps DEF threadVars
<1>1. ASSUME NEW u \in Users, UserContinues(u)
      PROVE  Types'
  <2>1. CASE StoreRebuild(u)
    BY <1>0, <2>1 DEF Types, StoreRebuild, collectorVars, waitVars, entityVars, boundVars,
       GuardConditions
  <2>2. CASE TestSpinning(u)
    BY <1>0, <2>2 DEF Types, TestSpinning, collectorVars, waitVars, entityVars, boundVars,
       GuardConditions
  <2>3. CASE Recollect(u)
    BY <1>0, <2>3, CollectTypes DEF Types, Recollect, entityVars, boundVars, GuardConditions
  <2>4. CASE Trigger(u)
    BY <1>0, <2>4 DEF Types, Trigger, Continue, collectorVars, waitVars, entityVars, boundVars,
       GuardConditions
  <2>5. CASE InsertNode(u)
    BY <1>0, <2>5 DEF Types, InsertNode, Continue, waitVars, entityVars, boundVars, GuardConditions
  <2>6. CASE UnlinkNode(u)
    BY <1>0, <2>6 DEF Types, UnlinkNode, Continue, waitVars, entityVars, boundVars, GuardConditions
  <2> QED
    BY <1>1, <2>1, <2>2, <2>3, <2>4, <2>5, <2>6 DEF UserContinues
<1>2. ASSUME NEW u \in Users, NEW n \in Nodes, AddNode(u, n)
      PROVE  Types'
  BY <1>0, <1>2 DEF Types, AddNode, Begin, Continue, waitVars, entityVars, GuardConditions
<1>3. ASSUME NEW u \in Users, NEW n \in Nodes, RemoveNode(u, n)
      PROVE  Types'
  BY <1>0, <1>3 DEF Types, RemoveNode, Begin, Continue, waitVars, entityVars, GuardConditions
<1>4. ASSUME NEW u \in Users, Cancel(u) \/ Shutdown(u)
      PROVE  Types'
  BY <1>0, <1>4, ZenonT(40) DEF Types, Cancel, Shutdown, Begin, Continue, collectorVars, waitVars,
     entityVars, GuardConditions
<1>5. ASSUME NEW u \in Users, NEW e \in Entities, CreateEntity(u, e)
      PROVE  Types'
  <2>1. EntityNode(e) \in Nodes
    BY ExecutorAssumption DEF EntityNode
  <2> QED
    BY <1>0, <1>5, <2>1 DEF Types, CreateEntity, Begin, Continue, collectorVars, waitVars,
       entityVars, GuardConditions
<1>6. ASSUME NEW u \in Users, NEW e \in Entities, CancelTimer(u, e)
      PROVE  Types'
  BY <1>0, <1>6 DEF Types, CancelTimer, collectorVars, waitVars, userVars, GuardConditions
<1>7. ASSUME NEW e \in Entities, Arrive(e)
      PROVE  Types'
  <2>1. arrived' \in [Entities -> 0..MaxData]
    BY <1>7, ExecutorAssumption DEF Types, Arrive
  <2> QED
    BY <1>0, <1>7, <2>1 DEF Types, Arrive, collectorVars, waitVars, userVars, GuardConditions
<1>8. CASE UNCHANGED vars
  BY <1>0, <1>8 DEF Types, vars, GuardConditions
<1> QED
  BY <1>1, <1>2, <1>3, <1>4, <1>5, <1>6, <1>7, <1>8 DEF UserCalls

LEMMA TypesReturn ==
    ASSUME Types, SpinReturns
    PROVE  Types'
BY DEF Types, SpinReturns, collectorVars, waitVars, entityVars, userVars, boundVars, GuardConditions

LEMMA TypesStep == Types /\ [Next]_vars => Types'
BY TypesSpin, TypesReturn, TypesThread, TypesOutside DEF Next

(***************************************************************************)
(* Control: one thread at a time selects and waits                         *)
(***************************************************************************)
LEMMA ControlThread ==
    ASSUME Types, ControlOK, NEW t \in Threads, ThreadStep(t)
    PROVE  ControlOK'
<1> USE ExecutorAssumption
<1>a. mode' = mode
  BY DEF ThreadStep, EnterLoop, LeaveLoop, GetNextReady, CollectIfNeeded, Wait,
         GetNextReadyAgain, Execute, ResetGroup, Signal
<1>1. CASE EnterLoop(t)
  BY <1>a, <1>1 DEF Types, ControlOK, EnterLoop, Goto, Locked, Working
<1>2. CASE LeaveLoop(t)
  BY <1>a, <1>2 DEF Types, ControlOK, LeaveLoop, Goto, Locked, Working
<1>3. CASE GetNextReady(t)
  <2>1. CASE \E s \in Selections :
                 Select(t, s) /\ mutex' = None /\ Goto(t, "exec")
    <3>1. PICK s \in Selections : Select(t, s) /\ mutex' = None /\ Goto(t, "exec")
      BY <2>1
    <3>2. item' = [item EXCEPT ![t] = s.e] /\ s.e \in Entities
      BY <3>1, SelectionFacts DEF Select, Types
    <3> QED
      BY <1>a, <1>3, <3>1, <3>2 DEF Types, ControlOK, GetNextReady, Goto, Locked, Working
  <2>2. CASE UNCHANGED <<item, mutex>> /\ Goto(t, IF mode = "some" \/ (mode = "all" /\ waited) THEN "joined" ELSE "collect")
    BY <1>a, <1>3, <2>2 DEF Types, ControlOK, GetNextReady, Goto, Locked, Working
  <2> QED
    BY <1>3, <2>1, <2>2 DEF GetNextReady
<1>4. CASE CollectIfNeeded(t)
  BY <1>a, <1>4 DEF Types, ControlOK, CollectIfNeeded, Goto, Locked, Working
<1>5. CASE Wait(t)
  BY <1>a, <1>5 DEF Types, ControlOK, Wait, Goto, Locked, Working
<1>6. CASE GetNextReadyAgain(t)
  <2>1. CASE \E s \in Selections : Select(t, s) /\ Goto(t, "exec")
    <3>1. PICK s \in Selections : Select(t, s) /\ Goto(t, "exec")
      BY <2>1
    <3>2. item' = [item EXCEPT ![t] = s.e] /\ s.e \in Entities
      BY <3>1, SelectionFacts DEF Select, Types
    <3> QED
      BY <1>a, <1>6, <3>1, <3>2 DEF Types, ControlOK, GetNextReadyAgain, Goto, Locked, Working
  <2>2. CASE item' = item /\ Goto(t, IF mode = "once" THEN "joined" ELSE "check")
    BY <1>a, <1>6, <2>2 DEF Types, ControlOK, GetNextReadyAgain, Goto, Locked, Working
  <2> QED
    BY <1>6, <2>1, <2>2 DEF GetNextReadyAgain
<1>7. CASE Execute(t)
  BY <1>a, <1>7 DEF Types, ControlOK, Execute, Goto, Locked, Working
<1>8. CASE ResetGroup(t)
  BY <1>a, <1>8 DEF Types, ControlOK, ResetGroup, Goto, Locked, Working
<1>9. CASE Signal(t)
  BY <1>a, <1>9 DEF Types, ControlOK, Signal, Goto, Locked, Working
<1> QED
  BY <1>1, <1>2, <1>3, <1>4, <1>5, <1>6, <1>7, <1>8, <1>9 DEF ThreadStep

LEMMA ControlStep == Types /\ ControlOK /\ [Next]_vars => ControlOK'
<1> SUFFICES ASSUME Types, ControlOK, [Next]_vars PROVE ControlOK'
  OBVIOUS
<1>1. ASSUME NEW m \in Modes, Spin(m) PROVE ControlOK'
  <2>1. \A t \in Threads : pc[t] = "idle" /\ item[t] = None /\ mutex # t
    BY <1>1, ExecutorAssumption DEF ControlOK, Spin, Locked, Working, AllModes
  <2>2. mode' = m /\ item' = item /\ mutex' = mutex /\ m # None
    BY <1>1, ExecutorAssumption DEF Spin
  <2>3. \A t \in Threads : /\ pc'[t] \notin Working
                           /\ m = "multi" => pc'[t] = "check"
                           /\ m # "multi" /\ t # Main => pc'[t] = "idle"
    BY <1>1 DEF Spin, Working
  <2> QED
    BY <2>1, <2>2, <2>3, ExecutorAssumption DEF ControlOK, Locked
<1>2. CASE SpinReturns
  BY <1>2, ExecutorAssumption DEF Types, ControlOK, SpinReturns, Locked, Working
<1>3. CASE UNCHANGED <<mode, mutex, pc, item>>
  BY <1>3 DEF ControlOK
<1> QED
  BY <1>1, <1>2, <1>3, ControlThread, OutsideSteps DEF Next, threadVars

(***************************************************************************)
(* Reservations                                                            *)
(***************************************************************************)
Holds(t) == pc[t] \in {"exec", "callback"}

\* A mutually exclusive group is reserved while a thread works on it, by that
\* thread alone; a reentrant one is never reserved.
ReservedOK ==
    /\ \A t \in Threads :
           Holds(t) /\ GroupOf[item[t]] \in Exclusive => ~free[GroupOf[item[t]]]
    /\ \A t, o \in Threads :
           Holds(t) /\ Holds(o) /\ GroupOf[item[t]] = GroupOf[item[o]]
              /\ GroupOf[item[t]] \in Exclusive => t = o
    /\ \A g \in Groups \ Exclusive : free[g]

\* The steps of a thread, by what they do to its executable and the groups.
SelectStep(t) ==
    \E s \in Selections : /\ pc[t] \in {"next", "retry"}
                          /\ Select(t, s) /\ pc' = [pc EXCEPT ![t] = "exec"]

PlainStep(t) ==
    /\ pc[t] \notin Working
    /\ \E p : pc' = [pc EXCEPT ![t] = p] /\ p \notin Working
    /\ UNCHANGED <<item, free, ran, data>>

LEMMA ThreadKinds ==
    ASSUME Types, NEW t \in Threads, ThreadStep(t)
    PROVE  /\ SelectStep(t) \/ PlainStep(t) \/ Execute(t) \/ ResetGroup(t) \/ Signal(t)
           /\ UNCHANGED <<mode, spinning, created, canceled, arrived, spins, upc, uarg>>
<1>0. UNCHANGED <<mode, spinning, created, canceled, arrived, spins, upc, uarg>>
  BY DEF ThreadStep, EnterLoop, LeaveLoop, GetNextReady, CollectIfNeeded, Wait,
         GetNextReadyAgain, Execute, ResetGroup, Signal, entityVars, userVars, boundVars
<1>1. EnterLoop(t) \/ LeaveLoop(t) \/ CollectIfNeeded(t) => PlainStep(t)
  BY DEF EnterLoop, LeaveLoop, CollectIfNeeded, PlainStep, Goto, Working, entityVars
<1>2. Wait(t) => PlainStep(t)
  BY ZenonT(40) DEF Wait, PlainStep, Goto, Working, entityVars
<1>3. GetNextReady(t) => SelectStep(t) \/ PlainStep(t)
  <2> SUFFICES ASSUME GetNextReady(t) PROVE SelectStep(t) \/ PlainStep(t)
    OBVIOUS
  <2>1. CASE \E s \in Selections : Select(t, s) /\ Goto(t, "exec")
    BY <2>1 DEF GetNextReady, SelectStep, Goto
  <2>2. CASE /\ UNCHANGED <<free, item, data>>
             /\ Goto(t, IF mode = "some" \/ (mode = "all" /\ waited) THEN "joined" ELSE "collect")
    BY <2>2, ZenonT(40) DEF GetNextReady, PlainStep, Goto, Working
  <2> QED
    BY <2>1, <2>2 DEF GetNextReady
<1>4. GetNextReadyAgain(t) => SelectStep(t) \/ PlainStep(t)
  <2> SUFFICES ASSUME GetNextReadyAgain(t) PROVE SelectStep(t) \/ PlainStep(t)
    OBVIOUS
  <2>1. CASE \E s \in Selections : Select(t, s) /\ Goto(t, "exec")
    BY <2>1 DEF GetNextReadyAgain, SelectStep, Goto
  <2>2. CASE /\ UNCHANGED <<item, free, data>>
             /\ Goto(t, IF mode = "once" THEN "joined" ELSE "check")
    BY <2>2 DEF GetNextReadyAgain, PlainStep, Goto, Working
  <2> QED
    BY <2>1, <2>2 DEF GetNextReadyAgain
<1> QED
  BY <1>0, <1>1, <1>2, <1>3, <1>4 DEF ThreadStep

LEMMA ReservedThread ==
    ASSUME Types, ControlOK, ReservedOK, NEW t \in Threads, ThreadStep(t)
    PROVE  ReservedOK'
<1>0. /\ \A o \in Threads : Holds(o) => item[o] \in Entities /\ GroupOf[item[o]] \in Groups
      /\ mode' = mode
  BY ExecutorAssumption, ThreadKinds DEF Types, ControlOK, Holds, Working
<1>1. CASE SelectStep(t)
  <2>1. PICK s \in Selections : Select(t, s) /\ pc' = [pc EXCEPT ![t] = "exec"]
    BY <1>1 DEF SelectStep
  <2>2. s.e \in Entities /\ free[GroupOf[s.e]] /\ GroupOf[s.e] \in Groups
    BY SelectionFacts, ExecutorAssumption DEF Types
  <2>3. item' = [item EXCEPT ![t] = s.e]
    BY <2>1 DEF Select
  <2>4. \A o \in Threads \ {t} : Holds(o)' <=> Holds(o)
    BY <2>1 DEF Types, Holds
  <2>5. free' = IF GroupOf[s.e] \in Exclusive THEN [free EXCEPT ![GroupOf[s.e]] = FALSE] ELSE free
    BY <2>1 DEF Select, Reserve
  <2>6. \A g \in Groups : g # GroupOf[s.e] => free'[g] = free[g]
    BY <2>2, <2>5 DEF Types
  <2>7. GroupOf[s.e] \in Exclusive => ~free'[GroupOf[s.e]]
    BY <2>2, <2>5 DEF Types
  <2>8. GroupOf[s.e] \notin Exclusive => free'[GroupOf[s.e]]
    BY <2>2, <2>5
  <2>9. \A o \in Threads \ {t} : Holds(o) /\ GroupOf[item[o]] = GroupOf[s.e] => GroupOf[s.e] \notin Exclusive
    BY <2>2 DEF ReservedOK
  <2>10. item'[t] = s.e /\ \A o \in Threads \ {t} : item'[o] = item[o]
    BY <2>3 DEF Types
  <2> QED
    BY <1>0, <2>4, <2>6, <2>7, <2>8, <2>9, <2>10 DEF ReservedOK
<1>2. CASE PlainStep(t)
  <2>1. \A o \in Threads : Holds(o)' => Holds(o)
    BY <1>2 DEF PlainStep, Types, Holds, Working
  <2> QED
    BY <1>2, <2>1 DEF PlainStep, ReservedOK
<1>3. CASE Execute(t)
  <2>1. \A o \in Threads : Holds(o)' => Holds(o)
    BY <1>3 DEF Execute, Goto, Types, Holds
  <2> QED
    BY <1>3, <2>1 DEF Execute, ReservedOK
<1>4. CASE ResetGroup(t)
  <2>1. /\ Holds(t) /\ ~Holds(t)'
        /\ \A o \in Threads : Holds(o)' => Holds(o) /\ o # t
        /\ item' = item
    BY <1>4 DEF ResetGroup, Goto, Types, Holds
  <2>2. \A g \in Groups : free'[g] = IF g = GroupOf[item[t]] THEN TRUE ELSE free[g]
    BY <1>4 DEF ResetGroup, Types
  <2> QED
    BY <1>0, <2>1, <2>2 DEF ReservedOK
<1>5. CASE Signal(t)
  <2>1. /\ \A o \in Threads : Holds(o)' => Holds(o) /\ o # t
        /\ \A o \in Threads \ {t} : item'[o] = item[o]
    BY <1>5 DEF Signal, Goto, Types, Holds
  <2>2. CASE mode = "multi"
    <3>1. free' = free
      BY <1>5, <2>2 DEF Signal
    <3> QED
      BY <2>1, <3>1 DEF ReservedOK
  <2>3. CASE mode # "multi"
    <3>1. \A o \in Threads : ~Holds(o)'
      BY <1>5, <2>1, <2>3 DEF ControlOK, Signal, Holds
    <3>2. \A g \in Groups : free'[g] = free[g] \/ free'[g] = TRUE
      BY <1>5, <2>3 DEF Signal, Types
    <3> QED
      BY <3>1, <3>2 DEF ReservedOK
  <2> QED
    BY <2>2, <2>3
<1> QED
  BY ThreadKinds, <1>1, <1>2, <1>3, <1>4, <1>5

LEMMA InitReserved == Init => ReservedOK
BY DEF Init, ReservedOK, Holds

LEMMA ReservedStep == Types /\ ControlOK /\ ReservedOK /\ [Next]_vars => ReservedOK'
<1> SUFFICES ASSUME Types, ControlOK, ReservedOK, [Next]_vars PROVE ReservedOK'
  OBVIOUS
<1>1. ASSUME NEW m \in Modes, Spin(m) PROVE ReservedOK'
  <2>1. \A t \in Threads : pc'[t] \in {"check", "idle", "next", "collect"}
    BY <1>1 DEF Spin
  <2> QED
    BY <1>1, <2>1 DEF ReservedOK, Spin, Holds
<1>2. CASE SpinReturns
  BY <1>2 DEF ReservedOK, SpinReturns, Holds
<1>3. CASE UNCHANGED <<mode, mutex, pc, item, free>>
  BY <1>3 DEF ReservedOK, Holds
<1> QED
  BY <1>1, <1>2, <1>3, ReservedThread, OutsideSteps DEF Next, threadVars

(***************************************************************************)
(* Counting expirations and messages                                       *)
(***************************************************************************)
\* Threads that took data of the entity under the lock and have not run yet.
Taken(e) == {t \in Threads : pc[t] = "exec" /\ item[t] = e /\ e \notin Takeables}

\* What was run, what waits and what is in the hands of a thread arrived.
CountOK ==
    \A e \in Entities : /\ IsFiniteSet(Taken(e))
                        /\ ran[e] + data[e] + Cardinality(Taken(e)) <= arrived[e]

\* A timer of the wait result has expired and nobody has called it since.
ResultOK == \A e \in result \cap Timers : data[e] > 0

LEMMA InitCount == Init => CountOK /\ ResultOK
<1> SUFFICES ASSUME Init PROVE CountOK /\ ResultOK
  OBVIOUS
<1>1. \A e \in Entities : Taken(e) = {}
  BY DEF Init, Taken
<1> QED
  BY <1>1, FS_EmptySet DEF Init, CountOK, ResultOK

LEMMA CountSelect ==
    ASSUME Types, ControlOK, CountOK, ResultOK, NEW t \in Threads, SelectStep(t),
           UNCHANGED <<ran, arrived>>
    PROVE  CountOK' /\ ResultOK'
<1>1. PICK s \in Selections : /\ pc[t] \in {"next", "retry"} /\ Select(t, s)
                              /\ pc' = [pc EXCEPT ![t] = "exec"]
  BY DEF SelectStep
<1>2. /\ s.e \in result /\ s.e \in Entities /\ s.left \subseteq result /\ s.e \notin s.left
      /\ s.e \in Waitables => data[s.e] > 0
  BY SelectionFacts DEF Types
<1>3. s.e \notin Takeables => data[s.e] > 0
  BY <1>2 DEF ResultOK, Takeables
<1>4. data' = IF s.e \in Takeables THEN data ELSE [data EXCEPT ![s.e] = @ - 1]
  BY <1>1, <1>2, <1>3 DEF Select, TakeUnderLock, Takeables
<1>5. result' = s.left /\ item' = [item EXCEPT ![t] = s.e]
  BY <1>1 DEF Select
<1>6. ResultOK'
  BY <1>2, <1>4, <1>5 DEF ResultOK, Types
<1>7. ASSUME NEW e \in Entities
      PROVE  /\ IsFiniteSet(Taken(e)')
             /\ ran'[e] + data'[e] + Cardinality(Taken(e)') <= arrived'[e]
  <2>0. /\ IsFiniteSet(Taken(e)) /\ Cardinality(Taken(e)) \in Nat
        /\ ran[e] + data[e] + Cardinality(Taken(e)) <= arrived[e]
        /\ ran[e] \in Nat /\ data[e] \in Nat /\ arrived[e] \in Nat
    BY FS_CardinalityType, ExecutorAssumption DEF CountOK, Types
  <2>1. CASE e = s.e /\ e \notin Takeables
    <3>1. Taken(e)' = Taken(e) \cup {t} /\ t \notin Taken(e)
      BY <1>1, <1>5, <2>1 DEF Taken, Types, Takeables
    <3>2. /\ IsFiniteSet(Taken(e)')
          /\ Cardinality(Taken(e)') = Cardinality(Taken(e)) + 1
      BY <2>0, <3>1, FS_AddElement
    <3>3. data'[e] = data[e] - 1
      BY <1>4, <2>1 DEF Types
    <3> QED
      BY <2>0, <3>2, <3>3
  <2>2. CASE e # s.e \/ e \in Takeables
    <3>1. Taken(e)' = Taken(e)
      BY <1>1, <1>5, <2>2 DEF Taken, Types, Takeables
    <3>2. data'[e] = data[e]
      BY <1>4, <2>2 DEF Types
    <3> QED
      BY <2>0, <3>1, <3>2
  <2> QED
    BY <2>1, <2>2
<1> QED
  BY <1>6, <1>7 DEF CountOK

LEMMA CountExecute ==
    ASSUME Types, ControlOK, CountOK, ResultOK, NEW t \in Threads, Execute(t)
    PROVE  CountOK' /\ ResultOK'
<1> DEFINE i == item[t]
           runs == spinning /\ (i \in Takeables => data[i] > 0)
<1>1. /\ i \in Entities /\ pc[t] = "exec" /\ pc'[t] # "exec" /\ item' = item
      /\ \A o \in Threads \ {t} : pc'[o] = pc[o]
      /\ result' = result /\ arrived' = arrived
  BY DEF Execute, Goto, Types, ControlOK, Working, boundVars
<1>2. /\ data' = IF runs /\ i \in Takeables THEN [data EXCEPT ![i] = @ - 1] ELSE data
      /\ ran' = IF runs THEN [ran EXCEPT ![i] = @ + 1] ELSE ran
  BY DEF Execute
<1>3. ResultOK'
  BY <1>1, <1>2 DEF ResultOK, Types, Takeables
<1>4. ASSUME NEW e \in Entities
      PROVE  /\ IsFiniteSet(Taken(e)')
             /\ ran'[e] + data'[e] + Cardinality(Taken(e)') <= arrived'[e]
  <2>0. /\ IsFiniteSet(Taken(e)) /\ Cardinality(Taken(e)) \in Nat
        /\ ran[e] + data[e] + Cardinality(Taken(e)) <= arrived[e]
        /\ ran[e] \in Nat /\ data[e] \in Nat /\ arrived[e] \in Nat
    BY FS_CardinalityType, ExecutorAssumption DEF CountOK, Types
  <2>1. CASE e = i /\ e \notin Takeables
    <3>1. Taken(e)' = Taken(e) \ {t} /\ t \in Taken(e)
      BY <1>1, <2>1 DEF Taken, Types, Takeables
    <3>2. /\ IsFiniteSet(Taken(e)')
          /\ Cardinality(Taken(e)') = Cardinality(Taken(e)) - 1
      BY <2>0, <3>1, FS_RemoveElement
    <3>3. data'[e] = data[e] /\ (ran'[e] = ran[e] \/ ran'[e] = ran[e] + 1)
      BY <1>2, <2>1 DEF Types
    <3> QED
      BY <1>1, <2>0, <3>2, <3>3
  <2>2. CASE e # i
    <3>1. Taken(e)' = Taken(e)
      BY <1>1, <2>2 DEF Taken, Types, Takeables
    <3>2. data'[e] = data[e] /\ ran'[e] = ran[e]
      BY <1>1, <1>2, <2>2 DEF Types
    <3> QED
      BY <1>1, <2>0, <3>1, <3>2
  <2>3. CASE e = i /\ e \in Takeables
    <3>1. Taken(e)' = Taken(e)
      BY <2>3 DEF Taken, Takeables
    <3>2. CASE runs
      <4>1. data[e] > 0 /\ data'[e] = data[e] - 1 /\ ran'[e] = ran[e] + 1
        BY <1>1, <1>2, <2>3, <3>2 DEF Types
      <4> QED
        BY <1>1, <2>0, <3>1, <4>1
    <3>3. CASE ~runs
      BY <1>1, <1>2, <2>0, <3>1, <3>3
    <3> QED
      BY <3>2, <3>3
  <2> QED
    BY <2>1, <2>2, <2>3
<1> QED
  BY <1>3, <1>4 DEF CountOK

\* The result changes only by forgetting, but for what a wait finds.
LEMMA ResultPlain ==
    ASSUME Types, ResultOK, NEW t \in Threads, ThreadStep(t), UNCHANGED data
    PROVE  ResultOK'
<1>1. CASE Wait(t)
  BY <1>1, ExecutorAssumption DEF Wait, ReadyNow, Ready, ResultOK, Types
<1>2. CASE result' \subseteq result
  BY <1>2 DEF ResultOK
<1>3. GetNextReady(t) => result' \subseteq result
  <2> SUFFICES ASSUME GetNextReady(t) PROVE result' \subseteq result
    OBVIOUS
  <2>1. CASE \E s \in Selections : Select(t, s)
    BY <2>1, SelectionFacts DEF Select, Types
  <2>2. CASE result' = IF mode \in {"some", "all"} THEN {} ELSE BusyTimers
    BY <2>2 DEF BusyTimers
  <2> QED
    BY <2>1, <2>2 DEF GetNextReady
<1>4. GetNextReadyAgain(t) => result' \subseteq result
  <2> SUFFICES ASSUME GetNextReadyAgain(t) PROVE result' \subseteq result
    OBVIOUS
  <2>1. CASE \E s \in Selections : Select(t, s)
    BY <2>1, SelectionFacts DEF Select, Types
  <2>2. CASE result' \in {result, BusyTimers}
    BY <2>2 DEF BusyTimers
  <2> QED
    BY <2>1, <2>2 DEF GetNextReadyAgain
<1>5. ASSUME EnterLoop(t) \/ LeaveLoop(t) \/ CollectIfNeeded(t) \/ Execute(t)
               \/ ResetGroup(t) \/ Signal(t)
      PROVE  result' \subseteq result
  BY <1>5 DEF EnterLoop, LeaveLoop, CollectIfNeeded, CollectEntities, Execute, ResetGroup, Signal
<1> QED
  BY <1>1, <1>2, <1>3, <1>4, <1>5 DEF ThreadStep

LEMMA CountThread ==
    ASSUME Types, ControlOK, CountOK, ResultOK, NEW t \in Threads, ThreadStep(t)
    PROVE  CountOK' /\ ResultOK'
<1>1. CASE SelectStep(t)
  <2>1. ran' = ran
    BY <1>1 DEF ThreadStep, SelectStep, EnterLoop, LeaveLoop, GetNextReady, CollectIfNeeded, Wait,
       GetNextReadyAgain, Execute, ResetGroup, Signal, entityVars
  <2> QED
    BY <1>1, <2>1, ThreadKinds, CountSelect
<1>2. CASE Execute(t)
  BY <1>2, CountExecute
<1>3. CASE PlainStep(t) \/ ResetGroup(t) \/ Signal(t)
  <2>1. UNCHANGED <<data, ran, arrived>>
    BY <1>3, ThreadKinds DEF PlainStep, ResetGroup, Signal, entityVars
  <2>2. \A e \in Entities : Taken(e)' = Taken(e)
    <3>1. pc[t] # "exec" /\ pc'[t] # "exec" /\ \A o \in Threads \ {t} : pc'[o] = pc[o] /\ item'[o] = item[o]
      BY <1>3 DEF PlainStep, ResetGroup, Signal, Goto, Types, Working
    <3> QED
      BY <3>1 DEF Taken, Takeables
  <2>3. CountOK'
    BY <2>1, <2>2 DEF CountOK
  <2> QED
    BY <2>1, <2>3, ResultPlain
<1> QED
  BY ThreadKinds, <1>1, <1>2, <1>3

LEMMA CountStep ==
    Types /\ ControlOK /\ CountOK /\ ResultOK /\ [Next]_vars => CountOK' /\ ResultOK'
<1> SUFFICES ASSUME Types, ControlOK, CountOK, ResultOK, [Next]_vars
             PROVE  CountOK' /\ ResultOK'
  OBVIOUS
<1>1. ASSUME \A e \in Entities : Taken(e)' = Taken(e),
             UNCHANGED <<data, ran, arrived>>, result' \subseteq result
      PROVE  CountOK' /\ ResultOK'
  BY <1>1 DEF CountOK, ResultOK
<1>2. ASSUME NEW m \in Modes, Spin(m) PROVE CountOK' /\ ResultOK'
  <2>1. \A t \in Threads : pc[t] # "exec" /\ pc'[t] # "exec"
    BY <1>2, ExecutorAssumption DEF Spin, ControlOK, AllModes
  <2>2. \A e \in Entities : Taken(e)' = Taken(e)
    BY <2>1 DEF Taken
  <2> QED
    BY <1>1, <1>2, <2>2 DEF Spin, entityVars
<1>3. CASE SpinReturns
  <2>1. \A e \in Entities : Taken(e)' = Taken(e)
    BY <1>3 DEF SpinReturns, Taken
  <2> QED
    BY <1>1, <1>3, <2>1 DEF SpinReturns, entityVars, boundVars
<1>4. CASE \/ \E u \in Users : UserContinues(u) \/ UserCalls(u)
           \/ UNCHANGED vars
  <2>1. \A e \in Entities : Taken(e)' = Taken(e)
    BY <1>4, OutsideSteps DEF Taken, threadVars, Takeables
  <2>2. UNCHANGED <<data, ran, arrived>> /\ result' \subseteq result
    BY <1>4 DEF UserContinues, UserCalls, InsertNode, UnlinkNode, StoreRebuild, TestSpinning,
       Recollect, Trigger, AddNode, RemoveNode, Cancel, Shutdown, CreateEntity, CancelTimer,
       CollectEntities, entityVars, boundVars, vars
  <2> QED
    BY <1>1, <2>1, <2>2
<1>5. ASSUME NEW a \in Entities, Arrive(a) PROVE CountOK' /\ ResultOK'
  <2>1. \A e \in Entities : Taken(e)' = Taken(e)
    BY <1>5, OutsideSteps DEF Taken, threadVars, Takeables
  <2>2. /\ data' = [data EXCEPT ![a] = @ + 1] /\ arrived' = [arrived EXCEPT ![a] = @ + 1]
        /\ UNCHANGED <<ran, result>>
    BY <1>5 DEF Arrive
  <2>3. ResultOK'
    BY <2>2 DEF ResultOK, Types
  <2>4. ASSUME NEW e \in Entities
        PROVE  /\ IsFiniteSet(Taken(e)')
               /\ ran'[e] + data'[e] + Cardinality(Taken(e)') <= arrived'[e]
    <3>1. /\ IsFiniteSet(Taken(e)) /\ Cardinality(Taken(e)) \in Nat
          /\ ran[e] + data[e] + Cardinality(Taken(e)) <= arrived[e]
          /\ ran[e] \in Nat /\ data[e] \in Nat /\ arrived[e] \in Nat
      BY FS_CardinalityType, ExecutorAssumption DEF CountOK, Types
    <3>2. \/ data'[e] = data[e] + 1 /\ arrived'[e] = arrived[e] + 1
          \/ data'[e] = data[e] /\ arrived'[e] = arrived[e]
      BY <2>2 DEF Types
    <3> QED
      BY <2>1, <2>2, <3>1, <3>2
  <2> QED
    BY <2>3, <2>4 DEF CountOK
<1> QED
  BY <1>2, <1>3, <1>4, <1>5, CountThread DEF Next

(***************************************************************************)
(* The collector's flag                                                    *)
(***************************************************************************)
LEMMA InitFlag == Init => FlagIsReleased
BY DEF Init, FlagIsReleased

\* Steps that keep the queues, and the user threads about to queue a node.
LEMMA FlagQuiet ==
    ASSUME FlagIsReleased, UNCHANGED collectorVars,
           \A u \in Users : upc[u] = "insert" => upc'[u] = "insert" /\ uarg'[u] = uarg[u]
    PROVE  FlagIsReleased'
BY DEF FlagIsReleased, collectorVars

\* A node that process_queues() removes loses its flag.
LEMMA FlagCollect ==
    ASSUME FlagIsReleased, CollectEntities,
           \A u \in Users : upc[u] = "insert" => upc'[u] = "insert" /\ uarg'[u] = uarg[u]
    PROVE  FlagIsReleased'
BY DEF FlagIsReleased, CollectEntities, ProcessQueues

LEMMA FlagUser ==
    ASSUME Types, FlagIsReleased, NEW u \in Users, UserContinues(u)
    PROVE  FlagIsReleased'
<1>1. CASE InsertNode(u)
  <2>1. /\ upc[u] = "insert" /\ uarg[u] \in nodes' \cup adding' /\ adding \subseteq adding'
        /\ UNCHANGED <<nodes, associated>>
    BY <1>1 DEF InsertNode
  <2>2. \A o \in Users \ {u} : upc'[o] = upc[o] /\ uarg'[o] = uarg[o]
    BY <1>1 DEF InsertNode, Continue, Types
  <2> QED
    BY <2>1, <2>2 DEF FlagIsReleased
<1>2. CASE UnlinkNode(u)
  <2>1. upc[u] = "unlink" /\ UNCHANGED <<nodes, adding, associated>>
    BY <1>2 DEF UnlinkNode
  <2>2. \A o \in Users \ {u} : upc'[o] = upc[o] /\ uarg'[o] = uarg[o]
    BY <1>2 DEF UnlinkNode, Continue, Types
  <2> QED
    BY <2>1, <2>2 DEF FlagIsReleased
<1>3. CASE Recollect(u)
  <2>1. \A o \in Users : upc[o] = "insert" => upc'[o] = "insert" /\ uarg'[o] = uarg[o]
    BY <1>3 DEF Recollect, Types
  <2> QED
    BY <1>3, <2>1, FlagCollect DEF Recollect
<1>4. CASE StoreRebuild(u) \/ TestSpinning(u) \/ Trigger(u)
  <2>1. \A o \in Users : upc[o] = "insert" => upc'[o] = "insert" /\ uarg'[o] = uarg[o]
    BY <1>4 DEF StoreRebuild, TestSpinning, Trigger, Continue, Types
  <2> QED
    BY <1>4, <2>1, FlagQuiet DEF StoreRebuild, TestSpinning, Trigger
<1> QED
  BY <1>1, <1>2, <1>3, <1>4 DEF UserContinues

LEMMA FlagCalls ==
    ASSUME Types, FlagIsReleased, NEW u \in Users, UserCalls(u)
    PROVE  FlagIsReleased'
<1>1. ASSUME NEW place, NEW arg, Begin(u, place, arg)
      PROVE  /\ \A o \in Users : upc[o] # "idle" => upc'[o] = upc[o] /\ uarg'[o] = uarg[o]
             /\ upc'[u] = place /\ uarg'[u] = arg
  BY <1>1 DEF Begin, Continue, Types
<1>2. ASSUME NEW n \in Nodes, AddNode(u, n) PROVE FlagIsReleased'
  <2>1. /\ UNCHANGED <<nodes, adding>> /\ associated' = associated \cup {n}
        /\ Begin(u, "insert", n)
    BY <1>2 DEF AddNode
  <2> QED
    BY <1>1, <2>1 DEF FlagIsReleased
<1>3. ASSUME NEW n \in Nodes, RemoveNode(u, n) PROVE FlagIsReleased'
  <2>1. /\ UNCHANGED <<nodes, adding>> /\ associated' \subseteq associated
        /\ Begin(u, "unlink", n)
    BY <1>3 DEF RemoveNode
  <2> QED
    BY <1>1, <2>1 DEF FlagIsReleased
<1>4. CASE Cancel(u) \/ Shutdown(u)
  <2>1. /\ UNCHANGED collectorVars
        /\ Begin(u, "trigger", "interrupt") \/ Begin(u, "trigger", "shutdown")
    BY <1>4 DEF Cancel, Shutdown
  <2> QED
    BY <1>1, <2>1, FlagQuiet
<1>5. ASSUME NEW e \in Entities, CreateEntity(u, e) PROVE FlagIsReleased'
  BY <1>1, <1>5, FlagQuiet DEF CreateEntity
<1>6. ASSUME NEW e \in Entities, CancelTimer(u, e) PROVE FlagIsReleased'
  BY <1>6, FlagQuiet DEF CancelTimer, userVars
<1> QED
  BY <1>2, <1>3, <1>4, <1>5, <1>6 DEF UserCalls

LEMMA FlagStep == Types /\ FlagIsReleased /\ [Next]_vars => FlagIsReleased'
<1> SUFFICES ASSUME Types, FlagIsReleased, [Next]_vars PROVE FlagIsReleased'
  OBVIOUS
<1>1. (\E m \in Modes : Spin(m)) \/ SpinReturns \/ (\E e \in Entities : Arrive(e)) \/ UNCHANGED vars
      => UNCHANGED <<collectorVars, userVars>>
  BY DEF Spin, SpinReturns, Arrive, vars, collectorVars, userVars
<1>2. CASE UNCHANGED <<collectorVars, userVars>>
  BY <1>2, FlagQuiet DEF userVars
<1>3. ASSUME NEW t \in Threads, ThreadStep(t) PROVE FlagIsReleased'
  <2>1. UNCHANGED userVars
    BY <1>3 DEF ThreadStep, EnterLoop, LeaveLoop, GetNextReady, CollectIfNeeded, Wait,
       GetNextReadyAgain, Execute, ResetGroup, Signal
  <2>2. CASE CollectIfNeeded(t)
    BY <1>2, <2>1, <2>2, FlagCollect DEF CollectIfNeeded, userVars
  <2>3. CASE ~CollectIfNeeded(t)
    BY <1>2, <1>3, <2>1, <2>3 DEF ThreadStep, EnterLoop, LeaveLoop, GetNextReady, Wait,
       GetNextReadyAgain, Execute, ResetGroup, Signal
  <2> QED
    BY <2>2, <2>3
<1> QED
  BY <1>1, <1>2, <1>3, FlagUser, FlagCalls DEF Next

(***************************************************************************)
(* Leaked reservations                                                     *)
(***************************************************************************)
\* Somebody has an executable of the group.
Held(g) == \E t \in Threads : item[t] # None /\ GroupOf[item[t]] = g

\* Every reserved group belongs to an executable: no executable was discarded
\* with its group still reserved.
NoneLeaked == \A g \in Groups : ~free[g] => Held(g)

\* A leaked reservation is never undone: nobody can take from the group, and
\* only who took from it resets it.
LEMMA LeakStays ==
    ASSUME Types, ControlOK, [Next]_vars, NEW g \in Groups, ~free[g], ~Held(g)
    PROVE  ~free'[g] /\ ~Held(g)'
<1>1. ASSUME NEW t \in Threads, ThreadStep(t) PROVE ~free'[g] /\ ~Held(g)'
  <2>1. CASE SelectStep(t)
    <3>1. PICK s \in Selections : Select(t, s)
      BY <2>1 DEF SelectStep
    <3>2. GroupOf[s.e] # g /\ s.e \in Entities /\ GroupOf[s.e] \in Groups
      BY SelectionFacts, ExecutorAssumption DEF Types
    <3>3. free'[g] = free[g]
      BY <3>1, <3>2 DEF Select, Reserve, Types
    <3>4. item' = [item EXCEPT ![t] = s.e]
      BY <3>1 DEF Select
    <3> QED
      BY <3>2, <3>3, <3>4 DEF Held, Types
  <2>2. CASE PlainStep(t)
    BY <2>2 DEF PlainStep, Held
  <2>3. CASE Execute(t)
    BY <2>3 DEF Execute, Held
  <2>4. CASE ResetGroup(t)
    <3>1. GroupOf[item[t]] # g
      BY <2>4 DEF ResetGroup, ControlOK, Working, Held
    <3>2. free'[g] = free[g]
      BY <2>4, <3>1 DEF ResetGroup, Types
    <3> QED
      BY <2>4, <3>2 DEF ResetGroup, Held
  <2>5. CASE Signal(t)
    <3>1. GroupOf[item[t]] # g
      BY <2>5 DEF Signal, ControlOK, Working, Held
    <3>2. free'[g] = free[g]
      BY <2>5, <3>1 DEF Signal, Types
    <3>3. \A o \in Threads : item'[o] = None \/ item'[o] = item[o]
      BY <2>5 DEF Signal, Types
    <3> QED
      BY <3>2, <3>3 DEF Held
  <2> QED
    BY <1>1, ThreadKinds, <2>1, <2>2, <2>3, <2>4, <2>5
<1>2. CASE UNCHANGED <<item, free>>
  BY <1>2 DEF Held
<1>3. (\E m \in Modes : Spin(m)) \/ SpinReturns => UNCHANGED <<item, free>>
  BY DEF Spin, SpinReturns
<1> QED
  BY <1>1, <1>2, <1>3, OutsideSteps DEF Next, threadVars

\* While the first spin runs and is not canceled, a reserved group belongs to a
\* thread that will reset it.
FirstSpinOK ==
    /\ spins = 0 => mode = None /\ ~spinning /\ \A g \in Groups : free[g]
    /\ spins <= 1 /\ spinning =>
           \A g \in Groups : ~free[g] =>
               \E t \in Threads : Holds(t) /\ GroupOf[item[t]] = g

LEMMA InitFirstSpin == Init => FirstSpinOK
BY DEF Init, FirstSpinOK

LEMMA FirstSpinThread ==
    ASSUME Types, ControlOK, FirstSpinOK, NEW t \in Threads, ThreadStep(t)
    PROVE  FirstSpinOK'
<1>0. UNCHANGED <<mode, spinning, spins>> /\ spins # 0
  <2>1. mode # None
    BY ExecutorAssumption DEF ControlOK, ThreadStep, EnterLoop, LeaveLoop, GetNextReady,
       CollectIfNeeded, Wait, GetNextReadyAgain, Execute, ResetGroup, Signal, AllModes
  <2> QED
    BY <2>1, ThreadKinds DEF FirstSpinOK
<1> SUFFICES ASSUME spins <= 1, spinning, NEW g \in Groups, ~free'[g]
             PROVE  \E o \in Threads : Holds(o)' /\ GroupOf[item'[o]] = g
  BY <1>0 DEF FirstSpinOK
<1>1. ASSUME ~free[g], pc'[t] \in {"exec", "callback"} \/ pc[t] \notin {"exec", "callback"},
             pc' = [pc EXCEPT ![t] = pc'[t]],
             pc[t] \in {"exec", "callback"} => item'[t] = item[t],
             \A o \in Threads \ {t} : item'[o] = item[o]
      PROVE  \E o \in Threads : Holds(o)' /\ GroupOf[item'[o]] = g
  <2>1. PICK o \in Threads : Holds(o) /\ GroupOf[item[o]] = g
    BY <1>1 DEF FirstSpinOK
  <2>2. Holds(o)' /\ item'[o] = item[o]
    BY <1>1, <2>1 DEF Holds, Types
  <2> QED
    BY <2>1, <2>2
<1>2. CASE SelectStep(t)
  <2>1. PICK s \in Selections : /\ Select(t, s) /\ pc' = [pc EXCEPT ![t] = "exec"]
                                /\ pc[t] \in {"next", "retry"}
    BY <1>2 DEF SelectStep
  <2>2. item' = [item EXCEPT ![t] = s.e] /\ s.e \in Entities /\ GroupOf[s.e] \in Groups
    BY <2>1, SelectionFacts, ExecutorAssumption DEF Select, Types
  <2>3. CASE GroupOf[s.e] = g
    BY <2>1, <2>2, <2>3 DEF Holds, Types
  <2>4. CASE GroupOf[s.e] # g
    <3>1. free'[g] = free[g]
      BY <2>1, <2>2, <2>4 DEF Select, Reserve, Types
    <3> QED
      BY <1>1, <2>1, <2>2, <3>1 DEF Types
  <2> QED
    BY <2>3, <2>4
<1>3. CASE PlainStep(t)
  BY <1>1, <1>3 DEF PlainStep, Types, Working
<1>4. CASE Execute(t)
  BY <1>1, <1>4 DEF Execute, Goto, Types
<1>5. CASE ResetGroup(t)
  <2>1. g # GroupOf[item[t]] /\ ~free[g]
    BY <1>5 DEF ResetGroup, Types
  <2>2. PICK o \in Threads : Holds(o) /\ GroupOf[item[o]] = g
    BY <2>1 DEF FirstSpinOK
  <2> QED
    BY <1>5, <2>1, <2>2 DEF ResetGroup, Goto, Holds, Types
<1>6. CASE Signal(t)
  <2>1. ~free[g]
    BY <1>6 DEF Signal, Types
  <2> QED
    BY <1>1, <1>6, <2>1 DEF Signal, Goto, Types
<1> QED
  BY ThreadKinds, <1>2, <1>3, <1>4, <1>5, <1>6

LEMMA FirstSpinStep == Types /\ ControlOK /\ FirstSpinOK /\ [Next]_vars => FirstSpinOK'
<1> SUFFICES ASSUME Types, ControlOK, FirstSpinOK, [Next]_vars PROVE FirstSpinOK'
  OBVIOUS
<1>1. ASSUME NEW m \in Modes, Spin(m) PROVE FirstSpinOK'
  BY <1>1 DEF Spin, FirstSpinOK, Types
<1>2. CASE SpinReturns
  BY <1>2 DEF SpinReturns, FirstSpinOK, boundVars
<1>3. CASE /\ UNCHANGED <<mode, pc, item, free, spins>>
           /\ spinning' = spinning \/ ~spinning'
  BY <1>3 DEF FirstSpinOK, Holds
<1>4. ASSUME \/ \E u \in Users : UserContinues(u) \/ UserCalls(u)
             \/ \E e \in Entities : Arrive(e)
             \/ UNCHANGED vars
      PROVE  spinning' = spinning \/ ~spinning'
  BY <1>4 DEF UserContinues, UserCalls, InsertNode, UnlinkNode, StoreRebuild, TestSpinning,
     Recollect, Trigger, AddNode, RemoveNode, Cancel, Shutdown, CreateEntity, CancelTimer, Arrive,
     vars
<1> QED
  BY <1>1, <1>2, <1>3, <1>4, FirstSpinThread, OutsideSteps DEF Next, threadVars

(***************************************************************************)
(* No lost wake-up                                                         *)
(***************************************************************************)
\* The interrupt guard condition is triggered, or a user thread will do it.
InterruptComing ==
    \/ "interrupt" \in trig
    \/ \E u \in Users : upc[u] \notin {"idle", "insert", "unlink"} /\ uarg[u] = "interrupt"

\* Changes of the collector and requests for a rebuild are announced.
NoticeOK ==
    /\ gcs = {"interrupt", "shutdown"} \cup nodes
    /\ \A u \in Users : upc[u] \in {"store", "test", "recollect"} => uarg[u] = "interrupt"
    /\ adding # {} => rebuild \/ InterruptComing
    /\ rebuild /\ (\E t \in Threads : pc[t] = "wait") => InterruptComing

\* An entity of the executor that is not in the wait set will be collected: a
\* rebuild is asked for or announced, or a thread of a multi-threaded spin
\* works on its group and will interrupt the wait.
Covered ==
    \A e \in created :
        EntityNode(e) \in Members =>
            \/ e \in collection
            \/ rebuild
            \/ WakeupComing
            \/ mode = "multi" /\ GroupOf[e] \in Exclusive /\ Held(GroupOf[e])

LEMMA InterruptIsWakeup == NoticeOK /\ InterruptComing => WakeupComing
BY DEF NoticeOK, InterruptComing, WakeupComing

LEMMA InitNotice == Init => NoticeOK /\ Covered
BY DEF Init, NoticeOK, Covered

\* Beginning an operation does not disturb what other user threads have begun.
LEMMA BeginFacts ==
    ASSUME Types, NEW u \in Users, NEW place, NEW arg, Begin(u, place, arg)
    PROVE  /\ \A o \in Users : upc[o] # "idle" => upc'[o] = upc[o] /\ uarg'[o] = uarg[o]
           /\ \A o \in Users : o # u => upc'[o] = upc[o] /\ uarg'[o] = uarg[o]
           /\ upc'[u] = place /\ uarg'[u] = arg
BY DEF Begin, Continue, Types

LEMMA ContinueFacts ==
    ASSUME Types, NEW u \in Users, NEW place, NEW arg, Continue(u, place, arg)
    PROVE  /\ \A o \in Users : o # u => upc'[o] = upc[o] /\ uarg'[o] = uarg[o]
           /\ upc'[u] = place /\ uarg'[u] = arg
BY DEF Continue, Types

\* A step that leaves the collector, the guard conditions and the requests
\* alone, begins at most operations of users and lets nobody fall asleep.
LEMMA NoticeQuiet ==
    ASSUME NoticeOK,
           UNCHANGED <<nodes, adding, gcs>>, trig \subseteq trig', rebuild' <=> rebuild,
           \A t \in Threads : pc'[t] = "wait" => pc[t] = "wait",
           \A o \in Users : upc[o] \notin {"idle", "insert", "unlink"} =>
               upc'[o] = upc[o] /\ uarg'[o] = uarg[o],
           \A u \in Users :
               upc[u] \in {"idle", "insert", "unlink"} /\ upc'[u] \in {"store", "test", "recollect"}
               => uarg'[u] = "interrupt"
    PROVE  NoticeOK'
<1>1. InterruptComing => InterruptComing'
  BY DEF InterruptComing
<1> QED
  BY <1>1 DEF NoticeOK

LEMMA CoveredQuiet ==
    ASSUME Covered,
           UNCHANGED <<mode, nodes, adding, removing, created, collection, gcs>>,
           trig \subseteq trig', rebuild => rebuild',
           \A t \in Threads : item[t] # None => item'[t] = item[t],
           \A o \in Users : upc[o] \notin {"idle", "insert", "unlink"} =>
               upc'[o] = upc[o] /\ uarg'[o] = uarg[o]
    PROVE  Covered'
<1>1. WakeupComing => WakeupComing'
  BY DEF WakeupComing
<1>2. \A g : Held(g) => Held(g)'
  BY DEF Held
<1> QED
  BY <1>1, <1>2 DEF Covered, Members

\* An interrupt that is coming covers every entity.
LEMMA CoveredByInterrupt == ASSUME NoticeOK', InterruptComing' PROVE Covered'
BY InterruptIsWakeup DEF Covered, NoticeOK, InterruptComing, WakeupComing

LEMMA NoticeThread ==
    ASSUME Types, ControlOK, ReservedOK, NoticeOK, NEW t \in Threads, ThreadStep(t)
    PROVE  /\ NoticeOK'
           /\ NoneLeaked /\ Covered => Covered'
<1>0. UNCHANGED <<mode, created, upc, uarg>> /\ created \subseteq Entities
  BY ThreadKinds DEF Types
<1>1. CASE EnterLoop(t) \/ LeaveLoop(t) \/ ResetGroup(t) \/ Execute(t)
  <2>1. /\ UNCHANGED <<nodes, adding, removing, collection, gcs, trig, rebuild, item>>
        /\ \E p : pc' = [pc EXCEPT ![t] = p] /\ p # "wait"
    BY <1>1 DEF EnterLoop, LeaveLoop, ResetGroup, Execute, Goto, collectorVars, waitVars
  <2>2. \A o \in Threads : pc'[o] = "wait" => pc[o] = "wait"
    BY <2>1 DEF Types
  <2> QED
    BY <1>0, <2>1, <2>2, NoticeQuiet, CoveredQuiet
<1>2. CASE GetNextReady(t) \/ GetNextReadyAgain(t)
  <2>1. /\ UNCHANGED <<nodes, adding, removing, collection, gcs, trig, rebuild>>
        /\ pc[t] \in {"next", "retry"}
    BY <1>2 DEF GetNextReady, GetNextReadyAgain, collectorVars, waitVars
  <2>2. item[t] = None
    BY <2>1 DEF ControlOK, Working
  <2>3. /\ \E p : pc' = [pc EXCEPT ![t] = p] /\ p # "wait"
        /\ \A o \in Threads \ {t} : item'[o] = item[o]
    <3>1. CASE SelectStep(t)
      <4>1. PICK s \in Selections : Select(t, s) /\ pc' = [pc EXCEPT ![t] = "exec"]
        BY <3>1 DEF SelectStep
      <4>2. item' = [item EXCEPT ![t] = s.e]
        BY <4>1 DEF Select
      <4>3. \A o \in Threads \ {t} : item'[o] = item[o]
        BY <4>2 DEF Types
      <4>4. \E p : pc' = [pc EXCEPT ![t] = p] /\ p # "wait"
        <5> WITNESS "exec"
        <5> QED
          BY <4>1
      <4> QED
        BY <4>3, <4>4
    <3>2. CASE PlainStep(t)
      <4>1. item' = item
        BY <3>2 DEF PlainStep
      <4>2. \E p : pc' = [pc EXCEPT ![t] = p] /\ p # "wait"
        BY <1>2 DEF GetNextReady, GetNextReadyAgain, Goto
      <4> QED
        BY <4>1, <4>2
    <3> QED
      BY <2>1, <3>1, <3>2, ThreadKinds DEF Execute, ResetGroup, Signal
  <2>4. \A o \in Threads : pc'[o] = "wait" => pc[o] = "wait"
    BY <2>3 DEF Types
  <2> QED
    BY <1>0, <2>1, <2>2, <2>3, <2>4, NoticeQuiet, CoveredQuiet
<1>3. CASE CollectIfNeeded(t)
  <2>1. /\ ~rebuild' /\ UNCHANGED <<trig, item, free>> /\ pc[t] = "collect"
        /\ \/ CollectEntities
           \/ ~rebuild /\ UNCHANGED <<collectorVars, waitVars>>
    BY <1>3 DEF CollectIfNeeded, entityVars
  <2>2. CASE CollectEntities
    <3>1. NoticeOK'
      BY <1>0, <2>1, <2>2 DEF NoticeOK, CollectEntities, ProcessQueues
    <3>2. ASSUME NoneLeaked, NEW e \in created, EntityNode(e) \in Members', e \notin collection'
          PROVE  mode' = "multi" /\ GroupOf[e] \in Exclusive /\ Held(GroupOf[e])'
      <4>1. ~free[GroupOf[e]] /\ GroupOf[e] \in Groups
        BY <1>0, <2>2, <3>2, ExecutorAssumption
           DEF CollectEntities, ProcessQueues, BuildEntitiesCollection, Members
      <4>2. GroupOf[e] \in Exclusive /\ Held(GroupOf[e])
        BY <3>2, <4>1 DEF ReservedOK, NoneLeaked
      <4>3. mode = "multi"
        BY <2>1, <4>2, ExecutorAssumption DEF ControlOK, Held, Working
      <4> QED
        BY <1>0, <2>1, <4>2, <4>3 DEF Held
    <3> QED
      BY <1>0, <3>1, <3>2 DEF Covered
  <2>3. CASE ~rebuild /\ UNCHANGED <<collectorVars, waitVars>>
    <3>1. NoticeOK'
      BY <1>0, <2>1, <2>3 DEF NoticeOK, InterruptComing, collectorVars, waitVars
    <3>2. Covered => Covered'
      BY <1>0, <2>1, <2>3, CoveredQuiet DEF collectorVars, waitVars
    <3> QED
      BY <3>1, <3>2
  <2> QED
    BY <2>1, <2>2, <2>3
<1>4. CASE Wait(t)
  <2>1. /\ UNCHANGED <<nodes, adding, removing, collection, gcs, item>> /\ pc[t] = "wait"
        /\ rebuild' = (rebuild \/ trig \cap gcs # {})
        /\ trig' = trig \ gcs
    BY <1>4 DEF Wait, collectorVars, waitVars
  <2>a. pc' = [pc EXCEPT ![t] = "check"] \/ pc' = [pc EXCEPT ![t] = "retry"]
    BY <1>4 DEF Wait, Goto
  <2>2. \A o \in Threads : pc'[o] # "wait"
    BY <2>1, <2>a, ExecutorAssumption DEF ControlOK, Locked, Types
  <2>3. CASE trig \cap gcs = {}
    <3>1. trig' = trig /\ (rebuild' <=> rebuild)
      BY <2>1, <2>3
    <3>2. NoticeOK'
      BY <1>0, <2>1, <2>2, <3>1 DEF NoticeOK, InterruptComing
    <3>3. Covered => Covered'
      BY <1>0, <2>1, <3>1 DEF Covered, WakeupComing, Members, Held
    <3> QED
      BY <3>2, <3>3
  <2>4. CASE trig \cap gcs # {}
    <3>1. rebuild'
      BY <2>1, <2>4
    <3> QED
      BY <1>0, <2>1, <2>2, <3>1 DEF NoticeOK, Covered
  <2> QED
    BY <2>3, <2>4
<1>5. CASE Signal(t)
  <2>1. /\ UNCHANGED <<nodes, adding, removing, collection, gcs, rebuild>>
        /\ pc[t] = "signal" /\ item' = [item EXCEPT ![t] = None]
    BY <1>5 DEF Signal, collectorVars, waitVars
  <2>a. trig \subseteq trig'
    BY <1>5 DEF Signal
  <2>b. pc' = [pc EXCEPT ![t] = "joined"] \/ pc' = [pc EXCEPT ![t] = "check"]
    BY <1>5 DEF Signal, Goto
  <2>2. \A o \in Threads : pc'[o] = "wait" => pc[o] = "wait"
    BY <2>b DEF Types
  <2>3. NoticeOK'
    BY <1>0, <2>1, <2>a, <2>2, NoticeQuiet
  <2>4. CASE mode = "multi" /\ GroupOf[item[t]] \in Exclusive
    <3>1. InterruptComing'
      BY <1>5, <2>4 DEF Signal, InterruptComing
    <3> QED
      BY <2>3, <3>1, CoveredByInterrupt
  <2>5. CASE mode # "multi" \/ GroupOf[item[t]] \notin Exclusive
    <3>1. WakeupComing => WakeupComing'
      BY <1>0, <2>1, <2>a DEF WakeupComing
    <3>2. ASSUME mode = "multi", NEW g \in Exclusive, Held(g) PROVE Held(g)'
      BY <2>1, <2>5, <3>2 DEF Held, Types
    <3>3. Covered => Covered'
      BY <1>0, <2>1, <3>1, <3>2 DEF Covered, Members
    <3> QED
      BY <2>3, <3>3
  <2> QED
    BY <2>4, <2>5
<1> QED
  BY <1>1, <1>2, <1>3, <1>4, <1>5 DEF ThreadStep

LEMMA NoticeUser ==
    ASSUME Types, NoticeOK, NEW u \in Users, UserContinues(u)
    PROVE  NoticeOK' /\ (Covered => Covered')
<1>0. UNCHANGED <<mode, pc, item>>
  BY OutsideSteps DEF threadVars
<1>1. CASE StoreRebuild(u) \/ TestSpinning(u) \/ Recollect(u)
  <2>1. /\ uarg' = uarg /\ uarg[u] = "interrupt" /\ trig' = trig
        /\ \E p \in {"test", "recollect", "trigger"} : upc' = [upc EXCEPT ![u] = p]
    BY <1>1 DEF StoreRebuild, TestSpinning, Recollect, NoticeOK
  <2>2. /\ upc'[u] \notin {"idle", "insert", "unlink"} /\ uarg'[u] = "interrupt"
        /\ \A o \in Users : upc'[o] # upc[o] => o = u
    BY <2>1 DEF Types
  <2>3. InterruptComing'
    BY <2>2 DEF InterruptComing
  <2>4. gcs' = {"interrupt", "shutdown"} \cup nodes'
    BY <1>1 DEF StoreRebuild, TestSpinning, Recollect, CollectEntities, NoticeOK, collectorVars,
       waitVars
  <2>5. NoticeOK'
    BY <2>1, <2>2, <2>3, <2>4 DEF NoticeOK
  <2> QED
    BY <2>3, <2>5, CoveredByInterrupt
<1>2. CASE Trigger(u)
  <2>1. /\ UNCHANGED <<nodes, adding, removing, created, collection, gcs, rebuild>>
        /\ trig' = trig \cup {uarg[u]}
        /\ upc' = [upc EXCEPT ![u] = "idle"] /\ uarg' = [uarg EXCEPT ![u] = None]
    BY <1>2 DEF Trigger, Continue, collectorVars, waitVars
  <2>2. \A o \in Users \ {u} : upc'[o] = upc[o] /\ uarg'[o] = uarg[o]
    BY <2>1 DEF Types
  <2>3. upc'[u] = "idle"
    BY <2>1 DEF Types
  <2>4. InterruptComing => InterruptComing'
    BY <2>1, <2>2 DEF InterruptComing
  <2>5. WakeupComing => WakeupComing'
    BY <2>1, <2>2 DEF WakeupComing
  <2>6. NoticeOK'
    BY <1>0, <2>1, <2>2, <2>3, <2>4 DEF NoticeOK
  <2>7. Covered => Covered'
    BY <1>0, <2>1, <2>5 DEF Covered, Members, Held
  <2> QED
    BY <2>6, <2>7
<1>3. CASE InsertNode(u)
  <2>1. upc[u] = "insert" /\ UNCHANGED <<rebuild, nodes, removing, created, gcs, collection, trig>>
    BY <1>3 DEF InsertNode, waitVars
  <2>2. CASE uarg[u] \in (nodes \cup adding) \ removing
    <3>1. Continue(u, "idle", None) /\ adding' = adding
      BY <1>3, <2>2 DEF InsertNode
    <3>2. \A o \in Users : /\ o # u => upc'[o] = upc[o] /\ uarg'[o] = uarg[o]
                           /\ o = u => upc'[o] = "idle"
      BY <3>1, ContinueFacts
    <3> QED
      BY <1>0, <2>1, <3>1, <3>2, NoticeQuiet, CoveredQuiet
  <2>3. CASE uarg[u] \notin (nodes \cup adding) \ removing
    <3>1. Continue(u, "store", "interrupt")
      BY <1>3, <2>3 DEF InsertNode
    <3>2. InterruptComing'
      BY <3>1, ContinueFacts DEF InterruptComing
    <3>3. NoticeOK'
      BY <1>0, <2>1, <3>1, <3>2, ContinueFacts DEF NoticeOK
    <3> QED
      BY <3>2, <3>3, CoveredByInterrupt
  <2> QED
    BY <2>2, <2>3
<1>4. CASE UnlinkNode(u)
  <2>1. /\ upc[u] = "unlink"
        /\ UNCHANGED <<rebuild, nodes, adding, created, gcs, collection, trig>>
        /\ removing \subseteq removing'
        /\ Continue(u, "idle", None) \/ Continue(u, "store", "interrupt")
    BY <1>4 DEF UnlinkNode, waitVars
  <2>2. /\ \A o \in Users \ {u} : upc'[o] = upc[o] /\ uarg'[o] = uarg[o]
        /\ upc'[u] # "idle" => uarg'[u] = "interrupt"
    BY <2>1, ContinueFacts
  <2>3. NoticeOK'
    BY <1>0, <2>1, <2>2, NoticeQuiet
  <2>4. WakeupComing => WakeupComing'
    BY <2>1, <2>2 DEF WakeupComing
  <2>5. Covered => Covered'
    BY <1>0, <2>1, <2>4 DEF Covered, Members, Held
  <2> QED
    BY <2>3, <2>5
<1> QED
  BY <1>1, <1>2, <1>3, <1>4 DEF UserContinues

LEMMA NoticeCalls ==
    ASSUME Types, NoticeOK, NEW u \in Users, UserCalls(u)
    PROVE  NoticeOK' /\ (Covered => Covered')
<1>0. UNCHANGED <<mode, pc, item>>
  BY OutsideSteps DEF threadVars
<1>1. ASSUME NEW n \in Nodes, AddNode(u, n) \/ RemoveNode(u, n)
      PROVE  NoticeOK' /\ (Covered => Covered')
  <2>1. /\ UNCHANGED <<rebuild, nodes, adding, removing, created, gcs, collection, trig>>
        /\ Begin(u, "insert", n) \/ Begin(u, "unlink", n)
    BY <1>1 DEF AddNode, RemoveNode, waitVars
  <2>2. /\ \A o \in Users : upc[o] # "idle" => upc'[o] = upc[o] /\ uarg'[o] = uarg[o]
        /\ \A o \in Users : upc[o] = "idle" => upc'[o] \in {"idle", "insert", "unlink"}
    BY <2>1, BeginFacts
  <2> QED
    BY <1>0, <2>1, <2>2, NoticeQuiet, CoveredQuiet
<1>2. CASE Cancel(u) \/ Shutdown(u)
  <2>1. /\ UNCHANGED <<rebuild, nodes, adding, removing, created, gcs, collection, trig>>
        /\ Begin(u, "trigger", "interrupt") \/ Begin(u, "trigger", "shutdown")
    BY <1>2 DEF Cancel, Shutdown, collectorVars, waitVars
  <2>2. /\ \A o \in Users : upc[o] # "idle" => upc'[o] = upc[o] /\ uarg'[o] = uarg[o]
        /\ \A o \in Users : upc[o] = "idle" => upc'[o] \in {"idle", "trigger"}
    BY <2>1, BeginFacts
  <2> QED
    BY <1>0, <2>1, <2>2, NoticeQuiet, CoveredQuiet
<1>3. ASSUME NEW e \in Entities, CreateEntity(u, e)
      PROVE  NoticeOK' /\ (Covered => Covered')
  <2>1. /\ UNCHANGED <<rebuild, nodes, adding, removing, gcs, collection, trig>>
        /\ created' = created \cup {e} /\ Begin(u, "trigger", EntityNode(e))
    BY <1>3 DEF CreateEntity, collectorVars, waitVars
  <2>2. /\ \A o \in Users : upc[o] # "idle" => upc'[o] = upc[o] /\ uarg'[o] = uarg[o]
        /\ \A o \in Users : upc[o] = "idle" => upc'[o] \in {"idle", "trigger"}
        /\ upc'[u] = "trigger" /\ uarg'[u] = EntityNode(e)
    BY <2>1, BeginFacts
  <2>3. NoticeOK'
    BY <1>0, <2>1, <2>2, NoticeQuiet
  <2>4. WakeupComing => WakeupComing'
    BY <2>1, <2>2 DEF WakeupComing
  <2>5. EntityNode(e) \in Members => rebuild \/ WakeupComing'
    <3>1. CASE EntityNode(e) \in nodes
      BY <2>1, <2>2, <3>1 DEF WakeupComing, NoticeOK
    <3>2. CASE EntityNode(e) \in adding
      BY <2>1, <2>3, <3>2, <2>4, InterruptIsWakeup DEF NoticeOK
    <3> QED
      BY <3>1, <3>2 DEF Members
  <2>6. Covered => Covered'
    BY <1>0, <2>1, <2>4, <2>5 DEF Covered, Members, Held
  <2> QED
    BY <2>3, <2>6
<1>4. ASSUME NEW e \in Entities, CancelTimer(u, e)
      PROVE  NoticeOK' /\ (Covered => Covered')
  BY <1>0, <1>4, NoticeQuiet, CoveredQuiet DEF CancelTimer, collectorVars, waitVars, userVars
<1> QED
  BY <1>1, <1>2, <1>3, <1>4 DEF UserCalls

LEMMA NoticeStep ==
    ASSUME Types, ControlOK, ReservedOK, NoticeOK, [Next]_vars
    PROVE  NoticeOK' /\ (NoneLeaked /\ Covered => Covered')
<1>1. ASSUME NEW m \in Modes, Spin(m) PROVE NoticeOK' /\ (Covered => Covered')
  <2>1. /\ UNCHANGED <<nodes, adding, removing, created, collection, gcs, trig, upc, uarg, item>>
        /\ mode = None /\ (rebuild => rebuild')
    BY <1>1 DEF Spin, collectorVars, waitVars, userVars
  <2>2. \A t \in Threads : pc'[t] # "wait"
    BY <1>1 DEF Spin
  <2>3. NoticeOK'
    BY <2>1, <2>2, <1>1 DEF NoticeOK, InterruptComing, Spin
  <2>4. mode # "multi"
    BY <2>1, ExecutorAssumption DEF AllModes
  <2>5. Covered => Covered'
    BY <1>1, <2>1, <2>4 DEF Covered, Members, WakeupComing, Spin
  <2> QED
    BY <2>3, <2>5
<1>2. CASE SpinReturns
  <2>1. /\ UNCHANGED <<nodes, adding, removing, created, collection, gcs, trig, upc, uarg, item,
                       rebuild>>
        /\ \A t \in Threads : pc[t] \in {"idle", "joined"} /\ pc'[t] = "idle"
    BY <1>2 DEF SpinReturns, collectorVars, waitVars, userVars
  <2>2. \A g : ~Held(g)
    BY <2>1 DEF ControlOK, Held, Working
  <2>3. NoticeOK'
    BY <2>1, NoticeQuiet
  <2>4. Covered => Covered'
    BY <2>1, <2>2 DEF Covered, Members, WakeupComing
  <2> QED
    BY <2>3, <2>4
<1>3. ASSUME NEW e \in Entities, Arrive(e) PROVE NoticeOK' /\ (Covered => Covered')
  <2>1. UNCHANGED <<mode, pc, item>>
    BY <1>3, OutsideSteps DEF threadVars
  <2> QED
    BY <1>3, <2>1, NoticeQuiet, CoveredQuiet DEF Arrive, collectorVars, waitVars, userVars
<1>4. CASE UNCHANGED vars
  BY <1>4, NoticeQuiet, CoveredQuiet DEF vars
<1> QED
  BY <1>1, <1>2, <1>3, <1>4, NoticeThread, NoticeUser, NoticeCalls DEF Next

(***************************************************************************)
(* The theorems                                                            *)
(***************************************************************************)
Inv ==
    /\ Types /\ ControlOK /\ ReservedOK /\ CountOK /\ ResultOK /\ FlagIsReleased /\ FirstSpinOK
    /\ NoticeOK
    /\ NoneLeaked => Covered

LEMMA InitInv == Init => Inv
BY InitTypes, InitReserved, InitCount, InitFlag, InitFirstSpin, InitNotice DEF Inv

LEMMA InvStep == Inv /\ [Next]_vars => Inv'
<1> SUFFICES ASSUME Inv, [Next]_vars PROVE Inv'
  OBVIOUS
<1>1. NoneLeaked' => NoneLeaked
  BY LeakStays DEF Inv, NoneLeaked
<1> QED
  BY <1>1, TypesStep, ControlStep, ReservedStep, CountStep, FlagStep, FirstSpinStep, NoticeStep
     DEF Inv

LEMMA InvHolds == Spec => []Inv
BY InitInv, InvStep, PTL DEF Spec

\* Two threads never work on one mutually exclusive callback group, in any spin
\* function, however many threads spin (get_next_ready_executable,
\* execute_any_executable, AnyExecutable).
THEOREM ExclusiveGroups == Spec => []MutualExclusion
<1>1. Inv => MutualExclusion
  <2> SUFFICES ASSUME Inv, NEW g \in Exclusive PROVE Cardinality(Holders(g)) <= 1
    BY DEF MutualExclusion
  <2>1. \A t, o \in Holders(g) : t = o
    BY DEF Inv, ReservedOK, Holders, Holds
  <2>2. Holders(g) = {} \/ \E t : Holders(g) = {t}
    BY <2>1
  <2> QED
    BY <2>2, FS_EmptySet, FS_Singleton, SMTT(30)
<1> QED
  BY <1>1, InvHolds, PTL

\* An expiration or a message is handed to at most one callback (timer->call()
\* and take_data() under wait_mutex_, the takes of the callbacks).
THEOREM HandedOutOnce == Spec => []NothingRunsTwice
<1>1. Inv => NothingRunsTwice
  <2> SUFFICES ASSUME Inv, NEW e \in Entities PROVE ran[e] + data[e] <= arrived[e]
    BY DEF NothingRunsTwice
  <2>1. Cardinality(Taken(e)) \in Nat /\ ran[e] + data[e] + Cardinality(Taken(e)) <= arrived[e]
    BY FS_CardinalityType DEF Inv, CountOK
  <2> QED
    BY <2>1, ExecutorAssumption DEF Inv, Types
<1> QED
  BY <1>1, InvHolds, PTL

\* A has_executor flag is never stuck, whatever nodes user threads add and
\* remove while the executor spins: process_queues() clears the flag of every
\* node that leaves, also of one whose flag an add_node() has set again, and a
\* node whose add_node() throws is in the executor already.
THEOREM FlagCorrect == Spec => []FlagIsReleased
<1>1. Inv => FlagIsReleased
  BY DEF Inv
<1> QED
  BY <1>1, InvHolds, PTL

LEMMA InvSleep == Inv /\ NoneLeaked => SleepMissesNothing
<1> SUFFICES ASSUME Inv, NoneLeaked, NEW t \in Threads, NEW e \in created,
                    pc[t] = "wait", EntityNode(e) \in Members
             PROVE  e \in collection \/ WakeupComing \/ Held(GroupOf[e])
  BY DEF SleepMissesNothing, Held
<1>1. rebuild => WakeupComing
  BY InterruptIsWakeup DEF Inv, NoticeOK
<1> QED
  BY <1>1 DEF Inv, Covered

\* No lost wake-up in any spin, as long as no executable was discarded with its
\* callback group still reserved: a leaked reservation is the only way for the
\* executor to sleep on work (wait_for_work, collect_entities,
\* trigger_entity_recollect, run).
THEOREM NoLostWakeup == Spec => [](NoneLeaked => SleepMissesNothing)
<1>1. Inv => (NoneLeaked => SleepMissesNothing)
  BY InvSleep
<1> QED
  BY <1>1, InvHolds, PTL

\* In the first spin there is no lost wake-up at all: only a cancel leaks a
\* reservation, and a canceled spin does not sleep again (Executor::cancel,
\* execute_any_executable).
THEOREM FirstSpinWakesUp == Spec => [](spins <= 1 => SleepMissesNothing)
<1>1. Inv => (spins <= 1 => SleepMissesNothing)
  <2> SUFFICES ASSUME Inv, spins <= 1 PROVE SleepMissesNothing
    OBVIOUS
  <2>1. CASE spinning
    <3>1. NoneLeaked
      BY <2>1, ExecutorAssumption DEF Inv, FirstSpinOK, NoneLeaked, Held, Holds, ControlOK, Working
    <3> QED
      BY <3>1, InvSleep
  <2>2. CASE ~spinning
    BY <2>2 DEF SleepMissesNothing
  <2> QED
    BY <2>1, <2>2
<1> QED
  BY <1>1, InvHolds, PTL

\* The flags stay Boolean.
Flags == spinning \in BOOLEAN /\ ok \in BOOLEAN /\ rebuild \in BOOLEAN /\ waited \in BOOLEAN

LEMMA FlagsStep == Flags /\ [Next]_vars => Flags'
<1> SUFFICES ASSUME Flags, [Next]_vars PROVE Flags'
  OBVIOUS
<1>1. ASSUME NEW m \in Modes, Spin(m) PROVE Flags'
  BY <1>1, Zenon DEF Flags, Spin
<1>2. CASE SpinReturns
  BY <1>2, Zenon DEF Flags, SpinReturns
<1>3. ASSUME NEW t \in Threads, ThreadStep(t) PROVE Flags'
  <2>1. CASE EnterLoop(t) \/ LeaveLoop(t) \/ Execute(t) \/ ResetGroup(t) \/ Signal(t)
    BY <2>1, Zenon DEF Flags, EnterLoop, LeaveLoop, Execute, ResetGroup, Signal
  <2>2. CASE GetNextReady(t)
    BY <2>2, Zenon DEF Flags, GetNextReady
  <2>3. CASE CollectIfNeeded(t)
    BY <2>3, Zenon DEF Flags, CollectIfNeeded
  <2>4. CASE Wait(t)
    BY <2>4, Zenon DEF Flags, Wait
  <2>5. CASE GetNextReadyAgain(t)
    BY <2>5, Zenon DEF Flags, GetNextReadyAgain
  <2> QED
    BY <1>3, <2>1, <2>2, <2>3, <2>4, <2>5, Zenon DEF ThreadStep
<1>4. ASSUME NEW u \in Users, UserContinues(u) PROVE Flags'
  BY <1>4, Zenon DEF Flags, UserContinues, InsertNode, UnlinkNode, StoreRebuild, TestSpinning,
     Recollect, Trigger, threadVars
<1>5. ASSUME NEW u \in Users, UserCalls(u) PROVE Flags'
  BY <1>5, ZenonT(40) DEF Flags, UserCalls, AddNode, RemoveNode, Cancel, Shutdown, CreateEntity,
     CancelTimer, threadVars
<1>6. ASSUME NEW e \in Entities, Arrive(e) PROVE Flags'
  BY <1>6, Zenon DEF Flags, Arrive, threadVars
<1>7. CASE UNCHANGED vars
  BY <1>7, Zenon DEF Flags, vars
<1> QED
  BY <1>1, <1>2, <1>3, <1>4, <1>5, <1>6, <1>7, Zenon DEF Next

\* The variables keep their types, whatever the threads of the executor and of
\* the user do; entities hold at most as much data as has arrived (Executor,
\* ExecutorEntitiesCollector).
THEOREM TypeCorrect == Spec => []TypeOK
<1>1. Init => Flags
  BY Zenon DEF Init, Flags
<1>2. Flags /\ Inv => TypeOK
  <2> SUFFICES ASSUME Flags, Inv PROVE TypeOK
    OBVIOUS
  <2>1. ASSUME NEW e \in Entities PROVE data[e] \in 0..MaxData
    <3>1. /\ Cardinality(Taken(e)) \in Nat
          /\ ran[e] + data[e] + Cardinality(Taken(e)) <= arrived[e]
      BY FS_CardinalityType DEF Inv, CountOK
    <3> QED
      BY <3>1, ExecutorAssumption DEF Inv, Types
  <2>2. data \in [Entities -> 0..MaxData]
    BY <2>1 DEF Inv, Types
  <2> QED
    BY <2>2 DEF Inv, Types, TypeOK, Flags
<1> QED
  BY <1>1, <1>2, FlagsStep, InvHolds, PTL DEF Spec
=============================================================================
