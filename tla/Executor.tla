------------------------------ MODULE Executor ------------------------------
(***************************************************************************)
(* The executors of rclcpp: Executor (executor.cpp), MultiThreadedExecutor *)
(* and SingleThreadedExecutor, with the entities collector, the notify     *)
(* waitable, the wait result and the callback groups they share.           *)
(*                                                                         *)
(* One spin runs at a time, in one of the modes "multi" (several threads   *)
(* under wait_mutex_), "single", "once", "some" and "all".  User threads   *)
(* add and remove nodes, create entities, cancel the executor and shut the *)
(* context down.  Entities are timers, takeables (subscriptions, services  *)
(* and clients, whose data is taken when the callback runs) and waitables  *)
(* (whose data is taken under the lock).                                   *)
(***************************************************************************)
EXTENDS Naturals, FiniteSets

CONSTANTS
    Threads,      \* the threads of a multi-threaded spin
    Main,         \* the thread that calls spin, one of Threads
    Users,        \* user threads
    Nodes, Groups, Entities,
    NodeOf,       \* the node of a group
    GroupOf,      \* the callback group of an entity
    Exclusive,    \* the mutually exclusive groups
    Timers, Waitables,    \* entities; the others are takeables
    Modes,        \* the spin functions called
    Initial,      \* the nodes added before the first spin
    Existing,     \* the entities that exist from the start
    MaxData,      \* expirations of a timer, or messages for another entity
    MaxOps,       \* operations of user threads
    MaxSpins,     \* calls of a spin function
    None

AllModes == {"multi", "single", "once", "some", "all"}

ASSUME ExecutorAssumption ==
    /\ Main \in Threads
    /\ Initial \subseteq Nodes
    /\ NodeOf \in [Groups -> Nodes]
    /\ GroupOf \in [Entities -> Groups]
    /\ Exclusive \subseteq Groups
    /\ Timers \subseteq Entities /\ Waitables \subseteq Entities
    /\ Timers \cap Waitables = {}
    /\ Existing \subseteq Entities
    /\ Modes \subseteq AllModes
    /\ MaxData \in Nat /\ MaxOps \in Nat /\ MaxSpins \in Nat
    /\ None \notin Threads \cup Entities \cup Nodes \cup AllModes
    /\ {"interrupt", "shutdown"} \cap Nodes = {}

VARIABLES
    mode,         \* the spin function that runs, or None
    spinning, ok, \* Executor::spinning; rclcpp::ok(context_)
    rebuild,      \* entities_need_rebuild_
    nodes,        \* weak_nodes_ of the collector
    adding, removing,     \* pending_added_nodes_, pending_removed_nodes_
    associated,   \* the nodes whose has_executor flag is set
    created,      \* the entities that are in their callback group
    gcs,          \* guard conditions of current_notify_waitable_
    trig,         \* guard conditions that are triggered
    collection,   \* current_collection_ and the wait set built from it
    result,       \* what is left of wait_result_
    free,         \* can_be_taken_from() of each group
    data,         \* expirations and messages not taken yet
    canceled,     \* canceled timers
    ran,          \* callbacks that were given work, per entity
    mutex,        \* the holder of wait_mutex_, or None
    pc, item,     \* per thread: where it is, and its AnyExecutable
    waited,       \* just_waited of spin_some_impl
    upc, uarg,    \* per user thread: where it is, its node or the guard condition to trigger
    arrived, ops, spins   \* bounds: data so far per entity, user operations, spins

collectorVars == <<nodes, adding, removing, associated>>
waitVars == <<gcs, collection>>
threadVars == <<mode, mutex, pc, item, waited>>
userVars == <<upc, uarg>>
boundVars == <<arrived, ops, spins>>
entityVars == <<data, canceled, ran>>
vars == <<mode, spinning, ok, rebuild, nodes, adding, removing, associated, created,
          gcs, trig, collection, result, free, data, canceled, ran, mutex, pc, item, waited,
          upc, uarg, arrived, ops, spins>>

GuardConditions == {"interrupt", "shutdown"} \cup Nodes

EntityNode(e) == NodeOf[GroupOf[e]]

Takeables == Entities \ (Timers \cup Waitables)

TypeOK ==
    /\ mode \in AllModes \cup {None}
    /\ spinning \in BOOLEAN /\ ok \in BOOLEAN /\ rebuild \in BOOLEAN /\ waited \in BOOLEAN
    /\ nodes \subseteq Nodes /\ adding \subseteq Nodes /\ removing \subseteq Nodes
    /\ associated \subseteq Nodes
    /\ created \subseteq Entities /\ collection \subseteq Entities
    /\ result \subseteq collection
    /\ gcs \subseteq GuardConditions /\ trig \subseteq GuardConditions
    /\ free \in [Groups -> BOOLEAN]
    /\ data \in [Entities -> 0..MaxData]
    /\ canceled \subseteq Timers
    /\ ran \in [Entities -> Nat]
    /\ mutex \in Threads \cup {None}
    /\ pc \in [Threads -> {"idle", "check", "next", "collect", "wait", "retry",
                           "exec", "callback", "signal", "joined"}]
    /\ item \in [Threads -> Entities \cup {None}]
    /\ upc \in [Users -> {"idle", "insert", "unlink", "store", "test", "recollect", "trigger"}]
    /\ uarg \in [Users -> GuardConditions \cup {None}]

Init ==
    /\ mode = None /\ spinning = FALSE /\ ok = TRUE /\ rebuild = TRUE
    /\ nodes = {} /\ adding = Initial /\ removing = {} /\ associated = Initial
    /\ created = Existing
    /\ gcs = {"interrupt", "shutdown"} /\ trig = {}
    /\ collection = {} /\ result = {}
    /\ free = [g \in Groups |-> TRUE]
    /\ data = [e \in Entities |-> 0] /\ canceled = {} /\ ran = [e \in Entities |-> 0]
    /\ mutex = None
    /\ pc = [t \in Threads |-> "idle"] /\ item = [t \in Threads |-> None]
    /\ waited = FALSE
    /\ upc = [u \in Users |-> "idle"] /\ uarg = [u \in Users |-> None]
    /\ arrived = [e \in Entities |-> 0] /\ ops = 0 /\ spins = 0

Goto(t, place) == pc' = [pc EXCEPT ![t] = place]

(***************************************************************************)
(* Collecting entities                                                     *)
(***************************************************************************)
\* Mutant: a removed node keeps its has_executor flag.
ProcessKeepingFlags ==
    /\ nodes' = (nodes \cup adding) \ removing
    /\ adding' = {} /\ removing' = {}
    /\ UNCHANGED associated

\* process_queues(): additions first, then removals; a removed node and its
\* groups lose their has_executor flag.
ProcessQueues ==
    /\ nodes' = (nodes \cup adding) \ removing
    /\ associated' = associated \ removing
    /\ adding' = {} /\ removing' = {}

\* build_entities_collection(): entities of groups that can be taken from.
BuildEntitiesCollection(ns) == {e \in created : EntityNode(e) \in ns /\ free[GroupOf[e]]}

\* collect_entities(): expires the result, updates the collector, copies the
\* notify waitable and rebuilds the collection and with it the wait set.
CollectEntities ==
    /\ ProcessQueues
    /\ gcs' = {"interrupt", "shutdown"} \cup nodes'
    /\ collection' = BuildEntitiesCollection(nodes')
    /\ result' = {}

(***************************************************************************)
(* The spin functions                                                      *)
(***************************************************************************)
\* spin(), spin_once(), spin_some() and spin_all() up to their loops.
Spin(m) ==
    /\ spins < MaxSpins
    /\ mode = None /\ ~spinning
    /\ mode' = m
    /\ spinning' = TRUE
    /\ pc' = [t \in Threads |->
                CASE m = "multi" \/ (m = "single" /\ t = Main) -> "check"
                  [] m = "once" /\ t = Main -> "next"
                  [] m \in {"some", "all"} /\ t = Main -> "collect"
                  [] OTHER -> "idle"]
    /\ result' = IF m \in {"single", "some", "all"} THEN {} ELSE result
    /\ rebuild' = (rebuild \/ m = "single")
    /\ waited' = TRUE
    /\ spins' = spins + 1
    /\ UNCHANGED <<ok, collectorVars, created, waitVars, trig, free, entityVars, mutex, item,
                   userVars, arrived, ops>>

\* The head of the loop of run(), spin() and spin_some_impl().  run() takes
\* wait_mutex_ and tests again, so that one test with the mutex decides.
EnterLoop(t) ==
    /\ pc[t] = "check"
    /\ ok /\ spinning
    /\ mutex = None
    /\ mutex' = IF mode = "multi" THEN t ELSE None
    /\ Goto(t, "next")
    /\ UNCHANGED <<mode, spinning, ok, rebuild, collectorVars, created, waitVars, trig, result,
                   free, entityVars, item, waited, userVars, boundVars>>

\* With a maximum duration, spin_some_impl() may leave its loop at any time.
LeaveLoop(t) ==
    /\ pc[t] = "check"
    /\ ~ok \/ ~spinning \/ mode \in {"some", "all"}
    /\ Goto(t, "joined")
    /\ UNCHANGED <<mode, spinning, ok, rebuild, collectorVars, created, waitVars, trig, result,
                   free, entityVars, mutex, item, waited, userVars, boundVars>>

\* The scope exit of a spin function, after the threads are joined.
SpinReturns ==
    /\ mode # None
    /\ \A t \in Threads : pc[t] \in {"idle", "joined"}
    /\ spinning' = FALSE
    /\ mode' = None
    /\ pc' = [t \in Threads |-> "idle"]
    /\ UNCHANGED <<ok, rebuild, collectorVars, created, waitVars, trig, result, free,
                   entityVars, mutex, item, waited, userVars, boundVars>>

(***************************************************************************)
(* get_next_ready_executable()                                             *)
(***************************************************************************)
CanBeTakenFrom(e) == free[GroupOf[e]]

\* Timers in the result whose group is free: call() says whether they are
\* canceled, and in either case they leave the result.
TakeableTimers == {e \in result \cap Timers : CanBeTakenFrom(e)}

\* Timers whose group is busy stay in the result.
BusyTimers == {e \in result \cap Timers : ~CanBeTakenFrom(e)}

\* Takeables whose group is free; the busy ones that are passed over are lost
\* from this result.
ReadyTakeables == {e \in result \cap Takeables : CanBeTakenFrom(e)}

\* Waitables are asked for data only when they are visited.
ReadyWaitables == {e \in result \cap Waitables : data[e] > 0 /\ CanBeTakenFrom(e)}

\* What can be selected, and what is left of the result: timers before
\* takeables before waitables.  The order within a kind is that of the wait
\* set, so any entity that is not eligible may have been passed over.
Selections ==
    LET live == TakeableTimers \ canceled
    IN  IF live # {}
        THEN {[e |-> e, left |-> result \ ({e} \cup passed)] :
                e \in live, passed \in SUBSET (TakeableTimers \cap canceled)}
        ELSE IF ReadyTakeables # {}
        THEN {[e |-> e, left |-> (BusyTimers \cup (result \ Timers)) \ ({e} \cup passed)] :
                e \in ReadyTakeables,
                passed \in SUBSET ((result \cap Takeables) \ ReadyTakeables)}
        ELSE {[e |-> e, left |-> (BusyTimers \cup (result \cap Waitables)) \ ({e} \cup passed)] :
                e \in ReadyWaitables,
                passed \in SUBSET ((result \cap Waitables) \ ReadyWaitables)}

\* Mutant: the callback group is not marked as taken.
ReserveNothing(e) == UNCHANGED free

\* A mutually exclusive group is reserved for the executable.
Reserve(e) ==
    free' = IF GroupOf[e] \in Exclusive THEN [free EXCEPT ![GroupOf[e]] = FALSE] ELSE free

\* Mutant: the timer is called when its callback runs.
TakeWaitablesOnly(e) ==
    data' = IF e \in Waitables /\ data[e] > 0 THEN [data EXCEPT ![e] = @ - 1] ELSE data

\* timer->call() and waitable->take_data() happen here; messages, requests and
\* responses are taken by the callback step.
TakeUnderLock(e) ==
    data' = IF e \in Timers \cup Waitables /\ data[e] > 0
            THEN [data EXCEPT ![e] = @ - 1] ELSE data

Select(t, s) ==
    /\ result' = s.left
    /\ item' = [item EXCEPT ![t] = s.e]
    /\ Reserve(s.e)
    /\ TakeUnderLock(s.e)

\* The first attempt, on what an earlier wait left over.
GetNextReady(t) ==
    /\ pc[t] = "next"
    /\ \/ \E s \in Selections :
            /\ Select(t, s)
            /\ mutex' = None
            /\ waited' = (mode \notin {"some", "all"})
            /\ Goto(t, "exec")
       \/ /\ Selections = {}
          /\ result' = IF mode \in {"some", "all"} THEN {} ELSE BusyTimers
          /\ Goto(t, IF mode = "some" \/ (mode = "all" /\ waited) THEN "joined" ELSE "collect")
          /\ waited' = TRUE
          /\ UNCHANGED <<free, item, data, mutex>>
    /\ UNCHANGED <<mode, spinning, ok, rebuild, collectorVars, created, waitVars, trig,
                   canceled, ran, userVars, boundVars>>

(***************************************************************************)
(* wait_for_work()                                                         *)
(***************************************************************************)
\* Reset the result and rebuild the collection when asked to, under mutex_.
CollectIfNeeded(t) ==
    /\ pc[t] = "collect"
    /\ Goto(t, "wait")
    /\ rebuild' = FALSE
    /\ IF rebuild \/ collection = {}
       THEN CollectEntities
       ELSE result' = {} /\ UNCHANGED <<collectorVars, waitVars>>
    /\ UNCHANGED <<mode, spinning, ok, created, trig, free, entityVars, mutex, item, waited,
                   userVars, boundVars>>

\* What rcl_wait finds ready in the wait set.
Ready(e) == data[e] > 0 /\ e \notin canceled

ReadyNow == {e \in collection : Ready(e)}

\* wait_set_.wait(): sleeps until an entity is ready or a guard condition is
\* triggered; the triggered ones are consumed, and the notify waitable asks
\* for a rebuild.  spin_once, spin_some and spin_all may time out.
Wait(t) ==
    /\ pc[t] = "wait"
    /\ \/ ReadyNow # {} \/ trig \cap gcs # {}
       \/ mode \in {"once", "some", "all"}
    /\ result' = IF ReadyNow # {} \/ trig \cap gcs # {}
                 THEN ReadyNow \cup (collection \cap Waitables) ELSE {}
    /\ rebuild' = (rebuild \/ trig \cap gcs # {})
    /\ trig' = trig \ gcs
    /\ Goto(t, IF mode \in {"some", "all"} THEN "check" ELSE "retry")
    /\ UNCHANGED <<mode, spinning, ok, collectorVars, created, waitVars, free, entityVars,
                   mutex, item, waited, userVars, boundVars>>

\* The second attempt, after waiting.
GetNextReadyAgain(t) ==
    /\ pc[t] = "retry"
    /\ mutex' = None
    /\ \/ \E s \in Selections :
            /\ spinning
            /\ Select(t, s)
            /\ Goto(t, "exec")
       \/ /\ ~spinning
          /\ UNCHANGED <<result, item, free, data>>
          /\ Goto(t, IF mode = "once" THEN "joined" ELSE "check")
       \/ /\ spinning /\ Selections = {}
          /\ result' = BusyTimers
          /\ UNCHANGED <<item, free, data>>
          /\ Goto(t, IF mode = "once" THEN "joined" ELSE "check")
    /\ UNCHANGED <<mode, spinning, ok, rebuild, collectorVars, created, waitVars, trig,
                   canceled, ran, waited, userVars, boundVars>>

(***************************************************************************)
(* execute_any_executable() and what follows it in run()                   *)
(***************************************************************************)
\* A canceled executor does not execute what it has taken.  Otherwise the
\* callback begins; a takeable takes its data first, and finds nothing if
\* another thread was faster.
Execute(t) ==
    LET runs == spinning /\ (item[t] \in Takeables => data[item[t]] > 0)
    IN  /\ pc[t] = "exec"
        /\ Goto(t, IF spinning THEN "callback" ELSE "signal")
        /\ data' = IF runs /\ item[t] \in Takeables
                   THEN [data EXCEPT ![item[t]] = @ - 1] ELSE data
        /\ ran' = IF runs THEN [ran EXCEPT ![item[t]] = @ + 1] ELSE ran
        /\ UNCHANGED <<mode, spinning, ok, rebuild, collectorVars, created, waitVars, trig,
                       result, free, canceled, mutex, item, waited, userVars, boundVars>>

\* The callback returns, and the group can be taken from again.
ResetGroup(t) ==
    /\ pc[t] = "callback"
    /\ Goto(t, "signal")
    /\ free' = [free EXCEPT ![GroupOf[item[t]]] = TRUE]
    /\ UNCHANGED <<mode, spinning, ok, rebuild, collectorVars, created, waitVars, trig, result,
                   entityVars, mutex, item, waited, userVars, boundVars>>

\* Mutant: run() does not interrupt the wait after a callback.
NoSignal(t) ==
    /\ pc[t] = "signal"
    /\ item' = [item EXCEPT ![t] = None]
    /\ Goto(t, IF mode = "once" THEN "joined" ELSE "check")
    /\ free' = IF mode = "multi" THEN free ELSE [free EXCEPT ![GroupOf[item[t]]] = TRUE]
    /\ UNCHANGED <<mode, spinning, ok, rebuild, collectorVars, created, waitVars, trig, result,
                   entityVars, mutex, waited, userVars, boundVars>>

\* run() interrupts the wait of another thread, so that the entities of the
\* group are collected again, and drops its reference to the group.  In the
\* other spin functions the destructor of AnyExecutable resets the group.
Signal(t) ==
    /\ pc[t] = "signal"
    /\ item' = [item EXCEPT ![t] = None]
    /\ Goto(t, IF mode = "once" THEN "joined" ELSE "check")
    /\ trig' = IF mode = "multi" /\ GroupOf[item[t]] \in Exclusive
               THEN trig \cup {"interrupt"} ELSE trig
    /\ free' = IF mode = "multi" THEN free ELSE [free EXCEPT ![GroupOf[item[t]]] = TRUE]
    /\ UNCHANGED <<mode, spinning, ok, rebuild, collectorVars, created, waitVars, result,
                   entityVars, mutex, waited, userVars, boundVars>>

(***************************************************************************)
(* User threads                                                            *)
(***************************************************************************)
\* A user thread goes on at place, with its node or guard condition.
Continue(u, place, arg) ==
    /\ upc' = [upc EXCEPT ![u] = place]
    /\ uarg' = [uarg EXCEPT ![u] = arg]

\* An operation of an idle user thread.
Begin(u, place, arg) ==
    /\ upc[u] = "idle"
    /\ ops < MaxOps
    /\ ops' = ops + 1
    /\ Continue(u, place, arg)

\* Executor::add_node(): the collector exchanges the node's has_executor flag, ...
AddNode(u, n) ==
    /\ n \notin associated
    /\ associated' = associated \cup {n}
    /\ Begin(u, "insert", n)
    /\ UNCHANGED <<spinning, ok, rebuild, nodes, adding, removing, created, waitVars, trig, result,
                   free, entityVars, threadVars, arrived, spins>>

\* ... and then takes its mutex to queue the node.  It throws if the node is its
\* own already, and the flag stays exchanged.
InsertNode(u) ==
    LET throws == uarg[u] \in (nodes \cup adding) \ removing
    IN  /\ upc[u] = "insert"
        /\ IF throws THEN Continue(u, "idle", None) ELSE Continue(u, "store", "interrupt")
        /\ adding' = IF throws THEN adding ELSE adding \cup {uarg[u]}
        /\ UNCHANGED <<spinning, ok, rebuild, nodes, removing, associated, created, waitVars, trig,
                       result, free, entityVars, threadVars, boundVars>>

\* Executor::remove_node(), in the same two steps.
RemoveNode(u, n) ==
    /\ n \in associated
    /\ associated' = associated \ {n}
    /\ Begin(u, "unlink", n)
    /\ UNCHANGED <<spinning, ok, rebuild, nodes, adding, removing, created, waitVars, trig, result,
                   free, entityVars, threadVars, arrived, spins>>

UnlinkNode(u) ==
    LET throws == uarg[u] \notin nodes \cup adding \/ uarg[u] \in removing
    IN  /\ upc[u] = "unlink"
        /\ IF throws THEN Continue(u, "idle", None) ELSE Continue(u, "store", "interrupt")
        /\ removing' = IF throws THEN removing ELSE removing \cup {uarg[u]}
        /\ UNCHANGED <<spinning, ok, rebuild, nodes, adding, associated, created, waitVars, trig,
                       result, free, entityVars, threadVars, boundVars>>

\* trigger_entity_recollect(): ask for a rebuild, ...
StoreRebuild(u) ==
    /\ upc[u] = "store"
    /\ rebuild' = TRUE
    /\ upc' = [upc EXCEPT ![u] = "test"]
    /\ UNCHANGED <<spinning, ok, collectorVars, created, waitVars, trig, result, free,
                   entityVars, threadVars, uarg, boundVars>>

\* ... unless somebody spins, claim it ...
TestSpinning(u) ==
    /\ upc[u] = "test"
    /\ IF ~spinning /\ rebuild
       THEN rebuild' = FALSE /\ upc' = [upc EXCEPT ![u] = "recollect"]
       ELSE UNCHANGED rebuild /\ upc' = [upc EXCEPT ![u] = "trigger"]
    /\ UNCHANGED <<spinning, ok, collectorVars, created, waitVars, trig, result, free,
                   entityVars, threadVars, uarg, boundVars>>

\* ... and collect here, under mutex_.
Recollect(u) ==
    /\ upc[u] = "recollect"
    /\ CollectEntities
    /\ upc' = [upc EXCEPT ![u] = "trigger"]
    /\ UNCHANGED <<spinning, ok, rebuild, created, trig, free, entityVars, threadVars, uarg,
                   boundVars>>

\* The guard condition of the operation is triggered.
Trigger(u) ==
    /\ upc[u] = "trigger"
    /\ trig' = trig \cup {uarg[u]}
    /\ Continue(u, "idle", None)
    /\ UNCHANGED <<spinning, ok, rebuild, collectorVars, created, waitVars, result, free,
                   entityVars, threadVars, boundVars>>

\* Mutant: cancel() does not interrupt the wait.
CancelQuietly(u) ==
    /\ upc[u] = "idle" /\ ops < MaxOps
    /\ ops' = ops + 1
    /\ spinning' = FALSE
    /\ UNCHANGED <<ok, rebuild, collectorVars, created, waitVars, trig, result, free,
                   entityVars, threadVars, userVars, arrived, spins>>

\* Executor::cancel().
Cancel(u) ==
    /\ Begin(u, "trigger", "interrupt")
    /\ spinning' = FALSE
    /\ UNCHANGED <<ok, rebuild, collectorVars, created, waitVars, trig, result, free,
                   entityVars, threadVars, arrived, spins>>

\* Context::shutdown(): rcl_shutdown(), then the on-shutdown callbacks, one of
\* which the executor registered.
Shutdown(u) ==
    /\ Begin(u, "trigger", "shutdown")
    /\ ok
    /\ ok' = FALSE
    /\ UNCHANGED <<spinning, rebuild, collectorVars, created, waitVars, trig, result, free,
                   entityVars, threadVars, arrived, spins>>

\* NodeTopics::add_subscription() and its like: into the callback group first,
\* then the guard conditions of the node and of the group.
CreateEntity(u, e) ==
    /\ Begin(u, "trigger", EntityNode(e))
    /\ e \notin created
    /\ created' = created \cup {e}
    /\ UNCHANGED <<spinning, ok, rebuild, collectorVars, waitVars, trig, result, free,
                   entityVars, threadVars, arrived, spins>>

\* rcl_timer_cancel().
CancelTimer(u, e) ==
    /\ upc[u] = "idle" /\ ops < MaxOps
    /\ e \in (Timers \cap created) \ canceled
    /\ canceled' = canceled \cup {e}
    /\ ops' = ops + 1
    /\ UNCHANGED <<spinning, ok, rebuild, collectorVars, created, waitVars, trig, result, free,
                   data, ran, threadVars, userVars, arrived, spins>>

\* A timer expires, a message arrives.
Arrive(e) ==
    /\ e \in created
    /\ arrived[e] < MaxData
    /\ e \in Timers => data[e] = 0
    /\ arrived' = [arrived EXCEPT ![e] = @ + 1]
    /\ data' = [data EXCEPT ![e] = @ + 1]
    /\ UNCHANGED <<spinning, ok, rebuild, collectorVars, created, waitVars, trig, result, free,
                   canceled, ran, threadVars, userVars, ops, spins>>

ThreadStep(t) ==
    \/ EnterLoop(t) \/ LeaveLoop(t) \/ GetNextReady(t) \/ CollectIfNeeded(t) \/ Wait(t)
    \/ GetNextReadyAgain(t) \/ Execute(t) \/ ResetGroup(t) \/ Signal(t)

UserContinues(u) ==
    \/ InsertNode(u) \/ UnlinkNode(u)
    \/ StoreRebuild(u) \/ TestSpinning(u) \/ Recollect(u) \/ Trigger(u)

UserCalls(u) ==
    \/ \E n \in Nodes : AddNode(u, n) \/ RemoveNode(u, n)
    \/ Cancel(u) \/ Shutdown(u)
    \/ \E e \in Entities : CreateEntity(u, e) \/ CancelTimer(u, e)

Next ==
    \/ \E m \in Modes : Spin(m)
    \/ SpinReturns
    \/ \E t \in Threads : ThreadStep(t)
    \/ \E u \in Users : UserContinues(u) \/ UserCalls(u)
    \/ \E e \in Entities : Arrive(e)

Spec == Init /\ [][Next]_vars

\* Threads run and callbacks return, what a user thread began it finishes.
Fairness ==
    /\ \A t \in Threads : WF_vars(ThreadStep(t))
    /\ WF_vars(SpinReturns)
    /\ \A u \in Users : WF_vars(UserContinues(u))

FairSpec == Spec /\ Fairness

(***************************************************************************)
(* Properties                                                              *)
(***************************************************************************)
\* Threads that have reserved the group of their executable.
Holders(g) ==
    {t \in Threads : item[t] # None /\ pc[t] \in {"exec", "callback"}
                     /\ GroupOf[item[t]] = g}

\* Two threads never work on the same mutually exclusive group: between taking
\* an executable and resetting its group nobody else takes from the group
\* (get_next_ready_executable, execute_any_executable).
MutualExclusion == \A g \in Exclusive : Cardinality(Holders(g)) <= 1

\* The nodes the executor works for.
Members == (nodes \cup adding) \ removing

\* Somebody is going to trigger a guard condition the sleeping thread waits on.
WakeupComing ==
    \/ trig \cap gcs # {}
    \/ \E u \in Users : upc[u] \notin {"idle", "insert", "unlink"} /\ uarg[u] \in gcs

\* No lost wake-up: when a thread sleeps in wait_for_work, an entity of a node
\* of the executor that has work is in the wait set, or its group is taken by a
\* thread that will interrupt the wait, or a trigger is on its way
\* (collect_entities, trigger_entity_recollect, run, NodeTopics).
SleepMissesNothing ==
    \A t \in Threads, e \in created :
        (spinning /\ pc[t] = "wait" /\ Ready(e) /\ EntityNode(e) \in Members) =>
            \/ e \in collection
            \/ WakeupComing
            \/ \E o \in Threads : item[o] # None /\ GroupOf[item[o]] = GroupOf[e]

\* Nothing runs twice: an expiration or a message is handed to one callback,
\* whatever threads take from whatever wait results (timer->call() and
\* take_data() under wait_mutex_, clear_timer_with_index, failed takes).
NothingRunsTwice == \A e \in Entities : ran[e] + data[e] <= arrived[e]

\* Work of an entity whose node the executor has is taken, unless the executor
\* is canceled, the context shut down or the node removed.
WorkIsServed ==
    \A e \in Entities :
        (e \in created /\ Ready(e) /\ spinning /\ mode \in {"multi", "single"}
           /\ EntityNode(e) \in Members)
        ~> (~Ready(e) \/ ~spinning \/ ~ok \/ EntityNode(e) \notin Members)

\* cancel() and shutdown end a spin, whatever its threads are doing: nobody
\* stays asleep in the wait set or at wait_mutex_.
SpinEnds == (mode # None /\ (~spinning \/ ~ok)) ~> (mode = None)

\* A flag is never stuck: a node that has it set is in the executor, or queued
\* for it, or about to be queued, however calls of add_node() and remove_node()
\* overlap with each other and with process_queues().  A node that has left the
\* executor can be added again.
FlagIsReleased ==
    associated \subseteq nodes \cup adding \cup {uarg[u] : u \in {v \in Users : upc[v] = "insert"}}

\* node_base_interface.hpp: "Return the atomic bool which is used to ensure only
\* one executor is used."  While no call of add_node() or remove_node() is
\* between its two steps, a node of this executor has the flag set, so that
\* another executor refuses it.
FlagGuardsMembers ==
    (\A u \in Users : upc[u] \notin {"insert", "unlink"}) => Members \subseteq associated

\* any_executable.cpp: "Make sure that discarded (taken but not executed)
\* AnyExecutable's have their callback groups reset.  This can happen when an
\* executor is canceled between taking an AnyExecutable and executing it."
DiscardedGroupIsReset == mode = None => \A g \in Groups : free[g]
=============================================================================
