# TLA+ models of the ROS 2 run-time core

`src/` is a ROS 2 Jazzy workspace: the client libraries (`rcl`, `rclcpp`, `rclcpp_action`, `rclcpp_lifecycle`, `rclpy`), the middleware interface (`rmw*`), tools (`rosbag2`, `launch`, `ros2cli`, `rviz`) and vendored DDS implementations, about 16 800 files. This project models the part every ROS 2 program runs on and that is hardest to test: timers and clocks, waiting and executing, actions from both ends, managed nodes, intra-process topics and the recording of bags. It contains TLA+ modules translated from the C and C++ source, TLC configurations for small instances, and proofs checked by TLAPS for every instance. All source paths below are relative to `src/ros2/`.

## 1. Inventory

| component | state | operations | hard behaviour | what makes it correct |
|---|---|---|---|---|
| goal state machine, `rcl/rcl_action/src/rcl_action/goal_state_machine.c` | the state of a goal handle | five events | an event in the wrong state | terminal states are final; only a running goal succeeds |
| rcl timer, `rcl/rcl/src/rcl/timer.c` | period, last and next call time, time credit, canceled flag | init, call, cancel, reset, exchange period, jump callbacks | missed periods, jumps in both directions, a change of the time source | calls stay on the grid, no silence, no double call |
| ROS clock, `rcl/rcl/src/rcl/time.c` | override flag and overridden time, jump callbacks | set, enable and disable the override | callbacks before and after a change, concurrently with waiting | every callback sees the clock it is told about |
| wait set, `rcl/rcl/src/rcl/wait.c` | entities, timeout | fill, wait, mark | the timeout is computed before the clock jumps or the timer is reset | no lost wake-up |
| executors, `rclcpp/rclcpp/src/rclcpp/executor.cpp` and `executors/` | collector queues, wait set and wait result, `can_be_taken_from`, `spinning`, guard conditions | spin functions, add and remove node, cancel, shutdown | several threads, entities that come and go while waiting | mutual exclusion per group, every ready entity is served, spinning ends |
| rcl action server, `rcl/rcl_action/src/rcl_action/action_server.c` | tracked goal handles, expire timer | accept, cancel, expire, notify done | goals borrowed from the layer above, one timer for all goals | nothing is kept for ever, nothing freed is used |
| action server, `rclcpp/rclcpp_action/src/server.cpp`, `include/rclcpp_action/server.hpp`, `server_goal_handle.{hpp,cpp}` | results, result requests and handles per goal id, weak typed handles | four handlers, `publish_result`, `publish_status`, handle methods, the handle's destructor | four mutexes, user threads, expiry between any two critical sections, a destructor that cancels | every result request is answered once, with the final state |
| action client, `rclcpp/rclcpp_action/src/client.cpp`, `include/rclcpp_action/client.hpp`, `client_goal_handle*.hpp` | pending goals, results and cancels, known handles, promises | send goal, get result, cancel, stop callbacks, handlers, destructor | responses late, lost or out of order, handles dropped meanwhile | every promise is set once, with the server's result |
| lifecycle, `rcl/rcl_lifecycle`, `rclcpp/rclcpp_lifecycle` | machine state, managed entities | change state from the service and from user threads | callbacks run without the mutex and may fail | one transition at a time, ending in a primary state |
| services, `rclcpp/rclcpp/include/rclcpp/client.hpp` | pending requests | send, handle response, prune | late responses against pruning | at most one completion |
| intra-process, `rclcpp/rclcpp/src/rclcpp/intra_process_manager.cpp`, `include/rclcpp/experimental/` | publishers, subscriptions, recipient lists, ring buffers, guard conditions, unread counters | add, remove, publish, wait, take, on-ready callback | capacity, ownership, joining and leaving during delivery | FIFO among what is kept, exclusive ownership, no silent data |
| rosbag2 writer and cache, `rosbag2/rosbag2_cpp/src/rosbag2_cpp/` | double buffer, flags, consumer thread, open file | write, split, close, snapshot | stopping and restarting the consumer, a full cache | accepted messages are in their file, in order, once |
| events executor and timers manager; context shutdown; tf2 buffer; message filters; rmw graph cache | see `PROJECT.json` | | | |

Interaction: a node's timers, subscriptions and action servers are entities of an executor. The executor fills a wait set, `rcl_wait` sleeps, guard conditions (of timers, of nodes, of the executor itself) wake it, and ready entities are executed in their callback groups. An action server or client is a bundle of services and topics behind one waitable. Its handlers call user code, which keeps a goal handle and calls its methods from any thread; those methods call back into the server, so state is reached from executor threads and user threads alike. An intra-process subscription is a waitable too, fed by the thread that publishes.

`PROJECT.json` lists every component with its status, and under "hazards" what can go wrong and a test would hardly reach, each at its line.

## 2. Plan

Order: what carries the most concurrency and the least test coverage first.

1. **Done.** Timer, clock and wait (`TimerOps`, `RclTimer`); the action server on top of the timer (`GoalStateMachine`, `ActionServer`) and its abstract contract (`ActionContract`).
2. **Done.** Executor and callback groups (`Executor`). Managed nodes (`Lifecycle`). The action client (`ActionClient`) and its composition with the contract of the server over services that lose, delay and reorder messages (`ActionSystem`).
3. **Done.** Intra-process topics (`IntraProcess`) and the abstract topic they implement (`KeepLastTopic`). The bag writer (`BagWriter`).
4. **Done.** Proofs: every safety property that a run checks of the timer, the action server, managed nodes, the executor, the action client against the contract, the bag writer and intra-process topics; the refinement of the contract by the server and of the abstract topic by the intra-process manager.
5. **Left.** Models: pending service requests and pruning, the timers manager, the tf2 time cache and the approximate-time synchronizer as algorithms against reference definitions.

## 3. Modules

| module | models |
|---|---|
| `GoalStateMachine` | the transition map of `goal_state_machine.c` and the predicates of `goal_handle.c` |
| `TimerOps` | the operations of `timer.c` as operators on a timer record `[period, last, next, credit, canceled]` |
| `RclTimer` | one timer on a ROS clock, the executor thread that waits for it, and user code: state machine over `TimerOps` |
| `ActionServer` | `action_server.c`, `server.cpp`, `server.hpp`, `server_goal_handle.*`, composed with `GoalStateMachine` and, for the expire timer, `TimerOps` |
| `ActionContract` | abstract: the promise of an action server to its clients |
| `Executor` | `executor.cpp`, the single- and multi-threaded executor, the entities collector, the notify waitable, callback groups |
| `ActionClient` | `client.cpp`, `client.hpp`, `client_goal_handle*.hpp` |
| `ActionSystem` | `ActionClient` composed with the server of `ActionContract` and an unreliable network |
| `Lifecycle` | `default_state_machine.c`, `rcl_lifecycle.c`, `lifecycle_node_interface_impl.cpp` |
| `IntraProcess` | the intra-process manager, ring buffers, publishing threads, waiting and event-driven consumers |
| `KeepLastTopic` | abstract: a topic whose subscriptions keep the last messages |
| `BagWriter` | `sequential_writer.cpp`, the caches, the consumer thread |
| `MCActionServer`, `MCExecutor`, `MCIntraProcess` | instances for TLC; the refinement of the contract |
| `RclTimerProofs`, `LifecycleProofs`, `ExecutorProofs`, `ActionSystemProofs`, `IntraProcessProofs`, `BagWriterProofs` | theorems about the module of that name |
| `ActionServerProofs`, `ActionContractProofs` | theorems about `ActionServer`; the second builds on the first and adds the properties that need distinct goal ids or an exclusive group, and the refinement |

**RclTimer.** System time `sys` only advances; `ros` is the overridden time and `active` the override flag. Setting the override runs the jump callback after the store. Enabling or disabling it is three steps: callback before, flip, callback after (`cpc`), because an executor thread may run in between. The executor thread goes `run` → `asleep` (with a `deadline`, or none: under an active override `rcl_wait` computes no timeout) → `call`. `trig` is the timer's guard condition. User code cancels, resets and changes the period at any time.

**ActionServer.** A handler is cut into one step per critical section, since that is what other threads can observe; the comment at each action names the mutex. The program counter of an executor thread is `pc`, its locals are `tgoal`, `treq`, `tcode`, `tlist`, `tok`. For each goal `upc` is the place of the user's thread in a handle method, `uref` whether user code holds the shared pointer.

- goal request: `GoalRequestReceived` (take, ask the user, respond) → `GoalAccept` (`rcl_action_accept_new_goal`) → `GoalStore` (`goal_handles_`) → `GoalExecute` → `GoalPublishStatus` → `GoalRegister` (typed handle, `handle_accepted_`) → `AcceptedReturn`.
- cancel request: `CancelRequestReceived` (`rcl_action_process_cancel_request`) → per goal `CancelLookup`, `CancelCallback`, `CancelRelease` → `CancelRespond`.
- result request: `ResultRequestReceived` (exists?) → `ResultLookup` (result, or keep the request).
- expiry: `ExpireTimerReady` → `ExpireGoals` (one goal per turn, recalculates the timer) → `ExpireErase`.
- user code: `UserExecute`, `UserFinish` (`succeed`, `abort`, `canceled`), `UserDrop`; then `PublishResultExists` → `PublishResultStore` → `TerminalStatus` → `NotifyGoalDone` → `TerminalErase`.
- the last reference to a goal handle runs the destructor in the thread that drops it (`HoldsLast`, `UserDrop`): from then on (`upc = "d_cancel"`) the weak pointer no longer locks, and in a step of its own `DestroyHandle` (`try_canceling`) cancels an unfinished goal and goes on with the same terminal steps. An exception thrown there is `std::terminate` (`upc = "terminated"`).

**ActionContract** knows goal states, requests and answers only. Its states are written out, not taken from the transition map, since the map is part of what is checked.

**Executor.** One spin function runs at a time (`mode`). A thread goes `check` (the loop condition, under `wait_mutex_` for the multi-threaded executor) → `next` (`GetNextReady`) → `collect` and `wait` (`wait_for_work`) → `retry` → `exec` → `callback` → `signal`. `result` is what is left of `wait_result_`; `Selections` are the entities `get_next_ready_executable` may return: timers before takeables before waitables, and within a kind in an order the model leaves open. A timer is called and a waitable's data taken under the mutex (`TakeUnderLock`), a subscription's message when its callback runs, where the take may come back empty. `add_node` and `remove_node` exchange the has-executor flag (`AddNode`, `RemoveNode`), then queue the node under the collector's mutex (`InsertNode`, `UnlinkNode`), then take the four steps of `trigger_entity_recollect`; other threads, `process_queues` among them, can run between any two (`upc`). A guard condition stays triggered until a wait that has it in its wait set consumes it (external, from how `rcl_wait` uses it).

**ActionClient, ActionSystem.** The pending maps are functions of the request's sequence number, `goal_handles_` is `known`, a promise is the value it was set to, and `threw` records a promise set twice, which throws. A weak pointer locks as long as the user or a pending callback holds the handle (`CanLock`). A handler is one step per critical section: `HandleResultResponse` → `SetResult` → `EraseGoal`. `net` is a set of messages on their way: any order, each at most once, up to `MaxLost` lost. The status topic keeps its last message. The server is `ActionContract` by `INSTANCE`; `server_one_goal` shows that `ActionServer` implements it. Accepting a goal and answering its request are one step here.

**Lifecycle.** Every caller of `change_state` goes `start` → `callback` → `finish`, and after an error through the error callback once more (`stage`). A request names any transition by id or by label: the look-ups do not tell private transitions, which callbacks' results are meant to trigger, from public ones (`Transitions`). `privates` counts requests for private ones; `meddled` is set when one takes effect and reset when no call is under way. The copy `current_state_`, which `change_state` writes and never reads, is left out. `ret` is `cb_return_code`, `None` as long as nothing was written to it; a response computed from `None` is a nondeterministic choice.

**IntraProcess.** A message is `<<publisher, number>>`, the object that carries it has an identity of its own, so that copies and shared objects differ. `Publish` decides the recipients under the shared lock; `Deliver`, `Signal` (one subscription at a time) and `Store` (the transient-local buffer) follow. Exclusive operations on the manager wait for deliveries. A waiting consumer goes `collect` → `wait` → `ready` → `taken`; an event-driven one handles queued `events`. The ring buffer is modelled with its indices.

**BagWriter.** The writing thread is sequential (`writer_mutex_`), the consumer thread goes `wait` (→ `asleep` → `woken`) → `swap` → `consume` → `clear` → `check`, snapshots come from a third thread. Waiting on the condition variable and notifying it are separate steps; a notification without a waiter is lost, and a waiter may wake for no reason. A thread that was in the wait resets `data_ready_`, also when a flush woke it; one that arrives during a flush does not. `WaitForData`, `SwapBuffers`, `BeginFlushing` and `NotifyFlushing` stand for the functions of those names in `message_cache.cpp` and in `circular_message_cache.cpp` (lines 60-67, 83-106); where the two differ the action tests `snapshot_mode`.

## 4. Runs

Passing runs:

| run | instance | shows |
|---|---|---|
| `timer` | periods 1 and 2, four ticks of system time, ROS time 0..3, at most one change of the time source | `NoLostWakeup`, `CallSchedulesNextSlot`, `ReadyTimerIsServed` |
| `server_one_goal` | one goal, every response and user behaviour, two threads, a result request and two cancel requests, with and without a stamp, reentrant; the goal may expire while running, publishing or idle | `AnswersAreFinal`, `AnsweredOnce`, `StatusUpToDate`, `CanceledByOneRequest`, `NoRequestForgotten`, `TrackedHandleIsOwned`, `ExpiryArmed`, `ImplementsContract` |
| `server_exclusive` | mutually exclusive group, two goals, a result and a cancel request, timeout 0 | `AcceptedGoalIsKnown`, `SelectedGoalIsAsked`, `EveryRequestAnswered` |
| `executor` | two threads, all five spin functions, an exclusive group of a subscription and a timer, a reentrant group of a waitable that is created late, two user operations | `MutualExclusion`, `SleepMissesNothing`, `FlagIsReleased`, `NothingRunsTwice`, `WorkIsServed`, `SpinEnds` |
| `action_system` | one goal, two result requests, a cancel request, two further user calls, one lost message | `ResultIsTheServers`, `PromiseSetOnce`, `StatusStaysFinal`, `StopIsFinal`, `DestroyFulfils`, `FuturesComplete` |
| `lifecycle` | the service and a user thread, every callback result, one failed notification, two requests for private transitions | `OneTransition`, `RestsInPrimary`, `CallbackSeesOrigin`, `EntitiesFollow`, `TransitionsEnd` |
| `intra_process` | two publishers (one transient local), three subscriptions: waiting and transient local, event driven and owning, and unserved; depths 1 and 2; three messages; a publisher and a subscription that leave | `ExclusiveOwnership`, `DataIsAnnounced`, `ImplementsTopic`, `DataIsTaken` |
| `bag_writer` | both caches, messages below and above the cache size, four messages, three files, two snapshots | `NothingLost`, `BufferBound`, `WriterProgress` |

Runs in which the code does something a comment or a document of the repository says it does not (each has an entry under "findings" that quotes the sentence):

| run | what happens |
|---|---|
| `timer_credit` | after a change of the time source the timer waits the elapsed part of its period, not the remainder: one whose period has just begun is due at once |
| `executor_discard` | an executor canceled between taking and executing a callback leaves the mutually exclusive group reserved for ever |
| `executor_flag` | a removal is processed between the two steps of `add_node`: the node is queued for the executor and its has-executor flag is clear, so that another executor accepts it |
| `lifecycle_private` | while one thread is in a transition's callback, a request for a private transition ends that transition |

**Bounds.** Two threads are needed for a handler to run between two steps of another; user threads and destructors come on top, so up to four actors interleave. In `server_exclusive` two goals let one expire, or be selected, while the other is in use; in `server_one_goal` the goal itself is reached by up to four actors, and what several goals share, the maps and the expire timer, is left to the theorems, which hold for any number of goals. `Timeout = 1` with `MaxTime = 3` gives goals that end within the timeout, at it and beyond it, and an expire timer that fires early, late and again; timeout 0 with two ticks makes goals expire in the exclusive run. Periods 1 and 2 over four ticks give missed slots, a late call that hits a slot and one that falls between two. In `executor` the exclusive group has two entities of different kinds, so that each can be found busy by the other; one datum per entity suffices to lose or repeat one, and two user operations let a node be added and removed, or removed while spinning is canceled. In `action_system` two requests let a goal be asked for twice. Depth 1 and 2 and two messages of one publisher overflow a ring buffer and wrap its indices; four messages against a cache of two bytes fill it, and three files mean two restarts of the consumer. `MaxTime`, `MaxSys`, `MaxRos`, `MaxChanges`, `MaxData`, `MaxOps`, `MaxSpins`, `MaxCalls`, `MaxLost`, `MaxFailed`, `MaxPrivate`, `MaxMsgs`, `MaxFiles`, `MaxSnapshots` and `Leaving` are the artificial bounds; they appear in guards. Deadlock checking is off where the system rightly stops when all requests are served or a bound is reached; it is on for `lifecycle`.

**Symmetry** permutes threads, goals (with their ids), requests and cancel requests of the server; it is used for safety only.

**Fairness.** Weak fairness of an executor thread's steps and of serving the expire timer: a spinning executor runs a handler to its end and waits again. Weak fairness of the terminal steps: they are straight-line code. Weak fairness of `UserStep`: user code owns the outcome of a goal, and the API asks it to end or drop every goal it accepted. No fairness for requests, clock jumps or user calls. In `RclTimer` time passes, the time source finishes a change it began, and the executor keeps waiting and calling. In `Executor` threads run, callbacks return and a user's call ends. In `ActionSystem` executor threads handle what has arrived and the server takes requests and ends its goals; nothing has to be delivered that was lost. In `Lifecycle` callbacks return. In `IntraProcess` the one strong fairness is that of taking data: a ready waitable whose callback group is busy is put back into the wait set without being taken, and a group that is free again and again is eventually picked (`WorkIsServed` is the executor's side of this). In `BagWriter` threads run; nothing wakes a sleeping thread but a notification (spurious wake-ups happen and are not fair).

**Mutants.** Every property of every passing run has a mutant in `PROJECT.json`: a plausible bug (a status not published, a handle not stored, a group not reserved, an index not moved ...) under which TLC finds the property violated. Their definitions stand before the operators they replace, with a comment that begins with "Mutant".

### Observations

Behaviour of the code that was met while modelling, is in the models, and is why a property is stated as it is:

- Timer: when the time source changes while the executor sleeps, the timer may become ready and nothing wakes it (`timer.c:110`, against the comment at `wait.c:607`); the same holds for a zero period after a backward jump (`timer.c:122`). `NoLostWakeup` excludes both. A reset does not update `last_call_time`, which the backward-jump branch compares with (`timer.c:119`).
- Server: a goal that has run longer than the result timeout may expire between its terminal transition and `publish_result`; its kept requests are erased unanswered (`server.cpp:642`, against the comment at `server.cpp:103`), the reason for `Expired` in `EveryRequestAnswered`. The age of a result is counted from acceptance, not from the end (`action_server.c:649`, against `action_server.h:581`). The expire timer is reset with its previous period (`action_server.c:476`). The second cancel request for a canceling goal is told that it has terminated (`action_server.c:778`). Cancel-all without goals answers without an error and with an empty list (`action_server.c:787`). In a reentrant group a cancel request that meets a goal whose typed handle is not registered yet is rejected without asking the user (`server.hpp:446`), which is why `SelectedGoalIsAsked` and `AcceptedGoalIsKnown` are checked for the exclusive group. Also there, a goal whose last reference has gone and whose destructor has not yet canceled it is rejected without asking.
- Executor: a node added again after `remove_node` and before `process_queues` ends up removed, since additions are processed first. `process_queues` clears the flag of a removed node also when `add_node` has set it again and not queued the node yet; hence only one direction, `FlagIsReleased`, holds, and `FlagGuardsMembers` does not (`executor_flag`). What was taken under the mutex (a timer call, a waitable's data) is lost when the executor is canceled before it is executed. A due timer of a busy group makes other threads wake at once, again and again. A `spin` that follows `cancel` before the old threads have seen it revives them.
- Client: a goal whose result request could not be sent is invalidated while it stays known, and its promise may be set again (`client.hpp:773`), which `PromiseSetOnce` excludes. A result callback registered between `set_result` and the erasure of the goal is not called. After `stop_callbacks` the client no longer knows the goal, so that its destructor leaves the future pending (`DestroyFulfils`).
- Lifecycle: `current_state_` is written without a mutex and may stay stale. A failed notification leaves the machine in an intermediate state, from which no public transition leads. Entities activated before a failing `on_activate` stay activated (`EntitiesFollow` asks for callbacks that succeed). The service and `trigger_transition` also accept the ids and labels of private transitions, against `Transition.msg:43` (run `lifecycle_private`): a second caller then moves the machine while a callback runs, the error callback may be given an intermediate state, and the entities may disagree with the state. That is why `OneTransition` and `CallbackSeesOrigin` have the premise `~meddled` and `EntitiesFollow` the premise `privates = 0`; `RestsInPrimary` and `TransitionsEnd` hold without one. A request refused by `change_state` is answered from `cb_return_code`, which nobody has written (`lifecycle_node_interface_impl.cpp:241`): the answer may be success, against `ChangeState.srv:3`; `Respond` has this as a free choice.
- Intra-process: a transient-local subscription that joins between delivery and the store into the publisher's buffer (`publisher.hpp:255-266`) misses the message. Discarded events strand messages, which `DataIsAnnounced` counts. `clear()` of the ring buffer does nothing.
- Bag writer: `take_snapshot` does not take `writer_mutex_`; `push` does not look at `flushing_`; the message count of the metadata includes dropped messages.

## 5. Theorems

The theorems hold for every value of the constants. They rest on the assumptions the modules name: `TimerAssumption`, `ServerAssumption`, `LifecycleAssumption`, `ExecutorAssumption`, `ClientAssumption` with `SystemAssumption`, `DepthAssumption` with `SetsAssumption` and `PointerAssumption`, and `CacheAssumption`. These give the types of the constants, ask for non-empty horizons, message sizes and depths above zero and finitely many publishers and subscriptions, and keep apart what the code keeps apart by type: `None` from goals, ids and requests, the service's thread from the users', the executor's own guard conditions from nodes, an empty slot from a message, and the marks of a first object and its shared copy from subscriptions. Where a theorem has a further hypothesis it is part of the statement and named below. Every inductive invariant was checked by TLC on the instance of section 4 before it was proved.

- `RclTimerProofs!TypeCorrect`, `WakeupNeverLost` (`NoLostWakeup`) and `CallsStayOnGrid` (`CallSchedulesNextSlot`). The wake-up invariant is close to inductive; it is strengthened by the place of the clock's callback (`cpc`), because between the store of a jump and its callback the timer may be ready without a trigger. The grid property rests on `DivBounds` and `MultipleMod`, two facts about division, and on `NextCallTime`, which says of the rounding in `rcl_timer_call_with_info` what the comment promises.
- `ActionServerProofs!TypeCorrect`. `TypeOK` alone is not inductive: a stored result is a terminal state only because the message being published is, and a thread's goal is a goal only at some program counters. `CoreInv` adds `LocalsOK` (locals against the program counter), `FreshOK` (a goal about to be accepted has no state and is in one handler only) and `ResultOK` (a result about to be published carries its goal's terminal state).
- `AnswersStayFinal` (`AnswersAreFinal`) and `RequestsNeverForgotten` (`NoRequestForgotten`), both from `AnswerInv`: `CoreInv`, the two properties, and `RequestsOK` (a kept request is kept under the id it asks for; nobody is answered before asking). The step that carries it is `TerminalIsFinal`: no step of anyone changes a goal that has ended (`StateChange`). The theorems allow goal requests that repeat an id.
- `ExpiryStaysArmed` (`ExpiryArmed`), from `ExpiryInv`: `LifeOK` (until its typed handle is registered a goal is in one handler and nobody else reaches it, so that registration never overwrites a terminal step), `HandleOK` (a method under way means that its caller has a reference, a destructor under way that nobody has) and `ArmedOK` (the timer is armed for every ended goal past `rcl_action_notify_goal_done`). `RecalculateArms` is the fact about `_recalculate_expire_timer`: since the period never exceeds the timeout, the next call is at most one timeout away, although the reset uses the previous period.
- `LifecycleProofs!TypeCorrect`, `TransitionsExclude` (`OneTransition`), `MachineRests` (`RestsInPrimary`), `OriginIsPassed` (`CallbackSeesOrigin`) and `EntitiesAgree` (`EntitiesFollow`), for any set of calling threads. One invariant `Inv` carries all of them: the properties themselves, `LocalsOK` (the stage of `change_state` against its place, the next label from the callback's code), `PrivatesOK` (nothing is meddled with before a private request), `StarterOK` (an intermediate state other than error processing has a caller in its first stage, whatever is requested: it is what makes `RestsInPrimary` inductive when somebody else may move the machine) and `EntitiesOK` (during a transition without a failure the entities are as at its start, and after its callback as at its end). A public transition starts in a primary state (`PublicFacts`), where, unless somebody meddled, nobody is in a transition; every code of a callback leads out of the intermediate state or into error processing (`PrivateFacts`); and `Returns` shows that when the last call returns nobody is in a transition, so that `meddled` may be reset. Steps that leave the machine alone are covered by one lemma, `QuietStep`.

- `ActionContractProofs` proves the rest of the server's properties. `StatusStaysUpToDate` (`StatusUpToDate`) needs no hypothesis: `BaseInv` adds to the invariants above that a tracked goal whose state differs from its published status has somebody on the way to `publish_status`. The others assume `Unique`, that different goals have different ids, since ids are UUIDs drawn by the clients; with a repeated id the second goal would find the first one's results.
  - `OneAnswerPerRequest` (`AnsweredOnce`). `publish_result` answers the kept requests and leaves them in the map, so that a request may be kept and answered at once; `OnceInv` says that this happens only for goals whose result has been published, and that a request in a handler's hands is neither kept nor answered. `PublishedForGood` then rules out a second publication.
  - `ServerImplementsContract` (`ImplementsContract`): `RefineStates` maps every step to a move of at most one goal along the contract's transitions (`EventStep`, and `DestroyCases` for the destructor), `RefineAnswers` every step to a request or an answer with the goal's terminal state. Both use `OnceInv`: the contract answers once.
  - `GoalsAreCanceledOnce` (`CanceledByOneRequest`), from `CancelInv`: the ids in handlers' hands and in responses are pairwise disjoint, since only the step that moves a goal to canceling adds its id and a goal makes that step once.
  - `TrackedHandlesStayOwned` (`TrackedHandleIsOwned`), from `OwnInv`: what `expire_goals` hands over for erasure is no longer tracked and has ended.
  - `AcceptedGoalsAreKnown` (`AcceptedGoalIsKnown`), for repeated ids too but for a mutually exclusive group (`~Reentrant`, the default), in which no second handler runs between the response to a goal request and `rcl_action_accept_new_goal`. `SelectedGoalsAreAsked` (`SelectedGoalIsAsked`) needs both hypotheses: `AskedInv` says that a cancelable goal is reachable through its typed handle, or still in the handler that registers it, or has lost its last reference and waits for its destructor (`Cared`), and in an exclusive group that handler is not the one that cancels.
- `ExecutorProofs!ExclusiveGroups` (`MutualExclusion`), `HandedOutOnce` (`NothingRunsTwice`), `FlagCorrect` (`FlagIsReleased`), `NoLostWakeup` and `FirstSpinWakesUp` (`SleepMissesNothing`), `TypeCorrect`. The invariant is `Inv`: `Types`, `ControlOK` (at most one thread is inside `wait_mutex_`), `ReservedOK` (who executes for an exclusive group has reserved it, and nobody else has), `CountOK` with `ResultOK` (what has run, what waits and what is in a thread's hands has arrived), `FlagIsReleased`, `FirstSpinOK`, `NoticeOK` (a change of the collector is announced by the interrupt guard condition, or by a user thread on the way to it) and, as long as no reservation is leaked, `Covered` (an entity missing from the wait set will be collected). `SelectionFacts` says what `get_next_ready_executable` may return. `SleepMissesNothing` does not hold of every behaviour: an executable that is discarded after `cancel` leaves its group reserved (run `executor_discard`), and a later spin sleeps although that group has work. The theorems therefore state it in two forms: as long as no reservation was leaked (`NoneLeaked`), and up to the first spin, since an executable is discarded only after `cancel`, which ends that spin. The run has one spin.
- `ActionSystemProofs!ResultsAreTheServers` (`ResultIsTheServers`), `OneResultPerHandle` (`PromiseSetOnce`), `NobodyWaitsForADeadClient` (`DestroyFulfils`), `StoppedForGood` (`StopIsFinal`), `TypeCorrect`, for any number of threads, requests and lost messages. `Inv` is `ClientInv`, `ServerTypes` and `WireOK`. `OneRequest` is the part that carries the promise: from the exchange of `is_result_aware_` to `set_result` there is one request per valid handle, in one place (about to be sent, pending, or its response in a thread's hands). `WireOK` says that the messages of one result request name one goal, and that a result on the way to the user, in the network or in a thread's hands, is the terminal state of that goal; the contract keeps that state. `FinalStatusStays` (`StatusStaysFinal`) is for one executor thread: with two, a handler between `set_result` and the erasure of the goal can be overtaken by an older status message. The lemmas `ClientSendGoal` to `ClientHandleFeedback` treat one operation of the client each, with one step per part of `ClientInv`.
- `IntraProcessProofs!OwnershipIsExclusive` (`ExclusiveOwnership`), `DataAnnounced` (`DataIsAnnounced`), `TopicIsImplemented` (`ImplementsTopic`), `TypeCorrect` and `SoundAlways`, for any publishers, subscriptions, depths and numbers of messages.
  - `Sound` is the inductive invariant behind all of them: `RingsOK` (the write index, the read index and the size agree, and exactly the slots they span are filled), `ListsOK` (the manager's lists hold the matching live subscriptions, each once), `PubsOK` (a delivery in progress names live subscriptions, once each, and carries the publisher's last message), `KeptOK` (a transient-local publisher keeps its own messages, the last one as soon as it is idle) and `ConsumersOK`. One lemma per part (`RingsStep`, `ListsStep`, ...) goes through the actions.
  - `ExclusiveOwnership` needs `TagsOK`: an object is the publisher's first, the shared copy, or a copy made for one subscription; a copy made for somebody stays with them, and an owner never gets the shared one. Then only the first object can be given away twice, and `SharedTo` and `OwnedTo` hand it out once (`SharedToFacts`, `OwnedToFacts`).
  - `DataIsAnnounced` is inductive with `Sound`. Waiting and event-driven consumers are separate (`WaitStepAnnounced`, `EventStepAnnounced`).
  - The refinement follows the operations: adding a publisher or a subscription is the topic's `Join`, the latter with the replay of what publishers keep (`ReplayIsAbstract`); removing is `Leave`; `Publish`, `Deliver` and `Store` are `Publish`, `Deliver` and `Keep`; taking is `Take`; the other actions do not change what the topic sees. `EnqueueContent` and `DequeueContent` are the bridge: on the content of a ring buffer, moving indices is "append, drop the oldest when full" and "drop the first".
  - `Without`, `EnqueueAll`, `ReplayAll` and the abstract replay are recursive functions. `RecursionExists`, from `SetInduction`, shows that such a function exists; their equations and, by `UpToInduction`, what they compute follow (`WithoutFacts`, `ReplayAllFacts`).
- `BagWriterProofs!RecordingIsComplete` (`NothingLost`), `CacheIsBounded` (`BufferBound`) and `TypeCorrect`, for any cache size, message sizes and number of files. `WriterInv` has `ControlInv` (the round that ends the consumer thread begins after the stop was issued, and the writer goes on only when the thread is done), `BufferInv` (the consumer's buffer is in use only between swap and clear; in normal mode the last swap empties the producer's), `LedgerInv` (normal mode: accepted is written, then consumer's, then producer's buffer) and `OrderInv` (both modes: files, consumer's buffer and producer's buffer in order of writing). The size of a buffer is defined by recursion. The library's induction theorems take a predicate as parameter and cannot be used; `SetInduction`, proved from the well-foundedness of `<` with a set in the place of the predicate, gives what is needed: the recursive function exists (`SumsExist`, `SumsAgree`), so that `Bytes` has its equations (`BytesEmpty`, `BytesAppend`). `CircularPush` shows that the circular buffer's choice of how many messages to drop has a value.

Only model-checked: the liveness properties `ReadyTimerIsServed`, `EveryRequestAnswered`, `WorkIsServed`, `SpinEnds`, `FuturesComplete`, `TransitionsEnd`, `DataIsTaken` and `WriterProgress`: liveness under fairness is beyond the prover. Every invariant, action property and refinement of a passing run is stated by a theorem, under the hypotheses named above.

## 6. What is not modelled

- The components with status `not_modelled` in `PROJECT.json`. The workspace is 1.4 million lines, most of them vendored middleware, tools and generated or third-party code; the models cover the concurrent core of the client library and not a noticeable share of those lines.
- Of the timer: steady and system time, the `on_reset` callback, allocation, 64-bit overflow of nanosecond counts (about 292 years). `rcl_wait` up to the sleep, and each jump callback, are one step; the clock's flag and time are read together.
- Of the action server: construction and destruction of the server, feedback, service introspection, failures to take a request, allocation failures. A goal or cancel response that times out changes nothing more than modelled; a result response that times out is not told apart from one that was sent. Looking up a stored result and sending it is one step, though the send happens after the mutex is released: nothing can change the message in between. `publish_status` sends one snapshot under its mutex. The order of goals in rcl's array is left out (`process_cancel_request` and `expire_goals` visit them in array order, the model in any order). The clock of the expire timer only moves forward.
- States read outside the handle's mutex (by `publish_status`, `process_cancel_request`, `expire_goals`) are word-sized enum reads and treated as atomic.
- An exception that leaves a handler leaves the executor thread idle, as for a caller of `spin` that catches it and spins again. After `std::terminate` the other threads may take further steps in the model; the process would end, so this only adds behaviours.
- User code calls the methods of one goal handle from one thread at a time.
- Of the executor: manually added callback groups, nodes and groups whose weak pointers expire, `notify = false`, `spin_until_future_complete`, the static single-threaded executor, exceptions from callbacks, timeouts longer than a step.
- Of the action client: user callbacks that call back into the client, the wait-set bookkeeping, on-ready callbacks, waiting for the server, cancel requests for several goals (they change nothing but their own promise).
- Of lifecycle nodes: construction, registering callbacks, custom transition maps, the query services, the copy `current_state_`, timers of the node, the shutdown in the destructor.
- Of intra-process communication: several threads publishing through one publisher at once, type adapters, serialized and loaned messages, `KeepAll`, buffers whose element type differs from the callback's, `lowest_available_capacity`, `matches_any_publishers`, and a last reference dropped while the manager's mutex is held.
- Of the bag writer: storage plug-ins and their errors, metadata, topics, compression, splitting by duration or size (a split may happen before any write), the race of `take_snapshot` with the end of `close`.
