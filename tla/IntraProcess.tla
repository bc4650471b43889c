---------------------------- MODULE IntraProcess ----------------------------
(***************************************************************************)
(* Intra-process communication of rclcpp on one topic: the                 *)
(* IntraProcessManager with its lists of recipients, the ring buffer of    *)
(* every subscription and of every transient-local publisher, the threads  *)
(* that publish, and the two ways a subscription's data reach its          *)
(* callback: a wait set woken by the guard condition gc_, or the queue of  *)
(* an events executor filled by the on-ready callback.                     *)
(*                                                                         *)
(* A message is <<p, k>>: the k-th one of publisher p.  The object that    *)
(* carries it is <<m, tag>>: "orig" is the object the user published,      *)
(* "copy" the one allocate_shared makes, and <<m, s>> the copy made for s. *)
(***************************************************************************)
EXTENDS Naturals, Sequences, FiniteSets

CONSTANTS
    Pubs, Subs,     \* the publishers and subscriptions, of one topic
    Owning,         \* subscriptions whose buffer holds unique_ptr
    Transient,      \* publishers and subscriptions that are transient local
    EventSubs,      \* subscriptions served by an events executor
    Unserved,       \* subscriptions no executor serves
    Depth,          \* Depth[x]: the history depth (KeepLast) of each of them
    MaxMsgs,        \* bound: MaxMsgs[p] messages of publisher p
    Leaving,        \* bound: the publishers and subscriptions that may be destroyed
    None            \* an empty pointer

ASSUME DepthAssumption == Depth \in [Pubs \union Subs -> Nat \ {0}]
ASSUME SetsAssumption ==
    /\ Pubs \cap Subs = {}
    /\ Owning \subseteq Subs /\ EventSubs \subseteq Subs
    /\ Unserved \subseteq Subs \ EventSubs
    /\ Transient \subseteq Pubs \union Subs
    /\ Leaving \subseteq Pubs \union Subs
    /\ MaxMsgs \in [Pubs -> Nat]
    /\ IsFiniteSet(Pubs) /\ IsFiniteSet(Subs)
    /\ {"orig", "copy"} \cap Subs = {}

VARIABLES
    status,     \* "new", "live" (registered with the manager) or "gone"
    targets,    \* pub_to_subs_: the two lists of ids of each publisher
    ring,       \* the ring buffers
    sent,       \* messages published so far
    pub,        \* the publishing thread of each publisher
    gc,         \* the guard condition of each waited-for subscription
    cons,       \* where the consumer of each subscription is
    held,       \* the object take_data gave to the consumer
    attached,   \* on_new_message_callback_ is set
    unread,     \* unread_count_
    events,     \* events of the subscription in the executor's queue
    dropped     \* events the executor discarded (history)

mgrVars == <<status, targets>>
waitVars == <<gc, cons, held>>
eventVars == <<attached, unread, events, dropped>>
vars == <<status, targets, ring, sent, pub, gc, cons, held, attached,
          unread, events, dropped>>

WaitSubs == Subs \ (EventSubs \union Unserved)
Buffered == Subs \union (Transient \cap Pubs)
Messages == UNION {{<<p, k>> : k \in 1..MaxMsgs[p]} : p \in Pubs}
Objects == Messages \X (Subs \union {"orig", "copy"})

ASSUME PointerAssumption == None \notin Objects

-----------------------------------------------------------------------------
(* The ring buffer *)

EmptyRing(c) ==
    [capacity |-> c, slot |-> [i \in 0..(c - 1) |-> None], w |-> c - 1, r |-> 0, n |-> 0]

Advance(b, i) == (i + 1) % b.capacity
IsFull(b) == b.n = b.capacity

\* Mutant: a full buffer does not move its read index.
EnqueueKeepingIndex(b, x) ==
    [b EXCEPT !.slot[Advance(b, b.w)] = x, !.w = Advance(b, b.w),
              !.n = IF IsFull(b) THEN @ ELSE @ + 1]

\* A full buffer loses its oldest element.
Enqueue(b, x) ==
    [b EXCEPT !.slot[Advance(b, b.w)] = x, !.w = Advance(b, b.w),
              !.r = IF IsFull(b) THEN Advance(b, @) ELSE @,
              !.n = IF IsFull(b) THEN @ ELSE @ + 1]

\* dequeue moves the element out and leaves an empty pointer.
Dequeue(b) ==
    [b EXCEPT !.slot[b.r] = None, !.r = Advance(b, @), !.n = @ - 1]

\* get_all_data
Content(b) == [i \in 1..b.n |-> b.slot[(b.r + i - 1) % b.capacity]]

HasData(s) == ring[s].n # 0

-----------------------------------------------------------------------------
(* The manager *)

\* Publishers copy and enqueue under the shared lock, registration is
\* exclusive.
Delivering(p) == pub[p].pc \in {"deliver", "signal"}
ExclusiveLock == \A p \in Pubs : ~Delivering(p)

\* can_communicate: one topic; a volatile publisher does not satisfy a
\* transient-local subscription.
can_communicate(p, s) == s \in Transient => p \in Transient

insert_sub_id_for_pub(t, s) ==
    IF s \in Owning THEN [t EXCEPT !.owned = Append(@, s)]
                    ELSE [t EXCEPT !.shared = Append(@, s)]

\* The orders in which an unordered map may be walked.
Orders(S) == {f \in [1..Cardinality(S) -> S] : \A i, j \in DOMAIN f : f[i] = f[j] => i = j}

LivePubs == {p \in Pubs : status[p] = "live"}
LiveSubs == {s \in Subs : status[s] = "live"}

AddPublisher(p) ==
    /\ status[p] = "new"
    /\ ExclusiveLock
    /\ status' = [status EXCEPT ![p] = "live"]
    /\ LET subs == {s \in LiveSubs : can_communicate(p, s)} IN
       \E shared \in Orders(subs \ Owning), owned \in Orders(subs \cap Owning) :
           targets' = [targets EXCEPT ![p] = [shared |-> shared, owned |-> owned]]
    /\ UNCHANGED <<ring, sent, pub, waitVars, eventVars>>

\* do_transient_local_publish gives s what the publisher keeps: the same
\* objects to a shared buffer, copies to an owning one.
Replay(s, p) ==
    [i \in 1..ring[p].n |->
        LET x == Content(ring[p])[i] IN IF s \in Owning THEN <<x[1], s>> ELSE x]

ReplayAll(s, order) ==
    LET upTo[i \in 0..Len(order)] ==
            IF i = 0 THEN <<>> ELSE upTo[i - 1] \o Replay(s, order[i])
    IN  upTo[Len(order)]

EnqueueAll(b, xs) ==
    LET upTo[i \in 0..Len(xs)] == IF i = 0 THEN b ELSE Enqueue(upTo[i - 1], xs[i])
    IN  upTo[Len(xs)]

AddSubscription(s) ==
    /\ status[s] = "new"
    /\ ExclusiveLock
    /\ status' = [status EXCEPT ![s] = "live"]
    /\ targets' = [p \in Pubs |->
           IF p \in LivePubs /\ can_communicate(p, s)
           THEN insert_sub_id_for_pub(targets[p], s) ELSE targets[p]]
    /\ \E order \in Orders(IF s \in Transient THEN LivePubs \cap Transient ELSE {}) :
           LET xs == ReplayAll(s, order) IN
           /\ ring' = [ring EXCEPT ![s] = EnqueueAll(@, xs)]
           /\ gc' = [gc EXCEPT ![s] = @ \/ (s \in WaitSubs /\ xs # <<>>)]
           /\ unread' = [unread EXCEPT ![s] = IF s \in EventSubs THEN @ + Len(xs) ELSE @]
    /\ UNCHANGED <<sent, pub, cons, held, attached, events, dropped>>

\* std::remove and erase
Without(q, s) ==
    LET upTo[i \in 0..Len(q)] ==
            IF i = 0 THEN <<>>
            ELSE IF q[i] = s THEN upTo[i - 1] ELSE Append(upTo[i - 1], q[i])
    IN  upTo[Len(q)]

RemoveSubscription(s) ==
    /\ status[s] = "live" /\ s \in Leaving
    /\ ExclusiveLock
    /\ status' = [status EXCEPT ![s] = "gone"]
    /\ targets' = [p \in Pubs |->
           [shared |-> Without(targets[p].shared, s), owned |-> Without(targets[p].owned, s)]]
    /\ UNCHANGED <<ring, sent, pub, waitVars, eventVars>>

\* The destructor of a publisher nobody publishes with any more.
RemovePublisher(p) ==
    /\ status[p] = "live" /\ p \in Leaving
    /\ pub[p].pc = "idle"
    /\ ExclusiveLock
    /\ status' = [status EXCEPT ![p] = "gone"]
    /\ targets' = [targets EXCEPT ![p] = [shared |-> <<>>, owned |-> <<>>]]
    /\ UNCHANGED <<ring, sent, pub, waitVars, eventVars>>

-----------------------------------------------------------------------------
(* Publishing *)

\* add_shared_msg_to_buffers: every recipient gets the same object.
SharedTo(x, ids) == [i \in 1..Len(ids) |-> <<ids[i], x>>]

\* add_owned_msg_to_buffers: a copy for every recipient but the last, which
\* gets the message itself.
OwnedTo(m, ids) ==
    [i \in 1..Len(ids) |-> <<ids[i], <<m, IF i = Len(ids) THEN "orig" ELSE ids[i]>>>>]

\* Mutant: the shared recipients get the published object although an owner
\* gets it too.
RecipientsWithoutCopy(m, t, wantsShared) ==
    IF t.owned = <<>> THEN SharedTo(<<m, "orig">>, t.shared)
    ELSE SharedTo(<<m, "orig">>, t.shared) \o OwnedTo(m, t.owned)

\* Who gets which object.  do_intra_process_publish treats a single shared
\* recipient as one more owner; the variant that returns a shared pointer
\* always makes the shared copy when there is an owner.
Recipients(m, t, wantsShared) ==
    IF t.owned = <<>> THEN SharedTo(<<m, "orig">>, t.shared)
    ELSE IF ~wantsShared /\ Len(t.shared) <= 1 THEN OwnedTo(m, t.shared \o t.owned)
    ELSE SharedTo(<<m, "copy">>, t.shared) \o OwnedTo(m, t.owned)

\* Where the thread goes when a recipient has been served.
NextStop(p, todo) ==
    IF todo # <<>> THEN "deliver" ELSE IF p \in Transient THEN "store" ELSE "idle"

\* publish: a publisher that keeps messages, or that also has subscriptions
\* in other processes, wants a shared pointer back.
Publish(p) ==
    /\ status[p] = "live"
    /\ pub[p].pc = "idle"
    /\ sent[p] < MaxMsgs[p]
    /\ sent' = [sent EXCEPT ![p] = @ + 1]
    /\ \E inter_process_publish_needed \in BOOLEAN :
           LET m == <<p, sent[p] + 1>>
               t == targets[p]
               todo == Recipients(m, t, inter_process_publish_needed \/ p \in Transient)
           IN  pub' = [pub EXCEPT ![p] =
                   [pc |-> NextStop(p, todo), todo |-> todo,
                    msg |-> IF p \in Transient
                            THEN <<m, IF t.owned = <<>> THEN "orig" ELSE "copy">>
                            ELSE None]]
    /\ UNCHANGED <<mgrVars, ring, waitVars, eventVars>>

\* provide_intra_process_data: into the buffer, then the two notifications.
Deliver(p) ==
    /\ pub[p].pc = "deliver"
    /\ LET d == Head(pub[p].todo) IN ring' = [ring EXCEPT ![d[1]] = Enqueue(@, d[2])]
    /\ pub' = [pub EXCEPT ![p].pc = "signal"]
    /\ UNCHANGED <<mgrVars, sent, waitVars, eventVars>>

\* Mutant: a message without a callback to announce it to is not counted.
invoke_only(s) ==
    /\ events' = [events EXCEPT ![s] = IF attached[s] THEN @ + 1 ELSE @]
    /\ UNCHANGED unread

invoke_on_new_message(s) ==
    /\ events' = [events EXCEPT ![s] = IF attached[s] THEN @ + 1 ELSE @]
    /\ unread' = [unread EXCEPT ![s] = IF attached[s] THEN @ ELSE @ + 1]

\* Both notifications are always made; the one nobody waits for (the count
\* of a subscription in a wait set, the guard condition of the others) is
\* left out.
Signal(p) ==
    /\ pub[p].pc = "signal"
    /\ LET s == Head(pub[p].todo)[1]
           rest == Tail(pub[p].todo)
       IN  /\ IF s \in EventSubs
              THEN invoke_on_new_message(s) /\ UNCHANGED gc
              ELSE gc' = [gc EXCEPT ![s] = s \in WaitSubs] /\ UNCHANGED <<unread, events>>
           /\ pub' = [pub EXCEPT ![p].todo = rest, ![p].pc = NextStop(p, rest)]
    /\ UNCHANGED <<mgrVars, ring, sent, cons, held, attached, dropped>>

\* buffer_->add_shared, after the manager's lock has been released.
Store(p) ==
    /\ pub[p].pc = "store"
    /\ ring' = [ring EXCEPT ![p] = Enqueue(@, pub[p].msg)]
    /\ pub' = [pub EXCEPT ![p].pc = "idle", ![p].msg = None]
    /\ UNCHANGED <<mgrVars, sent, waitVars, eventVars>>

-----------------------------------------------------------------------------
(* A subscription in a wait set *)

\* Mutant: the guard condition is not kept triggered while there are data.
AddToWaitSetOnly(s) ==
    /\ cons[s] \in {"collect", "ready"}
    /\ cons' = [cons EXCEPT ![s] = "wait"]
    /\ UNCHANGED <<mgrVars, ring, sent, pub, gc, held, eventVars>>

\* Also from "ready": there was nothing to take, or the callback group is
\* busy, and the executor waits again.
AddToWaitSet(s) ==
    /\ cons[s] \in {"collect", "ready"}
    /\ gc' = [gc EXCEPT ![s] = @ \/ HasData(s)]
    /\ cons' = [cons EXCEPT ![s] = "wait"]
    /\ UNCHANGED <<mgrVars, ring, sent, pub, held, eventVars>>

\* The wait returns for this subscription or for anything else in the wait
\* set; either way it clears the guard condition.
Wake(s) ==
    /\ cons[s] = "wait"
    /\ gc' = [gc EXCEPT ![s] = FALSE]
    /\ cons' = [cons EXCEPT ![s] = "ready"]
    /\ UNCHANGED <<mgrVars, ring, sent, pub, held, eventVars>>

Take(s) ==
    LET x == ring[s].slot[ring[s].r] IN
    /\ held' = [held EXCEPT ![s] = x]
    /\ ring' = [ring EXCEPT ![s] = Dequeue(@)]

\* is_ready, then take_data up to the consume.
TakeData(s) ==
    /\ cons[s] = "ready"
    /\ HasData(s)
    /\ Take(s)
    /\ cons' = [cons EXCEPT ![s] = "taken"]
    /\ UNCHANGED <<mgrVars, sent, pub, gc, eventVars>>

\* The end of take_data and the callback.
Execute(s) ==
    /\ cons[s] = "taken"
    /\ gc' = [gc EXCEPT ![s] = @ \/ (s \in WaitSubs /\ HasData(s))]
    /\ held' = [held EXCEPT ![s] = None]
    /\ cons' = [cons EXCEPT ![s] = "collect"]
    /\ UNCHANGED <<mgrVars, ring, sent, pub, eventVars>>

-----------------------------------------------------------------------------
(* A subscription of an events executor *)

\* set_on_ready_callback: what arrived before counts, up to the depth.
SetOnReadyCallback(s) ==
    /\ ~attached[s]
    /\ attached' = [attached EXCEPT ![s] = TRUE]
    /\ events' = [events EXCEPT ![s] = @ + (IF unread[s] < Depth[s] THEN unread[s] ELSE Depth[s])]
    /\ unread' = [unread EXCEPT ![s] = 0]
    /\ UNCHANGED <<mgrVars, ring, sent, pub, waitVars, dropped>>

ClearOnReadyCallback(s) ==
    /\ attached[s]
    /\ attached' = [attached EXCEPT ![s] = FALSE]
    /\ UNCHANGED <<mgrVars, ring, sent, pub, waitVars, unread, events, dropped>>

\* One event: take_data gives nothing when newer messages replaced older
\* ones and the buffer is empty.
HandleEvent(s) ==
    /\ cons[s] = "collect"
    /\ events[s] > 0 /\ attached[s]
    /\ events' = [events EXCEPT ![s] = @ - 1]
    /\ IF HasData(s)
       THEN Take(s) /\ cons' = [cons EXCEPT ![s] = "taken"]
       ELSE UNCHANGED <<ring, held, cons>>
    /\ UNCHANGED <<mgrVars, sent, pub, gc, attached, unread, dropped>>

\* The waitable is no longer in the executor's collection.
DropEvent(s) ==
    /\ cons[s] = "collect"
    /\ events[s] > 0 /\ ~attached[s]
    /\ events' = [events EXCEPT ![s] = @ - 1]
    /\ dropped' = [dropped EXCEPT ![s] = @ + 1]
    /\ UNCHANGED <<mgrVars, ring, sent, pub, waitVars, attached, unread>>

-----------------------------------------------------------------------------

Init ==
    /\ status = [x \in Pubs \union Subs |-> "new"]
    /\ targets = [p \in Pubs |-> [shared |-> <<>>, owned |-> <<>>]]
    /\ ring = [x \in Buffered |-> EmptyRing(Depth[x])]
    /\ sent = [p \in Pubs |-> 0]
    /\ pub = [p \in Pubs |-> [pc |-> "idle", todo |-> <<>>, msg |-> None]]
    /\ gc = [s \in Subs |-> FALSE]
    /\ cons = [s \in Subs |-> "collect"]
    /\ held = [s \in Subs |-> None]
    /\ attached = [s \in Subs |-> FALSE]
    /\ unread = [s \in Subs |-> 0]
    /\ events = [s \in Subs |-> 0]
    /\ dropped = [s \in Subs |-> 0]

Register ==
    \/ \E p \in Pubs : AddPublisher(p) \/ RemovePublisher(p)
    \/ \E s \in Subs : AddSubscription(s) \/ RemoveSubscription(s)

Producer(p) == Deliver(p) \/ Signal(p) \/ Store(p)

WaitStep(s) == AddToWaitSet(s) \/ Wake(s) \/ TakeData(s) \/ Execute(s)

EventStep(s) == HandleEvent(s) \/ DropEvent(s) \/ Execute(s)

Next ==
    \/ Register
    \/ \E p \in Pubs : Publish(p) \/ Producer(p)
    \/ \E s \in WaitSubs : status[s] = "live" /\ WaitStep(s)
    \/ \E s \in EventSubs : status[s] = "live" /\
           (SetOnReadyCallback(s) \/ ClearOnReadyCallback(s) \/ EventStep(s))

Spec == Init /\ [][Next]_vars

-----------------------------------------------------------------------------
(* Fairness: a thread that publishes goes on, an executor that spins goes  *)
(* on, a triggered guard condition ends the wait, and a callback group     *)
(* that is free again and again is eventually picked.  Nobody has to       *)
(* publish, register or unregister.                                        *)

Fairness ==
    /\ \A p \in Pubs : WF_vars(Producer(p))
    /\ \A s \in WaitSubs :
           /\ WF_vars(status[s] = "live" /\ AddToWaitSet(s))
           /\ WF_vars(status[s] = "live" /\ gc[s] /\ Wake(s))
           /\ SF_vars(status[s] = "live" /\ TakeData(s))
           /\ WF_vars(status[s] = "live" /\ Execute(s))
    /\ \A s \in EventSubs : WF_vars(status[s] = "live" /\ EventStep(s))

FairSpec == Spec /\ Fairness

-----------------------------------------------------------------------------
(* Properties *)

\* The type invariant: every pointer a buffer's indices say is there is a
\* message, and every other slot of the ring is empty.
TypeOK ==
    /\ status \in [Pubs \union Subs -> {"new", "live", "gone"}]
    /\ \A p \in Pubs : targets[p].shared \in Seq(Subs \ Owning) /\ targets[p].owned \in Seq(Owning)
    /\ \A x \in Buffered :
           /\ ring[x].w \in 0..(Depth[x] - 1) /\ ring[x].r \in 0..(Depth[x] - 1)
           /\ ring[x].n \in 0..Depth[x]
           /\ \A i \in 0..(Depth[x] - 1) :
                  IF \E j \in 0..(ring[x].n - 1) : i = (ring[x].r + j) % Depth[x]
                  THEN ring[x].slot[i] \in Objects ELSE ring[x].slot[i] = None
    /\ \A p \in Pubs : sent[p] \in 0..MaxMsgs[p]
    /\ \A p \in Pubs :
           /\ pub[p].pc \in {"idle", "deliver", "signal", "store"}
           /\ pub[p].todo \in Seq(Subs \X Objects)
           /\ pub[p].msg \in Objects \union {None}
    /\ gc \in [Subs -> BOOLEAN]
    /\ cons \in [Subs -> {"collect", "wait", "ready", "taken"}]
    /\ held \in [Subs -> Objects \union {None}]
    /\ attached \in [Subs -> BOOLEAN]
    /\ unread \in [Subs -> Nat] /\ events \in [Subs -> Nat] /\ dropped \in [Subs -> Nat]

\* The objects a subscription can reach, and those anybody else can.
Reach(s) ==
    {Content(ring[s])[i] : i \in 1..ring[s].n} \union ({held[s]} \ {None})
        \union UNION {{pub[p].todo[i][2] : i \in {j \in 1..Len(pub[p].todo) :
                          pub[p].todo[j][1] = s /\ ~(j = 1 /\ pub[p].pc = "signal")}} : p \in Pubs}

KeptBy(p) ==
    ({pub[p].msg} \ {None}) \union
        (IF p \in Transient THEN {Content(ring[p])[i] : i \in 1..ring[p].n} ELSE {})

\* An object in the hands of a subscription that asked for ownership (in its
\* buffer, on the way to it, or in its callback) is not reachable for any
\* other subscription nor for a publisher that keeps messages: the callback
\* may change it while the others read theirs (do_intra_process_publish).
ExclusiveOwnership ==
    \A s \in Owning :
        /\ \A t \in Subs \ {s} : Reach(s) \cap Reach(t) = {}
        /\ \A p \in Pubs : Reach(s) \cap KeptBy(p) = {}

\* Data in a buffer are announced.  A wait set that waits for the
\* subscription has been told, although a wait whose data were not taken
\* clears the guard condition (add_to_wait_set triggers it again); and every
\* message of a subscription of an events executor has an event, queued, or
\* counted for the time the callback is set; only an event the executor
\* discarded for a removed waitable can leave a message without one
\* (invoke_on_new_message, set_on_ready_callback, take_data).  Or the
\* publisher that stored the message is about to announce it.
DataIsAnnounced ==
    LET announcing(s) == {p \in Pubs : pub[p].pc = "signal" /\ Head(pub[p].todo)[1] = s} IN
    /\ \A s \in WaitSubs :
           cons[s] = "wait" /\ HasData(s) => gc[s] \/ announcing(s) # {}
    /\ \A s \in EventSubs :
           ring[s].n <= events[s] + unread[s] + dropped[s] + Cardinality(announcing(s))

MessagesOf(b) == [i \in 1..b.n |-> Content(b)[i][1]]

Topic == INSTANCE KeepLastTopic WITH
    member <- LivePubs \union LiveSubs,
    due <- [p \in Pubs |->
              {pub[p].todo[i][1] : i \in {j \in 1..Len(pub[p].todo) : ~(j = 1 /\ pub[p].pc = "signal")}}],
    kept <- [p \in Transient \cap Pubs |-> MessagesOf(ring[p])],
    inbox <- [s \in Subs |-> MessagesOf(ring[s])]

\* The manager, its lists of ids and its ring buffers implement the topic of
\* KeepLastTopic: every message goes once to exactly the matched
\* subscriptions registered when it is published, and the buffers are
\* first-in first-out queues that lose only their oldest message.
ImplementsTopic == Topic!Spec

\* Data do not stay in a buffer for ever: they are taken, unless the
\* subscription is removed or, with an events executor, its callback is
\* cleared or an event of it was discarded.
DataIsTaken ==
    \A s \in Subs \ Unserved :
        (status[s] = "live" /\ HasData(s)) ~>
            \/ ~HasData(s) \/ status[s] = "gone"
            \/ s \in EventSubs /\ (~attached[s] \/ dropped[s] > 0)
=============================================================================
