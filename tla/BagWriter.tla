----------------------------- MODULE BagWriter -----------------------------
(***************************************************************************)
(* The recording side of rosbag2: SequentialWriter with its double         *)
(* buffered message cache and the consumer thread that writes it to the    *)
(* current bag file.  In normal mode (MessageCache) every message that     *)
(* finds room is written; in snapshot mode (CircularMessageCache) the      *)
(* newest messages are kept and written when a snapshot is taken.          *)
(*                                                                         *)
(* Writer::write, split_bagfile and close hold writer_mutex_, so one       *)
(* writing thread stands for all of them; take_snapshot does not and runs  *)
(* in a thread of its own (the recorder's service).                        *)
(***************************************************************************)
EXTENDS Naturals, Sequences, FiniteSets

CONSTANTS
    MaxBytes,       \* max_cache_size of a buffer
    Sizes,          \* the sizes messages may have
    MaxMsgs,        \* bound: messages written
    MaxFiles,       \* bound: files of the bag
    MaxSnapshots    \* bound: snapshots taken

ASSUME CacheAssumption ==
    /\ MaxBytes \in Nat \ {0}
    /\ Sizes \subseteq Nat \ {0} /\ IsFiniteSet(Sizes)
    /\ MaxMsgs \in Nat /\ MaxFiles \in Nat \ {0} /\ MaxSnapshots \in Nat

VARIABLES
    snapshot_mode,      \* which of the two caches is used
    producer_buffer,    \* sequences of messages [id, size]
    consumer_buffer,
    data_ready,
    flushing,           \* flushing_ of the cache
    is_stop_issued,
    thread,             \* the consumer thread: [pc, final]
    user,               \* the thread that writes: [pc, op, size]
    service,            \* the thread that takes snapshots
    sent,               \* messages handed to write so far
    snapshots,          \* snapshots taken so far
    file,               \* the number of the file that is open
    files,              \* files[k]: what the k-th file holds
    accepted            \* accepted[k]: what the cache accepted for it (history)

cacheVars == <<producer_buffer, consumer_buffer>>
flagVars == <<data_ready, flushing, is_stop_issued>>
countVars == <<sent, snapshots, snapshot_mode>>
fileVars == <<file, files, accepted>>
vars == <<cacheVars, flagVars, thread, user, service, countVars, fileVars>>

Messages == [id : 1..MaxMsgs, size : Sizes]

Bytes(b) ==
    LET upTo[i \in 0..Len(b)] == IF i = 0 THEN 0 ELSE upTo[i - 1] + b[i].size
    IN  upTo[Len(b)]

-----------------------------------------------------------------------------
(* The two kinds of buffers *)

\* Mutant: the message is dropped only when the buffer is over its limit.
HasRoomAtLimit(b) == Bytes(b) <= MaxBytes

\* MessageCacheBuffer: drop_messages_ is set by the push that reaches the
\* limit and reset by clear.
HasRoom(b) == Bytes(b) < MaxBytes

\* MessageCacheCircularBuffer: the newest messages that fit.  A message that
\* is larger than the buffer is dropped.
PushCircular(b, m) ==
    IF m.size > MaxBytes THEN b
    ELSE LET first == CHOOSE i \in 1..(Len(b) + 1) :
                          /\ Bytes(SubSeq(b, i, Len(b))) <= MaxBytes - m.size
                          /\ \A j \in 1..(i - 1) : Bytes(SubSeq(b, j, Len(b))) > MaxBytes - m.size
         IN  Append(SubSeq(b, first, Len(b)), m)

-----------------------------------------------------------------------------
(* Writing *)

\* write: the message may first make the writer split the bag (size and
\* duration of the file are left open).
Write ==
    /\ user.pc = "idle"
    /\ sent < MaxMsgs
    /\ sent' = sent + 1
    /\ \E size \in Sizes, should_split_bagfile \in {FALSE, file < MaxFiles} :
           user' = [pc |-> IF should_split_bagfile THEN "flush" ELSE "push",
                    op |-> "write", size |-> size]
    /\ UNCHANGED <<cacheVars, flagVars, thread, service, snapshots, snapshot_mode, fileVars>>

\* push, under producer_buffer_mutex_
Push ==
    /\ user.pc = "push"
    /\ LET m == [id |-> sent, size |-> user.size]
           pushed == ~snapshot_mode /\ HasRoom(producer_buffer)
       IN  /\ producer_buffer' =
                  IF snapshot_mode THEN PushCircular(producer_buffer, m)
                  ELSE IF pushed THEN Append(producer_buffer, m) ELSE producer_buffer
           /\ accepted' = [accepted EXCEPT ![file] = IF pushed THEN Append(@, m) ELSE @]
    /\ user' = [user EXCEPT !.pc = IF snapshot_mode THEN "idle" ELSE "ready"]
    /\ UNCHANGED <<consumer_buffer, flagVars, thread, service, countVars, file, files>>

\* notify_data_ready: the flag, under the mutex, ...
Ready ==
    /\ user.pc = "ready"
    /\ data_ready' = TRUE
    /\ user' = [user EXCEPT !.pc = "notify"]
    /\ UNCHANGED <<cacheVars, flushing, is_stop_issued, thread, service, countVars, fileVars>>

\* notify_one: a thread in the wait checks the condition again.
NotifyOne ==
    thread' = [thread EXCEPT !.pc = IF @ = "asleep" THEN "woken" ELSE @]

\* ... then the condition variable.
Notify ==
    /\ user.pc = "notify"
    /\ NotifyOne
    /\ user' = [user EXCEPT !.pc = "idle"]
    /\ UNCHANGED <<cacheVars, flagVars, service, countVars, fileVars>>

SplitBagfile ==
    /\ user.pc = "idle"
    /\ file < MaxFiles
    /\ user' = [user EXCEPT !.pc = "flush", !.op = "split"]
    /\ UNCHANGED <<cacheVars, flagVars, thread, service, countVars, fileVars>>

Close ==
    /\ user.pc = "idle"
    /\ user' = [user EXCEPT !.pc = "flush", !.op = "close"]
    /\ UNCHANGED <<cacheVars, flagVars, thread, service, countVars, fileVars>>

\* CacheConsumer::stop: begin_flushing, is_stop_issued_, join, done_flushing
BeginFlushing ==
    /\ user.pc = "flush"
    /\ flushing' = TRUE
    /\ user' = [user EXCEPT !.pc = "notify_flush"]
    /\ UNCHANGED <<cacheVars, data_ready, is_stop_issued, thread, service, countVars, fileVars>>

\* Mutant: the condition variable is not notified of the flush.
NotifyNobody ==
    /\ user.pc = "notify_flush"
    /\ user' = [user EXCEPT !.pc = "stop"]
    /\ UNCHANGED <<cacheVars, flagVars, thread, service, countVars, fileVars>>

NotifyFlushing ==
    /\ user.pc = "notify_flush"
    /\ NotifyOne
    /\ user' = [user EXCEPT !.pc = "stop"]
    /\ UNCHANGED <<cacheVars, flagVars, service, countVars, fileVars>>

IssueStop ==
    /\ user.pc = "stop"
    /\ is_stop_issued' = TRUE
    /\ user' = [user EXCEPT !.pc = "join"]
    /\ UNCHANGED <<cacheVars, data_ready, flushing, thread, service, countVars, fileVars>>

\* After close, the cache and the storage are destroyed.
Join ==
    /\ user.pc = "join"
    /\ thread.pc = "done"
    /\ flushing' = FALSE
    /\ user' = [user EXCEPT !.pc = IF user.op = "close" THEN "closed" ELSE "switch"]
    /\ UNCHANGED <<cacheVars, data_ready, is_stop_issued, thread, service, countVars, fileVars>>

\* switch_to_next_storage: the next file is opened and the consumer thread
\* is started again; a write then goes on with its message.
SwitchToNextStorage ==
    /\ user.pc = "switch"
    /\ file' = file + 1
    /\ is_stop_issued' = FALSE
    /\ thread' = [pc |-> "wait", final |-> FALSE]
    /\ user' = [user EXCEPT !.pc = IF user.op = "write" THEN "push" ELSE "idle"]
    /\ UNCHANGED <<cacheVars, data_ready, flushing, service, countVars, files, accepted>>

-----------------------------------------------------------------------------
(* Snapshots *)

TakeSnapshot ==
    /\ snapshot_mode
    /\ user.pc # "closed"
    /\ service = "idle" /\ snapshots < MaxSnapshots
    /\ data_ready' = TRUE
    /\ snapshots' = snapshots + 1
    /\ service' = "notify"
    /\ UNCHANGED <<cacheVars, flushing, is_stop_issued, thread, user, sent, snapshot_mode, fileVars>>

NotifySnapshot ==
    /\ service = "notify"
    /\ NotifyOne
    /\ service' = "idle"
    /\ UNCHANGED <<cacheVars, flagVars, user, countVars, fileVars>>

-----------------------------------------------------------------------------
(* exec_consuming: the consumer thread *)

\* wait_for_data: a thread that comes while the cache is flushing does not
\* wait; one that was in the wait, woken by a flush or by data, then resets
\* the flag (MessageCache only).
WaitForData ==
    /\ thread.pc \in {"wait", "woken"}
    /\ IF flushing \/ data_ready
       THEN LET waits == thread.pc = "woken" \/ ~flushing
            IN  /\ thread' = [thread EXCEPT !.pc = "swap"]
                /\ data_ready' = (data_ready /\ (snapshot_mode \/ ~waits))
       ELSE thread' = [thread EXCEPT !.pc = "asleep"] /\ UNCHANGED data_ready
    /\ UNCHANGED <<cacheVars, flushing, is_stop_issued, user, service, countVars, fileVars>>

SpuriousWakeup ==
    /\ thread.pc = "asleep"
    /\ thread' = [thread EXCEPT !.pc = "woken"]
    /\ UNCHANGED <<cacheVars, flagVars, user, service, countVars, fileVars>>

\* MessageCache (message_cache.cpp) swaps always, CircularMessageCache
\* (circular_message_cache.cpp) when a snapshot was asked.
SwapBuffers ==
    /\ thread.pc = "swap"
    /\ IF ~snapshot_mode
       THEN /\ producer_buffer' = consumer_buffer
            /\ consumer_buffer' = producer_buffer
            /\ UNCHANGED data_ready
       ELSE IF data_ready
       THEN /\ producer_buffer' = <<>>
            /\ consumer_buffer' = producer_buffer
            /\ data_ready' = FALSE
       ELSE UNCHANGED <<producer_buffer, consumer_buffer, data_ready>>
    /\ thread' = [thread EXCEPT !.pc = "consume"]
    /\ UNCHANGED <<flushing, is_stop_issued, user, service, countVars, fileVars>>

\* write_messages writes the whole buffer to the file that is open.
Consume ==
    /\ thread.pc = "consume"
    /\ files' = [files EXCEPT ![file] = @ \o consumer_buffer]
    /\ thread' = [thread EXCEPT !.pc = "clear"]
    /\ UNCHANGED <<cacheVars, flagVars, user, service, countVars, file, accepted>>

Clear ==
    /\ thread.pc = "clear"
    /\ consumer_buffer' = <<>>
    /\ thread' = [thread EXCEPT !.pc = "check"]
    /\ UNCHANGED <<producer_buffer, flagVars, user, service, countVars, fileVars>>

\* Mutant: the thread ends as soon as it sees that a stop was issued.
CheckOnce ==
    /\ thread.pc = "check"
    /\ thread' = [pc |-> IF is_stop_issued THEN "done" ELSE "wait", final |-> FALSE]
    /\ UNCHANGED <<cacheVars, flagVars, user, service, countVars, fileVars>>

\* One more round after a stop was seen.
Check ==
    /\ thread.pc = "check"
    /\ thread' = [pc |-> IF thread.final THEN "done" ELSE "wait",
                  final |-> thread.final \/ is_stop_issued]
    /\ UNCHANGED <<cacheVars, flagVars, user, service, countVars, fileVars>>

-----------------------------------------------------------------------------

Init ==
    /\ snapshot_mode \in BOOLEAN
    /\ producer_buffer = <<>> /\ consumer_buffer = <<>>
    /\ data_ready = FALSE /\ flushing = FALSE /\ is_stop_issued = FALSE
    /\ thread = [pc |-> "wait", final |-> FALSE]
    /\ user = [pc |-> "idle", op |-> "write", size |-> 0]
    /\ service = "idle"
    /\ sent = 0 /\ snapshots = 0
    /\ file = 1
    /\ files = [k \in 1..MaxFiles |-> <<>>]
    /\ accepted = [k \in 1..MaxFiles |-> <<>>]

UserStep ==
    \/ Push \/ Ready \/ Notify
    \/ BeginFlushing \/ NotifyFlushing \/ IssueStop \/ Join \/ SwitchToNextStorage

ThreadStep == WaitForData \/ SwapBuffers \/ Consume \/ Clear \/ Check

Next ==
    \/ Write \/ SplitBagfile \/ Close \/ UserStep
    \/ TakeSnapshot \/ NotifySnapshot
    \/ ThreadStep \/ SpuriousWakeup

Spec == Init /\ [][Next]_vars

\* The threads go on with what they have begun; nobody has to write, split,
\* close or take a snapshot, and nothing wakes a sleeping thread by itself.
FairSpec ==
    Spec /\ WF_vars(UserStep) /\ WF_vars(NotifySnapshot) /\ WF_vars(ThreadStep)

-----------------------------------------------------------------------------
(* Properties *)

TypeOK ==
    /\ snapshot_mode \in BOOLEAN
    /\ producer_buffer \in Seq(Messages) /\ consumer_buffer \in Seq(Messages)
    /\ data_ready \in BOOLEAN /\ flushing \in BOOLEAN /\ is_stop_issued \in BOOLEAN
    /\ thread \in [pc : {"wait", "asleep", "woken", "swap", "consume", "clear", "check",
                         "done"},
                   final : BOOLEAN]
    /\ user \in [pc : {"idle", "push", "ready", "notify", "flush", "notify_flush", "stop",
                       "join", "switch", "closed"},
                 op : {"write", "split", "close"}, size : Sizes \union {0}]
    /\ service \in {"idle", "notify"}
    /\ sent \in 0..MaxMsgs /\ snapshots \in 0..MaxSnapshots
    /\ file \in 1..MaxFiles
    /\ files \in [1..MaxFiles -> Seq(Messages)]
    /\ accepted \in [1..MaxFiles -> Seq(Messages)]

\* What has left the producer and has not reached a file, then what waits.
Pending ==
    (IF thread.pc = "clear" THEN <<>> ELSE consumer_buffer) \o producer_buffer

Increasing(q) == \A i, j \in 1..Len(q) : i < j => q[i].id < q[j].id

\* Normal mode: the files that were closed by a split hold exactly what the
\* cache accepted for them, in that order, and the file that is open holds
\* it up to what is still in the two buffers: no message is lost, written
\* twice, out of order or into the wrong file, however the consumer thread
\* is stopped and started (CacheConsumer::stop, exec_consuming).  Snapshot
\* mode: nothing is written twice or out of order, in one file or in two.
NothingLost ==
    IF snapshot_mode
    THEN \A k \in 1..MaxFiles :
             /\ \A l \in (k + 1)..MaxFiles : Increasing(files[k] \o files[l])
             /\ Increasing(files[k] \o Pending)
    ELSE \A k \in 1..MaxFiles :
             accepted[k] = IF k = file THEN files[k] \o Pending ELSE files[k]

\* "The buffer can at times use more memory than max_cache_size, but never
\* by more than a single message"; the circular one never does
\* (MessageCacheBuffer::push, MessageCacheCircularBuffer::push).
BufferBound ==
    \A b \in {producer_buffer, consumer_buffer} :
        IF snapshot_mode \/ b = <<>> THEN Bytes(b) <= MaxBytes
        ELSE Bytes(SubSeq(b, 1, Len(b) - 1)) < MaxBytes

Holds(q, id) == \E i \in 1..Len(q) : q[i].id = id

\* Every call of the writer returns (the join inside stop too), a message
\* that was accepted is written, and a snapshot that was taken is written
\* unless the bag is closed before.
WriterProgress ==
    /\ user.pc \notin {"idle", "closed"} ~> user.pc \in {"idle", "closed"}
    /\ \A id \in 1..MaxMsgs :
           (\E k \in 1..MaxFiles : Holds(accepted[k], id)) ~>
               (\E k \in 1..MaxFiles : Holds(files[k], id))
    /\ (snapshot_mode /\ data_ready) ~> (~data_ready \/ user.pc = "closed")
=============================================================================
