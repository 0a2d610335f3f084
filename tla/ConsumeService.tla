--------------------------- MODULE ConsumeService ---------------------------
(***************************************************************************)
(* Offsets in the push consumer of deps/rocketmq: one member of a consumer *)
(* group, one message queue, and the offset the broker keeps for the       *)
(* group.  A process queue caches what was pulled; every pulled batch is a *)
(* consume request on a pool thread; rebalancing drops a process queue and *)
(* adds another while requests of the old one still run; a timer, the      *)
(* rebalance thread, every pull and the shutdown send the offset table to  *)
(* the broker; a pull the broker calls illegal is repaired ten seconds     *)
(* later.  The other members of the group are one action: they run the     *)
(* same code, so that they store only offsets OffsetSafe allows.           *)
(*                                                                         *)
(* A step is what one thread does between two points where it can meet     *)
(* another: a lock of the process queue, the offset table or the table of  *)
(* process queues, the dropped_ flag, the listener, a message to the       *)
(* broker.  The pool has a thread for every request.  The listener is the  *)
(* one ConsumerNative models: success or later, for a whole batch.         *)
(*                                                                         *)
(* The timer and the rebalance thread hold consumer_table_mutex_ for a     *)
(* whole round, so that a round of one never meets a round of the other;   *)
(* the shutdown persists without it, and unregisters under it.             *)
(*                                                                         *)
(* Left out: messages that do not match the subscription (a pull brings    *)
(* all there are, putMessage and submitConsumeRequest are one step), the   *)
(* broker's reset-offset command (resetOffset, resume), and a consumer     *)
(* without another message queue, for which persistAll returns at once.    *)
(***************************************************************************)
EXTENDS Integers, FiniteSets

CONSTANTS
    Last,           \* the broker has messages 0..Last-1
    Deleted,        \* it may have deleted up to this many before the consumer starts
    BatchSize,      \* pull_batch_size
    PullThreshold,  \* pull_threshold_for_queue
    MaxQueues,      \* bound on the process queues that something still refers to
    MaxFaults       \* bound on moves of the queue, crashes, failed calls, and copies
                    \* that another thread overtakes before they are sent

ASSUME BoundAssumption ==
    /\ Last \in Nat /\ Deleted \in 0..Last
    /\ BatchSize \in Nat \ {0} /\ PullThreshold \in Nat
    /\ MaxQueues \in Nat \ {0} /\ MaxFaults \in Nat

VARIABLES
    broker,     \* the group's offset at the broker
    least,      \* the broker still holds the messages least..Last-1
    settled,    \* messages a listener accepted or that were sent back
    skipped,    \* messages passed over because an offset query met an error
    state,      \* the consumer's service state, and how far its shutdown is
    current,    \* the process queue of process_queue_table_, or the last one
    owned,      \* process_queue_table_ holds it
    table,      \* offset_table_ of the offset store, Absent without an entry
    dropped,    \* the process queues with dropped_ set
    tree,       \* per process queue: the offsets in msg_tree_map_
    top,        \* per process queue: queue_offset_max_
    pull,       \* per process queue: its pull request
    requests,   \* the consume requests: queued, or on a pool thread
    rebalance,  \* the rebalance thread
    timer,      \* the thread of persistAllConsumerOffset
    faults      \* faults so far

queueVars == <<dropped, tree, top>>
stateVars == <<state, current, owned>>
threadVars == <<rebalance, timer>>
fateVars == <<least, settled, skipped>>
vars == <<broker, fateVars, stateVars, table, queueVars, pull, requests, threadVars, faults>>

Messages == 0..(Last - 1)
Offsets == 0..Last
Absent == -1
Queues == 1..MaxQueues

Resting == [pc |-> "rest", off |-> Absent]
NoPull == [pc |-> "none", next |-> 0, off |-> Absent]
Requests == [q : Queues, msgs : SUBSET Messages, round : Nat, off : Offsets \cup {Absent},
             pc : {"queued", "listening", "removed", "checked"}]
Threads == [pc : {"rest", "send", "fetched", "put", "listed", "missed", "erase"},
            off : Offsets \cup {Absent}]
Pulls == [pc : {"none", "queued", "sent", "repair", "repairSend", "remove", "removeSend"},
          next : Offsets, off : Offsets \cup {Absent}]

TypeOK ==
    /\ broker \in Offsets /\ least \in Offsets /\ settled \in SUBSET Messages
    /\ skipped \in SUBSET Messages
    /\ state \in {"up", "stopping", "leaving", "stopped", "down"}
    /\ current \in Queues /\ owned \in BOOLEAN /\ table \in Offsets \cup {Absent}
    /\ dropped \in SUBSET Queues
    /\ tree \in [Queues -> SUBSET Messages] /\ top \in [Queues -> Offsets]
    /\ pull \in [Queues -> Pulls] /\ requests \in SUBSET Requests
    /\ rebalance \in Threads /\ timer \in Threads
    /\ faults \in 0..MaxFaults

Init ==
    /\ broker = 0 /\ least \in 0..Deleted /\ settled = {} /\ skipped = {}
    /\ faults = 0
    /\ state = "up" /\ current = 1 /\ owned = FALSE /\ table = Absent
    /\ dropped = {} /\ tree = [q \in Queues |-> {}] /\ top = [q \in Queues |-> 0]
    /\ pull = [q \in Queues |-> NoPull] /\ requests = {}
    /\ rebalance = Resting /\ timer = Resting

-----------------------------------------------------------------------------
(* The broker, the other members of the group, and helpers.                *)

\* Every message before `off` was accepted, sent back, skipped, or is deleted.
Safe(off) == \A m \in Messages : m < off => m \in settled \cup skipped \/ m < least

Fault == faults < MaxFaults /\ faults' = faults + 1

\* The pool still runs requests; the consumer is still in the client instance's table.
Serving == state \in {"up", "stopping"}
Running == state \in {"up", "stopping", "leaving"}

\* Another member, which has or had the message queue, stores an offset: a late
\* one-way call may also take the group's offset back.
Elsewhere ==
    /\ Fault
    /\ \E done \in SUBSET Messages : settled' = settled \cup done
    /\ UNCHANGED <<least, skipped, stateVars, table, queueVars, pull, requests,
                   threadVars>>
    /\ broker' \in Offsets /\ Safe(broker)'

\* updateConsumeOffsetToBroker: a one-way call, which may fail or get lost.
Send(off) ==
    \/ broker' = (IF off = Absent THEN broker ELSE off) /\ UNCHANGED faults
    \/ off # Absent /\ Fault /\ UNCHANGED broker

UpdateOffset(off, increaseOnly) ==
    table' = IF increaseOnly /\ table >= off THEN table ELSE off

RemoveOffset == table' = Absent

CacheIsFull(q) == Cardinality(tree[q]) > PullThreshold

\* The requests that will offer messages of q, or do so.
Carrying(q) == {r \in requests : r.q = q /\ r.pc \in {"queued", "listening"}}

Least(S) == CHOOSE m \in S : \A n \in S : m <= n
Greatest(S) == CHOOSE m \in S : \A n \in S : n <= m

\* (mutant) The messages still cached are forgotten.
RemainingIgnoresCache(q, msgs) == IF tree[q] = {} THEN Absent ELSE top[q] + 1

\* (mutant) Off by one when the cache empties.
RemainingPastEnd(q, msgs) ==
    IF tree[q] = {} THEN Absent
    ELSE IF tree[q] \ msgs = {} THEN top[q] + 2
    ELSE Least(tree[q] \ msgs)

\* removeMessage: the offset from which messages remain to be consumed.
Remaining(q, msgs) ==
    IF tree[q] = {} THEN Absent
    ELSE IF tree[q] \ msgs = {} THEN top[q] + 1
    ELSE Least(tree[q] \ msgs)

PutMessage(q, msgs) ==
    /\ tree' = [tree EXCEPT ![q] = @ \cup msgs]
    /\ top' = [top EXCEPT ![q] = Greatest(msgs \cup {@})]

-----------------------------------------------------------------------------
(* ConsumeRequest on a pool thread.                                        *)

Replace(r, new) == requests' = (requests \ {r}) \cup new

NewRequest(q, msgs, round) ==
    [q |-> q, msgs |-> msgs, round |-> round, off |-> Absent, pc |-> "queued"]

\* The first test of dropped(); then the listener is called.
StartRequest(r) ==
    /\ r.pc = "queued" /\ Serving
    /\ Replace(r, IF r.q \in dropped THEN {} ELSE {[r EXCEPT !.pc = "listening"]})
    /\ UNCHANGED <<broker, fateVars, stateVars, table, queueVars, pull, threadVars,
                   faults>>

\* The messages that are done leave the cache.
Remove(r, done, again) ==
    /\ Replace(r, {[r EXCEPT !.pc = "removed", !.off = Remaining(r.q, done)]} \cup again)
    /\ tree' = [tree EXCEPT ![r.q] = @ \ done]

\* The listener accepted the batch.
ReturnSuccess(r) ==
    /\ r.pc = "listening" /\ settled' = settled \cup r.msgs
    /\ IF r.q \in dropped THEN Replace(r, {}) /\ UNCHANGED tree ELSE Remove(r, r.msgs, {})
    /\ UNCHANGED <<broker, least, skipped, stateVars, table, dropped, top, pull,
                   threadVars, faults>>

\* The listener asked for the batch again, or threw.
ReturnLater(r) ==
    /\ r.pc = "listening" /\ r.q \in dropped /\ Replace(r, {})
    /\ UNCHANGED <<broker, fateVars, stateVars, table, queueVars, pull, threadVars,
                   faults>>

\* (mutant) What cannot be sent back is not submitted again.
SendBackForgets(r, failed) ==
    /\ r.pc = "listening" /\ r.q \notin dropped
    /\ IF failed = {} THEN UNCHANGED faults ELSE Fault
    /\ settled' = settled \cup (r.msgs \ failed)
    /\ Remove(r, r.msgs \ failed, {})
    /\ UNCHANGED <<broker, least, skipped, stateVars, table, dropped, top, pull,
                   threadVars>>

\* Then each message goes back to the broker; those that cannot are submitted
\* again five seconds later and stay in the cache.
SendBack(r, failed) ==
    /\ r.pc = "listening" /\ r.q \notin dropped
    /\ IF failed = {} THEN UNCHANGED faults ELSE Fault
    /\ settled' = settled \cup (r.msgs \ failed)
    /\ Remove(r, r.msgs \ failed,
              IF failed = {} THEN {} ELSE {NewRequest(r.q, failed, r.round + 1)})
    /\ UNCHANGED <<broker, least, skipped, stateVars, table, dropped, top, pull,
                   threadVars>>

\* The last test of dropped(), some time after the messages were removed.
CheckDropped(r) ==
    /\ r.pc = "removed"
    /\ Replace(r, IF r.off = Absent \/ r.q \in dropped THEN {}
                  ELSE {[r EXCEPT !.pc = "checked"]})
    /\ UNCHANGED <<broker, fateVars, stateVars, table, queueVars, pull, threadVars,
                   faults>>

Commit(r) ==
    /\ r.pc = "checked" /\ Replace(r, {}) /\ UpdateOffset(r.off, TRUE)
    /\ UNCHANGED <<broker, fateVars, stateVars, queueVars, pull, threadVars, faults>>

-----------------------------------------------------------------------------
(* Pull requests: the pull service, and the callback with the answer.      *)

SetPull(q, pc, next, off) ==
    pull' = [pull EXCEPT ![q] = [pc |-> pc, next |-> next, off |-> off]]
PullAgain(q, next) == SetPull(q, "queued", next, Absent)

\* The pull service has one thread; it is in the middle of a repair.
InRepair == \E q \in Queues : pull[q].pc \in {"repairSend", "remove", "removeSend"}

\* pullMessage: the request of a dropped queue, or of a consumer that is not registered
\* any more, ends; a full cache makes it wait; otherwise it is sent with the offset of
\* the table, if that is not 0.
PullMessage(q) ==
    /\ pull[q].pc = "queued" /\ ~InRepair
    /\ \/ /\ q \in dropped \/ state \in {"leaving", "stopped"}
          /\ pull' = [pull EXCEPT ![q] = NoPull]
       \/ /\ q \notin dropped /\ state # "stopped" /\ ~CacheIsFull(q)
          /\ SetPull(q, "sent", pull[q].next, IF table > 0 THEN table ELSE Absent)
    /\ UNCHANGED <<broker, fateVars, stateVars, table, queueVars, requests, threadVars,
                   faults>>

\* The broker stores the offset sent, and answers with what it holds from `next`
\* on; the callback is one step with that.
Stored(q) == broker' = IF pull[q].off = Absent THEN broker ELSE pull[q].off

\* (mutant) The next pull starts where this one did.
PullFoundAgain(q) ==
    /\ pull[q].pc = "sent" /\ pull[q].next >= least /\ Stored(q)
    /\ \E end \in Offsets :
         LET batch == pull[q].next..(end - 1) IN
         /\ end > pull[q].next /\ end - pull[q].next <= BatchSize
         /\ PutMessage(q, batch)
         /\ requests' = requests \cup {NewRequest(q, batch, 0)}
         /\ PullAgain(q, pull[q].next)
    /\ UNCHANGED <<fateVars, stateVars, table, dropped, threadVars, faults>>

\* FOUND: cache the batch, submit it whole, pull again.
PullFound(q) ==
    /\ pull[q].pc = "sent" /\ pull[q].next >= least /\ Stored(q)
    /\ \E end \in Offsets :
         LET batch == pull[q].next..(end - 1) IN
         /\ end > pull[q].next /\ end - pull[q].next <= BatchSize
         /\ PutMessage(q, batch)
         /\ requests' = requests \cup {NewRequest(q, batch, 0)}
         /\ PullAgain(q, end)
    /\ UNCHANGED <<fateVars, stateVars, table, dropped, threadVars, faults>>

\* NO_NEW_MSG: correctTagsOffset, then pull again.
PullEmpty(q) ==
    /\ pull[q].pc = "sent" /\ pull[q].next >= least /\ pull[q].next = Last /\ Stored(q)
    /\ IF tree[q] = {} THEN UpdateOffset(Last, TRUE) ELSE UNCHANGED table
    /\ PullAgain(q, Last)
    /\ UNCHANGED <<fateVars, stateVars, queueVars, requests, threadVars, faults>>

\* OFFSET_ILLEGAL: the broker names an offset it has; this process queue stops
\* and the offset is repaired later.
PullIllegal(q) ==
    /\ pull[q].pc = "sent" /\ pull[q].next < least /\ Stored(q)
    /\ dropped' = dropped \cup {q}
    /\ SetPull(q, "repair", least, Absent)
    /\ UNCHANGED <<fateVars, stateVars, table, tree, top, requests, threadVars, faults>>

\* onException: the request is executed later; the broker may have seen it or not.
PullFails(q) ==
    /\ pull[q].pc = "sent" /\ Fault /\ PullAgain(q, pull[q].next)
    /\ Stored(q) \/ UNCHANGED broker
    /\ UNCHANGED <<fateVars, stateVars, table, queueVars, requests, threadVars>>

\* The task of executeTaskLater sets the offset of the message queue, persists
\* it, and removes the process queue the table has by then, maybe a newer one.
Repair(q) ==
    /\ pull[q].pc = "repair" /\ ~InRepair
    /\ broker' = pull[q].next /\ owned' = FALSE
    /\ UpdateOffset(IF owned THEN Absent ELSE pull[q].next, FALSE)
    /\ dropped' = IF owned THEN dropped \cup {current} ELSE dropped
    /\ pull' = [pull EXCEPT ![q] = NoPull]
    /\ UNCHANGED <<fateVars, state, current, tree, top, requests, threadVars, faults>>

\* The same when another thread gets between: the offset is set ...
RepairStart(q) ==
    /\ pull[q].pc = "repair" /\ ~InRepair /\ Fault
    /\ UpdateOffset(pull[q].next, FALSE)
    /\ SetPull(q, "repairSend", pull[q].next, pull[q].next)
    /\ UNCHANGED <<broker, fateVars, stateVars, queueVars, requests, threadVars>>

\* ... sent ...
RepairSend(q) ==
    /\ pull[q].pc = "repairSend" /\ Send(pull[q].off)
    /\ SetPull(q, "remove", pull[q].next, Absent)
    /\ UNCHANGED <<fateVars, stateVars, table, queueVars, requests, threadVars>>

\* ... the process queue removed, and removeUnnecessaryMessageQueue done for it.
RemoveQueue(q) ==
    /\ pull[q].pc = "remove" /\ owned' = FALSE
    /\ IF owned
       THEN /\ dropped' = dropped \cup {current}
            /\ SetPull(q, "removeSend", pull[q].next, table)
       ELSE pull' = [pull EXCEPT ![q] = NoPull] /\ UNCHANGED dropped
    /\ UNCHANGED <<broker, fateVars, state, current, table, tree, top, requests,
                   threadVars, faults>>

RemoveSend(q) ==
    /\ pull[q].pc = "removeSend" /\ Send(pull[q].off)
    /\ pull' = [pull EXCEPT ![q] = NoPull] /\ RemoveOffset
    /\ UNCHANGED <<fateVars, stateVars, queueVars, requests, threadVars>>

-----------------------------------------------------------------------------
(* Rebalancing.                                                            *)

\* process_queue_table_mutex_ is free: removeProcessQueue keeps it to its end.
TableUnlocked == \A q \in Queues : pull[q].pc # "removeSend"

\* (mutant) A round of rebalancing and one of the timer may overlap.
ConsumersNotLocked == rebalance.pc = "rest" \/ timer.pc = "rest"

\* consumer_table_mutex_ is free: persistAllConsumerOffset and doRebalance keep it to
\* their end.
ConsumersUnlocked == rebalance.pc = "rest" /\ timer.pc = "rest"

\* The queue goes to another member, or its pulls stopped: set_dropped, persist.
DropQueue ==
    /\ TableUnlocked /\ Running /\ ConsumersUnlocked /\ owned /\ Fault
    /\ dropped' = dropped \cup {current}
    /\ rebalance' = [pc |-> "send", off |-> table]
    /\ UNCHANGED <<broker, fateVars, stateVars, table, tree, top, pull, requests,
                   timer>>

DropSend ==
    /\ rebalance.pc = "send" /\ Send(rebalance.off) /\ RemoveOffset
    /\ owned' = FALSE /\ rebalance' = Resting
    /\ UNCHANGED <<fateVars, state, current, queueVars, pull, requests, timer>>

\* The queue is allocated here: removeDirtyOffset, then computePullFromWhere.
\* When the offset cannot be asked for, a later round tries again; but any error
\* the broker answers is taken for "no offset yet": consume from the last one.
AddQueue ==
    /\ TableUnlocked /\ Running /\ ConsumersUnlocked /\ ~owned /\ RemoveOffset
    /\ \/ /\ rebalance' = [pc |-> "fetched", off |-> broker]
          /\ UNCHANGED <<skipped, faults>>
       \/ /\ rebalance' = [pc |-> "put", off |-> Last] /\ Fault
          /\ skipped' = skipped \cup (Messages \ settled)
       \/ Fault /\ UNCHANGED <<rebalance, skipped>>
    /\ UNCHANGED <<broker, least, settled, stateVars, queueVars, pull, requests, timer>>

\* readOffset stores the offset it was answered; not so for an error.
TableGetsOffset ==
    /\ rebalance.pc = "fetched" /\ rebalance' = [rebalance EXCEPT !.pc = "put"]
    /\ UpdateOffset(rebalance.off, FALSE)
    /\ UNCHANGED <<broker, fateVars, stateVars, queueVars, pull, requests, timer, faults>>

\* A process queue lives as long as something refers to it.
Unused(q) ==
    /\ q = current => ~owned
    /\ pull[q].pc = "none" /\ \A r \in requests : r.q # q

\* A new process queue gets its pull request.
PutQueue(q) ==
    /\ TableUnlocked /\ rebalance.pc = "put" /\ rebalance' = Resting
    /\ Unused(q) /\ \A p \in 1..(q - 1) : ~Unused(p)
    /\ current' = q /\ owned' = TRUE
    /\ dropped' = dropped \ {q} /\ tree' = [tree EXCEPT ![q] = {}]
    /\ top' = [top EXCEPT ![q] = 0]
    /\ PullAgain(q, rebalance.off)
    /\ UNCHANGED <<broker, fateVars, state, table, requests, timer, faults>>

-----------------------------------------------------------------------------
(* persistAll on the timer, the shutdown, a crash.                         *)

\* The queues and the table are copied, and what was copied is sent ...
TimerPersist ==
    /\ TableUnlocked /\ Running /\ ConsumersUnlocked /\ owned /\ Send(table)
    /\ UNCHANGED <<fateVars, stateVars, table, queueVars, pull, requests, threadVars>>

\* ... or other threads get between: the queues are copied, this one among them or not ...
TimerList ==
    /\ TableUnlocked /\ Running /\ ConsumersUnlocked
    /\ IF owned THEN Fault ELSE UNCHANGED faults
    /\ timer' = [pc |-> IF owned THEN "listed" ELSE "missed", off |-> Absent]
    /\ UNCHANGED <<broker, fateVars, stateVars, table, queueVars, pull, requests,
                   rebalance>>

\* ... then the table ...
TimerCopy ==
    /\ timer.pc \in {"listed", "missed"}
    /\ timer' = IF table = Absent THEN Resting
                ELSE IF timer.pc = "listed" THEN [pc |-> "send", off |-> table]
                ELSE [pc |-> "erase", off |-> Absent]
    /\ UNCHANGED <<broker, fateVars, stateVars, table, queueVars, pull, requests,
                   rebalance, faults>>

\* ... and what was copied is sent.
TimerSend ==
    /\ timer.pc = "send" /\ Send(timer.off) /\ timer' = Resting
    /\ UNCHANGED <<fateVars, stateVars, table, queueVars, pull, requests, rebalance>>

\* A table entry of a queue that is not among the queues copied is erased.
TimerErase ==
    /\ timer.pc = "erase" /\ RemoveOffset /\ timer' = Resting
    /\ UNCHANGED <<broker, fateVars, stateVars, queueVars, pull, requests, rebalance,
                   faults>>

\* shutdown(): the pool's threads finish the requests they are at ...
StopService ==
    /\ state = "up" /\ state' = "stopping"
    /\ UNCHANGED <<broker, fateVars, current, owned, table, queueVars, pull, requests,
                   threadVars, faults>>

\* ... the others are forgotten, and persistConsumerOffset sends the table, or erases
\* the entry of a queue that is not allocated ...
PersistAtStop ==
    /\ TableUnlocked /\ state = "stopping" /\ \A r \in requests : r.pc = "queued"
    /\ state' = "leaving" /\ requests' = {}
    /\ \/ owned /\ Send(table) /\ UNCHANGED table
       \/ ~owned /\ table' \in {table, Absent} /\ UNCHANGED <<broker, faults>>
    /\ UNCHANGED <<fateVars, current, owned, queueVars, pull, threadVars>>

\* The consumer's queues, tables and threads are gone.
Forget(how) ==
    /\ state' = how /\ current' = 1 /\ owned' = FALSE /\ table' = Absent
    /\ dropped' = {} /\ tree' = [q \in Queues |-> {}] /\ top' = [q \in Queues |-> 0]
    /\ pull' = [q \in Queues |-> NoPull] /\ requests' = {}
    /\ rebalance' = Resting /\ timer' = Resting

\* ... unregisterConsumer waits for the end of a round; then the client instance joins
\* its threads, and every queue is dropped.
LeaveGroup ==
    /\ state = "leaving" /\ ConsumersUnlocked /\ ~InRepair
    /\ Forget("stopped") /\ UNCHANGED <<broker, fateVars, faults>>

\* MQClientInstance::shutdown returns at once when another client of the process uses
\* the instance: its threads, and the pulls and repairs that are due, go on.
LeaveShared ==
    /\ state = "leaving" /\ ConsumersUnlocked /\ TableUnlocked
    /\ state' = "stopped" /\ owned' = FALSE
    /\ dropped' = IF owned THEN dropped \cup {current} ELSE dropped
    /\ UNCHANGED <<broker, fateVars, current, table, tree, top, pull, requests,
                   threadVars, faults>>

Crash ==
    /\ state \notin {"stopped", "down"} /\ Fault
    /\ Forget("down") /\ UNCHANGED <<broker, fateVars>>

Restart ==
    /\ state = "down" /\ state' = "up"
    /\ UNCHANGED <<broker, fateVars, current, owned, table, queueVars, pull, requests,
                   threadVars, faults>>

-----------------------------------------------------------------------------
RequestNext ==
    \E r \in requests :
      \/ StartRequest(r) \/ ReturnSuccess(r) \/ ReturnLater(r)
      \/ \E failed \in SUBSET r.msgs : SendBack(r, failed)
      \/ CheckDropped(r) \/ Commit(r)

PullNext(q) ==
    \/ PullMessage(q) \/ PullFound(q) \/ PullEmpty(q) \/ PullIllegal(q)
    \/ Repair(q) \/ RepairSend(q) \/ RemoveQueue(q) \/ RemoveSend(q)

RebalanceNext ==
    DropSend \/ AddQueue \/ TableGetsOffset \/ \E q \in Queues : PutQueue(q)
TimerNext == TimerPersist \/ TimerList \/ TimerCopy \/ TimerSend \/ TimerErase
StopNext == PersistAtStop \/ LeaveGroup \/ LeaveShared

Next ==
    \/ Elsewhere \/ DropQueue \/ StopService \/ Crash \/ Restart
    \/ RequestNext \/ RebalanceNext \/ TimerNext \/ StopNext
    \/ \E q \in Queues : PullNext(q) \/ PullFails(q) \/ RepairStart(q)

\* Every thread that can step does; a consumer need not stop, move or restart.  Who waits
\* for consumer_table_mutex_ gets it: the timer and rebalancing sleep between rounds.
Fairness ==
    /\ WF_vars(RequestNext) /\ SF_vars(RebalanceNext) /\ SF_vars(TimerNext)
    /\ SF_vars(StopNext) /\ \A q \in Queues : WF_vars(PullNext(q))

Spec == Init /\ [][Next]_vars /\ Fairness

-----------------------------------------------------------------------------
(* Properties.                                                             *)

\* At-least-once delivery across threads, moves, crashes and repairs: neither
\* the group's offset nor the entry of the offset table, from which pulls, persists
\* and restarts take it, ever passes a message that nobody accepted, sent back or
\* deleted (an offset query that met an error may have skipped it), also when a
\* request of a dropped process queue writes the table after its last test of dropped().
OffsetSafe == Safe(broker) /\ Safe(table)

Live == state = "up" /\ owned /\ current \notin dropped

\* Every message in the cache of the live process queue is carried by exactly
\* one request that will offer it: none is stranded there, which would hold the
\* offset back for good, and none is offered twice without a fault.
EachCachedOnce ==
    Live => \A m \in tree[current] :
              Cardinality({r \in Carrying(current) : m \in r.msgs}) = 1

\* While a process queue stays live and no repair is due, its entry of the table
\* neither goes back nor is erased: whichever of the requests that removed their
\* messages in one order commits in another, and whatever a round of the timer, or of
\* rebalancing, saw before the queue was added.  It rests on consumer_table_mutex_.
TableKept ==
    [][/\ Live /\ Live' /\ current = current'
       /\ \A q \in Queues : pull[q].pc \in {"none", "queued", "sent"}
       => table' >= table]_vars

\* A consumer that stays up gets through the message queue: in the end the group's
\* offset at the broker is behind the last message, whatever was lost, stopped,
\* repaired or taken back on the way; with OffsetSafe, every message was dealt with.
EventuallyCommitted == <>[](state = "up") => []<>(broker = Last)
=============================================================================
