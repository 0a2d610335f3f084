# A TLA+ model of the RocketMQ addon for Node.js

This directory specifies, model-checks and partly proves the core of the addon: a
JavaScript producer and push consumer (`src/*.ts`) on top of an N-API layer
(`lib/*.cpp`), which drives the vendored RocketMQ C++ SDK (`deps/rocketmq`). Paths
below are relative to the repository root.

What makes the addon hard is that one call crosses three worlds. JavaScript runs
on one thread and never blocks; libuv workers start and stop the SDK clients; the
SDK calls back from threads of its own. They meet in thread-safe functions (TSFNs),
which Node frees when the last thread releases them, and in C++ objects that the
garbage collector deletes. A message sent, a message consumed and a client that is
shut down must survive every order in which these threads can run.

## The system

| Part | State it keeps | Operations |
|---|---|---|
| **JavaScript producer** `src/producer.ts` | status, `shutdownCompleted`, `operationQueue`, `pendingOperations`, `pendingShutdownPromise`, the settlers of unanswered sends; per process `producerRef` and the keep-alive interval | `start`, `shutdown`, `send`, the callbacks of the native layer, the drain at shutdown |
| **Native producer** `lib/producer.cpp` | lifecycle, `shutdown_worker_active_`, `sdk_shutdown_called_`, two mutexes, `PendingSendState` (count, generation, TSFN handles, callbacks), the cancel timer thread; per send a `ProducerSendCallback` and its context | `Start`, `Shutdown` and its retry, `Send`, `ForceDestroy`, destructor, start and shutdown worker, timer, `ScheduleCallback`, `CallJs`, `Finalize` |
| **JavaScript consumer** `src/consumer.ts` | as the producer, plus `outstandingAcks`, `ackGeneration` and the handler zone | `start`, `shutdown`, message delivery, `ack.done`, the wait for outstanding acks |
| **Native push consumer** `lib/push_consumer.cpp`, `lib/consumer_ack.cpp` | lifecycle and flags, `native_access_mutex_`, the listener: TSFN, `shutdown_requested_`, `released_`, `inflight_`; per message a promise and an ack | `SetListener`, `Start`, `Shutdown` and its retry, `Subscribe`, `ForceDestroy`, destructor, both workers, `consumeMessage`, `CallConsumerMessageJsListener`, `Done` |
| **SDK clients** `deps/rocketmq/src` | client instances shared by client id, routes, transport | `start`, `shutdown`, `send` with a callback, `consumeMessage` on a pool |
| **SDK consume service** `deps/rocketmq/src/consumer` | per message queue a process queue (message tree, highest offset, `dropped_`) and a pull request; the consume requests on the pool; the offset table; the offset at the broker | pull and its callback, consume request, send back, commit, `persist`, `persistAll`, dropping and adding a queue, the repair of an illegal offset, `shutdown` |
| **Entry and helpers** `lib/rocketmq.cpp`, `lib/common_utils.*`, `src/binding.ts` | class constructors per environment | loading, option parsing |

How they interact. A JavaScript `shutdown()` is chained on `operationQueue`; its turn
calls the native `Shutdown`, which starts the cancel timer and queues a libuv worker;
the worker joins the timer, calls the SDK, deletes what is left and completes on the
main thread, whose callback resolves the promise. A `send()` registers a settler, the
native `Send` creates a TSFN and hands a raw callback pointer to the SDK; an SDK
thread queues the outcome on the TSFN; the main thread tells JavaScript and releases
the pending count. A message arrives on a consume thread, which acquires a unit of the
listener's TSFN, queues the message and polls for the ack until it is there, a
shutdown was requested, or 30 s have passed. What the listener returns decides which
messages leave the process queue and, with them, the offset the consumer stores for its
group; the next consumer of that queue, after a rebalance or a restart, begins there.

### Hard behaviours, and the properties they call for

- *Ownership of a TSFN.* `ScheduleCallback`, `CancelPendingSends` and a destructor race
  to release it. -> `TsfnUsedOnlyWhileOwned`; for the consumer `TsfnOpenWhileUsed`.
- *Ownership of memory.* Raw callback pointers are held by the SDK and deleted by the
  shutdown worker. -> `NoUseAfterDelete`, `NothingLeftBehind`.
- *Accounting.* The pending count is given back by five pieces of code, the ack count by
  handlers of any age. -> `PendingCountExact`, `AcksExact`, `KeepAliveExact`.
- *Two state machines that must agree.* Each wrapper decides by a status of its own what the
  native client will accept. -> `NativeInStep`.
- *Telling the caller.* Once, and the truth. -> `ToldAtMostOnce`, `ImplementsSendService`,
  `SendsReported`, `SettledOnce`, `SendsSettled`; for messages `SuccessMeansAllAcked`,
  `ImplementsDeliveryService`, `CallsReturn`. `CallJs` and `CallConsumerMessageJsListener`
  test whether a shutdown came in between, and call JavaScript some lines later without a
  lock: the abstract services say how much may slip through there.
- *Shutdown.* It waits for sends and acks, but not for ever; it can fail and be retried;
  it joins threads that wait for the thread that joins. -> `ShutdownWaitsForSends`,
  `ShutdownTerminates` and `PinsDropped`; for the consumer `NoCircularWait`,
  `ShutdownLeavesNothing`, `DestroyTerminates`; in JavaScript `NoSendOutlivesShutdown`,
  `ResolvedMeansDrained`, `TimeoutBlamesAnother`, `CallsAnswered`.
- *One-shot life.* A client is started once. -> `ImplementsOneShot`.
- *Offsets.* A request tests `dropped()`, and commits later; offsets are copied and sent
  later by a call nobody confirms; a repair removes whatever queue there is by then.
  -> `OffsetSafe`, `TableKept`, `EachCachedOnce`, `EventuallyCommitted`.

`PROJECT.json` lists every hazard at its line with the properties that cover it, or the
reason why none does.

## The modules

```
SendService      DeliveryService        OneShotClient        what is promised
     ^                  ^                ^         ^
ProducerNative   ConsumerNative   ProducerWrapper  ConsumerWrapper   what the code does
     ^                  ^                ^                ^     ConsumeService
     |                  |                |                |         ^
     |                  |                |                |         +-- ConsumeService_proofs
     |                  |                |                +-- ConsumerWrapper_proofs
     |                  |                +-- ProducerWrapper_proofs
     |                  +-- MCConsumerNative
     |                  +-- ConsumerNative_proofs <- ConsumerStop_proofs
     +-- MCProducerNative
     +-- ProducerNative_proofs <- ProducerShutdown_proofs <- ProducerService_proofs
```

**ProducerNative** is `lib/producer.cpp`. The main thread is a record (operation, program
counter, the send it is in, where to return to), because a getter of the send options
or a send callback may call `shutdown()` re-entrantly and because `SafeShutdown`, the
destructor and a failed `Queue()` share steps. The timer and the two workers have a
program counter each, and so has the SDK thread of each send (`sdk`). Per send the model
keeps the life of the callback object, `tsfn_released_`, the state of the TSFN, the event
queued on it, and what JavaScript was told. Regions under `state_mutex_` or
`PendingSendState::mutex` are one step; atomics are steps of their own where another
thread can come in between (`CancelPendingSends` is bump, take, abort; `CallJs` compares
the generations, and `CallJsTells` tells JavaScript what was decided then);
`native_access_mutex_` is a variable since it is held across SDK calls. There is one
record for the shutdown worker although a retry may queue another: the theorem
`OneWorkerAtATime` says that a retry is let through only when the worker before has nothing
left to do but its completion, so that no two are ever at work. The retry overwrites the
record, and drops with it only that completion, which calls a JavaScript callback and touches
no state of the model.

**SendService** is what a producer promises about admitted sends. ProducerNative
implements it under the mapping at the end of the module; `released` and `wiped` decide
whether a send is pending, settled or given up. The service decides that a send is to be
told its result (`Decide`) and tells it later; between the two it may give up on the send,
which `CancelPendingSends` does when it runs between `lib/producer.cpp:875` and 906. So one
send at a time, the one `CallJs` is at, can be reported as sent after the shutdown has given
up on it; every other one that was given up is told an error, or nothing.

**ProducerWrapper** is `src/producer.ts` over the lifecycle contract of the native
producer: which calls it accepts, that a queued worker calls back, that each send is
called back at most once. An action is one run of synchronous JavaScript. `NoSendOutlivesShutdown`
is about the promises and not about the map: a promise that is pending is in the map of a
producer that is not over, where the drain of the shutdown will find it.

**ConsumerNative** is `lib/push_consumer.cpp` with `lib/consumer_ack.cpp`. The stop
sequence (request, wait for idle, take the flag, lock, stop, join, finalize) occurs four
times in the code, in the shutdown worker, the start worker, `SafeShutdown` and the
destructor; it is written once, as `StopStep(t)`, with the differences between the
copies in its guards. A consume thread is `CallThread(c)`. The test of `shutdown_requested_`
before a message (`lib/push_consumer.cpp:744`) and the call of the listener (816) are two
steps: a message that passed the test is `passed` until `CallJsDelivers`. The shutdown worker
is one record here too, by the theorem `ShutdownWorkerFlag`. The following merges are sound
and keep the model small: `shutdown_requested_` is tested three times between the
head of the loop and the TSFN and never cleared, so the last test decides; the events of
the TSFN are taken in any order, as each sets a promise of its own; the body of a
listener is atomic and its later `done()` a step of its own.

**DeliveryService** is what a consumer promises about batches. A message whose turn has come
is due (`ComeDue`) before the application is asked (`Ask`): the one message that is due when
the service closes may still be put to it, and no other.

**ConsumerWrapper** is `src/consumer.ts`; a handler may shut its own consumer down before or
after it acked and may await that, which suspends it (`waits`). The callback given to
`shutdown()` runs inside a promise reaction and may throw; the `.catch` behind it, which is
meant for the deadline of the acks, then runs `cleanupShutdown` a second time and calls the
callback again with the error (`CatchRuns`). `KeepAliveExact` therefore counts off one for
each callback that threw, and `consumerRef` may become negative: the count is exact, and wrong
by that much (finding 2). `ResolvedMeansDrained` says which handlers a resolved shutdown has
not waited for: the one that called it; or, when that one acks after its call, one other in
its stead, since the exemption is a number. **OneShotClient** is the life of both
wrappers as the README of the repository promises it ("one-shot").

**ConsumeService** is what the SDK does with the batches a listener accepted or refused
(`ConsumeMessageConcurrentlyService`, `ProcessQueue`, `RemoteBrokerOffsetStore`, and the
pull, repair and rebalance code around them), for one member of a group and one message
queue. It is the other side of the call that ConsumerNative models: that module says what
`consumeMessage` answers, this one what the answer does to the offset, so here the
listener may answer either way at any time. The other members are one action,
`Elsewhere`: they run the same code, so that they store only offsets which `OffsetSafe`
allows, an assumption the module itself discharges for its own member. A step is what
one thread does between two points where it can meet another thread. Copies of an offset
that are sent at once are one step (`TimerPersist`, `Repair`); that another thread gets
between list, copy and send is the separate, counted `TimerList` or `RepairStart` (a list
without the queue is not counted). `persistAll` lists the allocated queues, then copies the
table, and at the end erases the entries of queues it did not list (`TimerErase`). A round of
the timer and one of rebalancing each hold `consumer_table_mutex_` of the client instance
from beginning to end (`ConsumersUnlocked`), so that the queue cannot be added between list
and erasing; without that mutex `TableKept` fails. `readOffset` writes the table before the
process queue exists (`TableGetsOffset`), and not at all for an error. While the consume
service stops, rebalancing, the timer and the pulls go on (`Serving`, `Running`); then the
client instance joins its threads (`LeaveGroup`), or returns at once when another client uses
it, so that they go on (`LeaveShared`).
`removeProcessQueue` keeps `process_queue_table_mutex_` while it sends, which is what
`TableUnlocked` says to the other users of that table; the pull service has one thread,
hence `InRepair`. A process queue is an index that is used again when nothing refers to
it any more; `round` keeps apart two requests for the same messages.

What the models of the addon take from the SDK, from its source: `producer_.send` accepts or throws
and an accepted send is called back at most once; `DefaultMQProducerImpl::shutdown` joins
the callback threads, but only when no other client uses the same `MQClientInstance`
(constant `SharedInstance`); `DefaultMQPushConsumerImpl::start` may deliver before it
returns and leaves nothing running if it throws; its `shutdown` acts on a running
consumer only and joins the consume threads before anything in it can throw.

## The runs

Every run ends in seconds or a few minutes. `Sends`, `Calls`, `Messages` are names for
individual operations, so their number bounds how many occur in one behaviour;
`MaxFaults` bounds how many calls fail.

| Run | Instance | Shows |
|---|---|---|
| `producer_safety` | 2 sends, 1 fault, own instance | types, memory, counting, waiting for sends; no deadlock |
| `producer_hooks` | 2 sends, shared instance, SDK shutdown may throw, `__testForceDestroy`, re-entrancy, 2 faults | TSFN ownership, single report, complete clean-up; no deadlock |
| `producer_live` | 2 sends, shared instance, SDK shutdown may throw, fairness | SendService is implemented; shutdown ends, pins are dropped, sends are reported |
| `producer_shared_instance` | 1 send | finding: use after delete |
| `wrapper` | 2 producers, 3 calls, 2 sends, fairness | timer, settlers, agreement with the native producers, one-shot life, every call answered |
| `consumer_safety` | 2 consume calls of 2 messages, 2 listeners, 2 faults, stalled threads | acks, TSFN, shutdown, DeliveryService is implemented; no deadlock |
| `consumer_live` | 2 calls, `__testForceDestroy`, fairness | nobody waits in a circle; shutdown and destruction end, calls return |
| `consumer_retry` | the `FailedShutdownStaysShut` comment | finding: rollback of a failed retry |
| `cwrapper` | 2 consumers, 3 calls, 2 messages, fairness | ack count, exemption, queue, shutdown callbacks that throw, every call answered |
| `consumer_twice` | 2 consumers, 3 calls, no messages | finding: a shutdown is answered twice |
| `cwrapper_overlap` | 1 consumer, 3 calls, 1 message | finding: two shutdowns wait for each other |
| `consume_offsets` | 2 messages of which 1 may be deleted, batches of up to 2, 2 process queues, 1 fault, fairness | no offset passes an unfinished message, none is stranded or lost, the queue is finished |

*Why these bounds are enough.* Two sends give every pair of threads that meet over two
callbacks: one is deleted, aborted or counted while the other is called back, built or
answered. Two faults make a shutdown fail and its retry fail too. Two consume threads with
batches of two messages let one be in the middle of a batch while the other returns; two
listeners make a replacement. Three calls on a wrapper are a start, a shutdown and an
overlapping call of either kind, on one object or on two that share the interval; a client
is one-shot, so longer histories add only refusals. Two messages and batches of one or two
let two requests finish in the opposite order, half a batch fail to go back, and a deleted
message make an offset illegal; two process queues are the dropped one, whose requests and
repair are still about, and its successor: with `MaxQueues = 3` TLC finds the same states,
because one fault leaves no third alive. One fault also means that a repair which is overtaken
does not meet a queue that moves: with two faults the safety properties hold as well (3.2
million states), but the liveness property takes longer than a run should, so that its run has
one. The proofs have none of these bounds.

*Fairness.* Weak fairness for the main thread's own steps, the workers and the timer:
threads that can run, run. Nothing makes the application call, answer, ack or drop
anything, nor the SDK deliver or call back; where a property needs an answer, it says so
as a hypothesis (`SdkAnswers` in `SendsReported`, the deadline in `CallsReturn`). The
completions of the consumer's workers have strong fairness: an application that calls
`subscribe` without end keeps the main thread busy again and again, but libuv does not
starve a finished worker. In the wrappers microtasks and timers run, and a queued native
worker calls back, which is what `ShutdownTerminates` of the native models establishes. In
ConsumeService a request and a pull run, under weak fairness, whichever of their steps is
possible; rebalancing, the timer and the shutdown wait for `consumer_table_mutex_`, which
others hold again and again, and have strong fairness: the timer and rebalancing sleep for
seconds between rounds, so whoever waits for the mutex gets it. Nothing makes the consumer
stop, move or restart. Calls that fail, and copies that another thread overtakes before they
are sent, are counted by `MaxFaults`: liveness therefore says that the group gets through the
queue once such things have stopped happening. Without that there are endless
rounds of repairs that a copy taken before each of them undoes.

*Deadlock* is checked in all native safety runs, with the destroyed object as the only
legal end; it is off where the application may simply stop calling, or a consumer stops.

## Findings

1. **`producer_shared_instance`** (defect). The shutdown worker deletes every tracked
   callback after `producer_->shutdown()` (`lib/producer.cpp:549`), which the comments at
   lines 114 and 138 justify with the SDK having stopped calling. With a second client on
   the same `MQClientInstance` (`deps/rocketmq/src/MQClientInstance.cpp:202`) it has not:
   the trace deletes a callback whose `ScheduleCallback` is still running.
2. **`consumer_twice`** (defect). "The completion is only settled once (not twice)"
   (`test/consumer.test.ts:1184`); but in `src/consumer.ts:354-360` a callback of `shutdown()`
   that throws is caught by the `.catch` meant for the deadline, which runs `cleanupShutdown`
   again and calls the callback a second time. `consumerRef` is decremented twice: the
   keep-alive interval of another consumer is cleared, or the count becomes -1 and the next
   consumer that starts sets no interval.
3. **`consumer_retry`**. A failed shutdown "keeps kShuttingDown to prevent further
   operations" (`lib/push_consumer.cpp:564`), but a retry that cannot be queued stores
   `kStarted` (line 643), with a stopped consume service and a deaf listener.
4. **`cwrapper_overlap`**. `test/consumer.test.ts:735`, "handler shutdown before ack.done
   does not deadlock": it does, until the 30 s deadline rejects both, when the application's
   own shutdown is already waiting.

Met on the way, without a run of their own: the comment at `lib/producer.cpp:547` and that of
the list in `producer.h` take the SDK to delete callbacks it has called; it deletes only
`kAutoDelete` callbacks, and these are `kSimple`, so that every callback stays in memory until
shutdown; `SafeShutdown` sets `sdk_shutdown_called_` before the call that may throw, and
deletes the callbacks even if it threw (`lib/producer.cpp:183`, `:199`); the memoised
shutdown promise of the producer is cleared a microtask late (`src/producer.ts:323`); in test builds, a shutdown worker that skips the
SDK shutdown because `ForceDestroy` took the flag finalizes the TSFN although, after a
stall of 5 s, a consume thread may be about to acquire it (`lib/push_consumer.cpp:580`).
An error the broker answers to an offset query is taken for "no offset yet"
(`deps/rocketmq/src/consumer/RemoteBrokerOffsetStore.cpp:64`), so that the queue starts at
its end (`RebalancePushImpl.cpp:72`) and what the group had not consumed is passed over;
the set `skipped` of ConsumeService keeps these messages apart, and the header that
describes this policy (`include/ConsumeType.h:29`) has it for new groups only. `schedule()`
wakes its thread when the new task is later than the head of the queue, not earlier
(`deps/rocketmq/src/concurrent/executor_impl.hpp:242`): timers run late, never too early.
`persistAllConsumerOffset` and `doRebalance` hold `consumer_table_mutex_` while the offset
store may ask the name server for a route (`RemoteBrokerOffsetStore.cpp:153`), whose change
makes `MQClientInstance.cpp:454` lock the same mutex again: the thread waits for itself.
With a re-entrant getter of the send options that shuts the producer down and blocks past
the cancel timer, the shutdown worker deletes the callback of a `Send` that is still
running and whose `unique_ptr` deletes it again: TLC finds it with `Reentrant = TRUE`,
and the theorem `CallbacksOutliveTheirUse` excludes it.

## What is proved

The proofs hold for every set of clients, sends, calls, messages and listeners, every batch
size, every bound on faults and, unless stated, every setting of the flags; they assume only
the named assumptions on the constants (booleans, naturals, finite sets). Each goes: initial
states satisfy the invariant, each action preserves it, the invariant implies the property.

- **ProducerNative_proofs**, for every build
  - `TypeCorrect`. The types alone are not inductive: the type of `main.send` depends on the
    program counter. `TInv` adds what the counter says about the operation and the send.
  - `TsfnOwnership`: `TsfnUsedOnlyWhileOwned`. `SInv` relates, for each send, the exchange on
    `tsfn_released_`, the SDK thread's place and the state of the TSFN: a thread that is in
    `deliver` or `release` has won the exchange, an unclaimed TSFN is open, an event is
    queued only before the release took effect.
  - `OneReport`: `ToldAtMostOnce`, from the same invariant: each way of telling needs a
    state of the send (unwinding, event queued, failed delivery with a callback reference)
    that no other way leaves behind.
- **ProducerShutdown_proofs**, for every build
  - `ExactCount`: `PendingCountExact`. `CountInv` adds to it, for each send, that whatever
    may give back its unit (an unreleased TSFN, a taken handle, `CallJs`) belongs to a send
    that was admitted (`UnitInv`), so that the five places which give one back never give
    back one that is not there; the counts are cardinalities of finite sets.
  - `ShutdownWaits`: `ShutdownWaitsForSends`. `WaitInv` is the protocol of the shutdown:
    which steps each operation of the main thread takes (`PcInv`), that nothing of a shutdown
    exists before it begins (`OpenInv`), who can be at work in each lifecycle (`WhoInv`), and
    that a worker past its join has waited for the timer in the slot, or found everything
    drained already (`DrainInv`).
  - `CleanEnd`: `NothingLeftBehind`. `EndInv` says that every callback that was constructed
    is tracked until it is deleted and every TSFN that is not finalized pins the producer
    (`PinInv`), and what a destruction has emptied at each of its steps (`DestroyInv`).
  - `SomebodyMoves`: as long as the main thread is in an operation or a worker exists, one of
    them, the timer or an SDK thread inside a callback may step, with no help of the
    application or the broker. `GoInv` says who holds `native_access_mutex_` and where
    (`HolderInv`), that a join waits only for a timer thread that there is (`JoinInv`), and
    that the SDK producer is started once (`FreshInv`). Guards are written out, as ENABLED
    cannot be proved; TLC has compared them with ENABLED.
  - `ThreadsAdvance`: a variant for each thread (`MainRank`, `StartRank`, `WorkerRank`,
    `TimerRank`, `SdkRank`) that decreases with each of its steps, but for a re-entrant
    shutdown in the midst of a send, which begins another operation.
  - `OneWorkerAtATime`: a `Shutdown` that is about to queue a worker, also on a retry and from
    a getter or callback of the application, finds the worker before it at its completion or
    finds none. It is what makes one record enough for the worker.
- **ProducerService_proofs**
  - `Sending`: `ImplementsSendService`, for `~TestHooks`. `TellInv` says what a send may
    still be told and when it is given back, `HookInv` and `TimerInv` when the timer or a
    destruction may give up on sends; then each step maps to a step of SendService or to a
    stutter. That a result is told only of a send that was not given up is shown of the moment
    at which `CallJs` compares the generations, and that one send at a time is between that
    and its telling.
  - `CallbacksOutliveTheirUse`: `NoUseAfterDelete`, for a build without the test hook, a
    producer that owns its client instance, an SDK shutdown that does not throw and send
    options without re-entrant getters. `UseInv` says that the SDK calls back only while it
    runs, with live callbacks (`CallsInv`), that `Send` holds a live one and is over before a
    shutdown begins (`HoldInv`), and that who deletes them has stopped the SDK or found it
    stopped (`StopInv`). TLC has a counterexample when any one of the four conditions is
    dropped; the first finding is one of them.
- **ConsumerNative_proofs**
  - `Consumption`: `SuccessMeansAllAcked`. The invariant `BInv` says that a thread goes
    through its batch in order: before its index everything is accepted, after it nothing
    was offered, and an answer is given only to the message it waits for. Hence no late or
    racing answer can count for another message.
  - `TypeCorrect`. That a count is a natural number needs to know what it counts: `CInv` says
    that the TSFN of the serving listener is held by the listener until it is released and by
    every call between acquire and its guard's end, that `inflight_` is the number of calls
    inside, and that no thread works on any other listener.
  - `NoWaitCycle`: `NoCircularWait`, and `SomebodyMoves`: as long as a thread of the addon is
    at work, one of them or a consume thread can take its next step, with no help of the
    application, the 30 s deadline or the 5 s wait. `RInv`, for every build, says where each
    thread may be (`PcOK`), that the holder of `native_access_mutex_` is exactly the thread
    in a call of the SDK (`LockOK`), when consume threads are about (`RunsOK`), that whoever
    is past its request has asked the listener that serves (`AskedOK`), and that the flag of
    the shutdown worker is exact (`WorkerOK`). A thread that waits for the consume threads
    has therefore asked them to leave before, and the lock is never held by one that waits
    for another lock or for the main thread.
  - `CallsAdvance` and `ThreadsAdvance`: variants. Each step of a consume thread, of a worker
    or of a main thread that destroys brings it nearer to its end (`CallRank`, `ThreadRank`),
    so none of them can run in circles. With `SomebodyMoves` this is the whole argument for
    termination but its last step, that a step which stays possible is taken: that is the
    fairness which the run `consumer_live` assumes.
- **ConsumerStop_proofs**
  - `ShutdownWorkerFlag`: `OneShutdownWorker`, and `NothingLeft`: `NothingLeftBehind`, for
    every build, from `RInv`: when the destructor's members go, the SDK has joined its threads
    or never had any.
  - `QuietShutdown`: `ShutdownLeavesNothing`, for every build. Until `ForceDestroy` is called
    `TInv` says where the three threads may be at once: a start worker that stops is in
    Shutdown, a shutdown worker in ShuttingDown, the destructor in Destroyed with both workers
    at rest, so one thread at most is in the stop sequence. `ForceDestroy` ends that, and
    leaves a consumer which is Destroyed for good (`UntilDestroyed`).
  - `TsfnOpen`: `TsfnOpenWhileUsed`, unless the build has the test hooks and a thread stalls
    for longer than the 5 s of `WaitForIdle` (`~TestHooks \/ ~SlowThreads`). Without hooks
    the bound plays no part: the request comes before the release, the SDK has joined its
    threads or never started them, and a call that saw no request before the TSFN can
    therefore not be there when it goes (`ListenersOK`). With `ForceDestroy` two threads may
    stop the consumer at once, and the one that finds `sdk_shutdown_called_` set releases the
    TSFN without waiting for the other's join; what protects the consume threads is that it
    has found the listener idle after it had asked it to shut down (`AwaitedInv`). With
    both flags the property fails.
  - `DeliveryInStep`: what ConsumerWrapper takes for granted of the native consumer
    (`MayDeliver` there), for every build: whoever is about to call the listener
    does so while the consumer starts, is started or has a shutdown worker whose promise is
    still open, although messages may still be queued on the TSFN later. The whole stop may
    come between the test of `shutdown_requested_` and the call; but the completion of the
    worker is a step of the main thread, which is the one that calls, so no message comes
    after `shutdown()` was answered. `StepInv` says that a shutdown whose worker has left the
    queue has asked the listener to go, also when it then failed. No run checks it.
  - `Delivery`: `ImplementsDeliveryService`, for every build. The abstract steps need that a
    message was offered only when those before it were accepted and that a call which leaves
    has its result (`DInv`), that a listener whose SDK consumer is stopping or has
    stopped was asked to shut down (`AskedOK`), and that at most one message has passed the
    test and is not yet delivered, the main thread's own.
- **ConsumeService_proofs**
  - `TypeCorrect`. That what `removeMessage` returns is an offset needs the bound that
    `CacheInv` puts on the tree and its highest offset: both lie before the next pull.
  - `OffsetsSafe`: `OffsetSafe`. `OffsetInv` extends it to every copy of an offset on its way
    (in a request, a pull, the rebalance thread, the timer). `CacheInv` says that whatever
    lies before the next pull of a queue is in its cache or dealt with, also for a dropped
    queue, so that the least message left, or the one after the highest, is safe to store.
    The order of the commits plays no part, nor whether the queue was dropped since.
  - `TableKeeps`: `TableKept`, from `increaseOnly` and from who else can write or erase the
    entry while a queue is live and no repair is due: a round of the timer that did not list
    the queue is over before rebalancing can add it (`ConsumersUnlocked`), and one of
    rebalancing before the timer can begin.
  - `CachedOnce`: `EachCachedOnce`. `CarryInv` says that the requests of a queue that pulls
    share out its cache, each message once, all of it before the next pull; `StateInv` says
    that a live queue pulls.
  - `NoneLost`: what a live queue has pulled was dealt with or is carried by a request that
    will offer it; `FlowControl`: its pull request never disappears, and a cache that is full
    for any `pull_threshold_for_queue` holds messages of a request that is queued or at the
    listener, so flow control ends when the listener answers.
  - `SomebodyMoves`: while the consumer is up or shuts down some thread may step.
    `ThreadInv` says that a process queue which is dropped but still in the table is about
    to be removed by rebalancing or by its own repair; the pull thread that is in a repair,
    or holds the lock of the table, is never blocked itself. The guards are written out
    (compared with ENABLED by TLC); a new process queue counts as always to be had, although
    the model has only `MaxQueues`.
- **ProducerWrapper_proofs** and **ConsumerWrapper_proofs**, for every number of clients in
  the process
  - `KeepAliveCount`: `KeepAliveExact`. The shared count is the number of clients that are
    live (started or stopping), for consumers less one for each shutdown callback that threw
    and was caught. A step moves one client (`Moves`), so the count is exact if
    it follows that client; that it does needs to know why an operation at the head of the
    queue, or running, finds the status it relies on: `LifeOK` says that what is queued was
    called on this client, that the operation that runs decides the status, that a client
    that is over is stopped, and that a new one has no operation.
  - `OneShot`: `ImplementsOneShot`, from the same invariant: a status that was set when a
    call was made, when its turn came and when it ended never takes a client back.
  - `TypeCorrect`: no count becomes negative, because each is a cardinality; but for
    `consumerRef` of the consumers, which is an integer.
  - `NativeAgrees`: what passes the checks of the class the native client accepts
    (`NativeInStep`): neither `core.start`, `core.shutdown` nor `core.send` is called in a
    lifecycle that it would refuse. `NativeInv` says that an operation which runs is what the
    native client is at, and that between operations a client that is not over has a native
    one that is new or started, as its status says; that a failed start and every shutdown
    complete the client is what keeps the two together.
  - of the producer, `OperationCount`: `OpsExact`, that `pendingOperations` counts the calls
    queued or running, so that a call decides at once only if none precedes it; `NothingPending`:
    `NoSendOutlivesShutdown`, that a promise of `send()` which is pending is known to a producer
    that is not over, so that a shutdown that is over has left none; and
    `SettledForGood`: `SettledOnce`.
  - of the consumer, `AckCount`: `AcksExact`. A message belongs to a generation that is not
    in the future (`MessageOK`), so the generation that begins at the end of a shutdown has
    none yet, and an older ack is not counted off.
  - `ShutdownDrains`: `ResolvedMeansDrained`, and `TimeoutBlames`: `TimeoutBlamesAnother`.
    The generation of a consumer that is not over is the first (`AckOK`), so the wait counts
    every unacked message of the consumer (`WaitFacts`); a handler recorded as having acked
    has done so (`CallOK`), so the exemption is for a message that was in the count when the
    call was made: if it still is, it is the one that is left, and otherwise at most one other
    is; after a native shutdown none is delivered, so what was drained stays so (`Ages`).

Only model-checked: everything about liveness (fairness and ENABLED are outside the
prover); of the termination of both native clients the safety part is proved, as
`SomebodyMoves` and the variants, and of the consume service that somebody always may
step. Every safety property of the runs that pass is proved, those of the native clients
that name a condition for the builds which meet it.

## Not modelled

- A `send()` that a callback of the application makes while `CallJs` is calling it: the model
  makes it when that callback has returned. A `shutdown()` from there is modelled.
- Options, names, payloads, logging, message formats: data the properties do not tell apart.
- `SetOptions`, `SetSessionCredentials`, the environment clean-up hook, `IsListenerIdle`, and
  the environment switches of the stub build: configuration and test instrumentation.
- Process exit and worker environments: the models have one environment that stays up.
  The clean-up hook of the listener (`lib/push_consumer.cpp:1047`) belongs to it.
- `DefaultMQProducerImpl` and the transport, beyond acceptance, one callback and the join:
  the retry of an asynchronous send on another broker is one call that takes longer.
- `MQClientInstance` and `MQClientManager`: that a client may register on an instance which
  is being shut down (`MQClientInstance.cpp:202`) is a race between two addon objects that
  the constant `SharedInstance` does not show.
- Executors: that a queued task runs, late or not, is fairness in these models.
- In the consume service, what the addon cannot reach: ordered consumption, broadcasting
  with its file store, and which member gets which queue, which is a choice of the model.
  Left out besides: the reset-offset command of the broker (`resetOffset`, `resume`), messages
  that do not match the subscription and a pull that brings only such, and a consumer without
  any other queue, for which `persistAll` returns at once. The broker's address is known.

## Plan

Done, in this order: ProducerNative with SendService, ProducerWrapper, ConsumerNative with
DeliveryService, ConsumerWrapper with OneShotClient, ConsumeService; the theorems above,
among them the refinements of both services and of OneShotClient, the counting invariant of
the producer, and every safety invariant of ConsumeService and of the wrappers.

Next, most important first:

1. A module ClientInstance for `MQClientInstance` and `MQClientManager` (registration racing
   the last shutdown), to replace the constant `SharedInstance` by two clients that compose
   with it.
2. The environment clean-up hook as a step of ConsumerNative.
