--------------------------- MODULE ConsumerNative ---------------------------
(***************************************************************************)
(* The N-API push consumer of lib/push_consumer.cpp and lib/consumer_ack:  *)
(* one RocketMQPushConsumer, the JavaScript main thread, the two libuv     *)
(* workers that start and stop the SDK consumer, and one SDK thread per    *)
(* consumeMessage call, which offers the messages of its batch to          *)
(* JavaScript over one thread-safe function (TSFN) and waits for each ack. *)
(*                                                                         *)
(* A region under state_mutex_ is one step; a store to shutdown_requested_ *)
(* that follows one belongs to it, since no thread reads both.             *)
(* native_access_mutex_ is held across SDK calls, so it is a variable.     *)
(* Calls that the lifecycle check rejects change nothing and are left out, *)
(* and so is a failed Queue() in Start, which restores the state it found. *)
(***************************************************************************)
EXTENDS Naturals, FiniteSets

CONSTANTS
    Calls,          \* the consumeMessage calls of a behaviour, one name per call
    BatchSize,      \* messages of a batch
    Listeners,      \* the listeners SetListener may install, each once
    NoListener,     \* the null shared_ptr
    SdkStopThrows,  \* consumer_.shutdown() may throw after it joined its threads
    TestHooks,      \* the build has __testForceDestroy
    SlowThreads,    \* WaitForIdle may time out: a consume thread stalls for 5 s
    MaxFaults       \* bound on the calls that fail in one behaviour

ASSUME SizeAssumption == BatchSize \in Nat \ {0} /\ MaxFaults \in Nat
ASSUME SetAssumption == IsFiniteSet(Calls) /\ NoListener \notin Listeners
ASSUME FlagAssumption ==
    /\ SdkStopThrows \in BOOLEAN /\ TestHooks \in BOOLEAN
    /\ SlowThreads \in BOOLEAN

VARIABLES
    lifecycle,    \* lifecycle_state_
    active,       \* shutdown_worker_active_
    sdkFlag,      \* sdk_shutdown_called_
    native,       \* the thread that holds native_access_mutex_, or "free"
    sdkState,     \* the SDK consumer and its consume service
    current,      \* listener_
    serving,      \* the listener the SDK holds and its consume threads call
    requested,    \* per listener: shutdown_requested_
    released,     \* per listener: released_
    refs,         \* per listener: thread count of its TSFN, 0 when closed or not made
    inflight,     \* per listener: inflight_
    thread,       \* per thread of the addon: operation, pc, listener, `started`
    held,         \* JavaScript still references the consumer object
    faults,       \* failed calls so far (bounded by MaxFaults)
    at,           \* per call: pc of the consume thread
    index,        \* per call: the message of the batch it is at
    status,       \* per call: what consumeMessage returns
    answer        \* per call and message: the promise and the ack that sets it

lifeVars == <<lifecycle, active, sdkFlag>>
listenerVars == <<requested, released, refs>>
callVars == <<at, index, status>>
sdkVars == <<native, sdkState, serving>>
envVars == <<held, faults>>
vars == <<lifeVars, listenerVars, callVars, sdkVars, envVars, current, inflight, thread,
          answer>>

Threads == {"main", "start", "shut"}
Positions == 1..BatchSize
Lifecycles == {"Idle", "Starting", "Started", "ShuttingDown", "Shutdown", "Destroyed"}
Ops == {"none", "subscribe", "force", "forceStarting", "dtor", "start", "shutdown"}
Pcs == {"rest", "queued", "lock", "call", "called", "state", "idle", "flag", "sdkLock",
        "stop", "join", "failed", "finalize", "publish", "members", "complete", "gone"}
\* Where a consume thread holds a unit of the TSFN.
Guarded == {"offer", "wait"}
Inside == {"check", "acquire", "leave"} \cup Guarded
Answered == {"acked", "nacked", "errored"}

TypeOK ==
    /\ lifecycle \in Lifecycles /\ active \in BOOLEAN /\ sdkFlag \in BOOLEAN
    /\ native \in {"free"} \cup Threads
    /\ sdkState \in {"fresh", "running", "failed", "stopping", "halted", "stopped"}
    /\ current \in Listeners \cup {NoListener} /\ serving \in Listeners \cup {NoListener}
    /\ requested \in [Listeners -> BOOLEAN] /\ released \in [Listeners -> BOOLEAN]
    /\ refs \in [Listeners -> Nat] /\ inflight \in [Listeners -> Nat]
    /\ thread \in [Threads -> [op : Ops, pc : Pcs, l : Listeners \cup {NoListener},
                               ok : BOOLEAN]]
    /\ held \in BOOLEAN /\ faults \in 0..MaxFaults
    /\ at \in [Calls -> {"none", "done"} \cup Inside] /\ index \in [Calls -> Positions]
    /\ status \in [Calls -> {"none", "success", "later"}]
    /\ answer \in [Calls -> [Positions -> {"none", "queued", "passed", "held"} \cup Answered]]

Resting == [op |-> "none", pc |-> "rest", l |-> NoListener, ok |-> FALSE]

Init ==
    /\ lifecycle = "Idle" /\ active = FALSE /\ sdkFlag = FALSE
    /\ native = "free" /\ sdkState = "fresh"
    /\ current = NoListener /\ serving = NoListener
    /\ requested = [l \in Listeners |-> FALSE] /\ released = [l \in Listeners |-> FALSE]
    /\ refs = [l \in Listeners |-> 0] /\ inflight = [l \in Listeners |-> 0]
    /\ thread = [t \in Threads |-> Resting]
    /\ held = TRUE /\ faults = 0
    /\ at = [c \in Calls |-> "none"] /\ index = [c \in Calls |-> 1]
    /\ status = [c \in Calls |-> "none"]
    /\ answer = [c \in Calls |-> [i \in Positions |-> "none"]]

-----------------------------------------------------------------------------
(* Helpers shared by the threads.                                          *)

\* One of the calls that the code expects to fail sometimes does fail.
Fault == faults < MaxFaults /\ faults' = faults + 1

At(t, pc) == thread[t].pc = pc
Goto(t, pc) == thread' = [thread EXCEPT ![t].pc = pc]

\* The main thread is in its event loop: not in a call of the object, nor between the
\* test of shutdown_requested_ and the call of the listener.
MainFree ==
    /\ At("main", "rest")
    /\ \A c \in Calls, i \in Positions : answer[c][i] # "passed"

\* (mutant) The request is forgotten.
RequestForgotten(l) == UNCHANGED requested

RequestShutdown(l) ==
    IF l = NoListener THEN UNCHANGED requested
    ELSE requested' = [requested EXCEPT ![l] = TRUE]

\* (mutant) Every caller releases the TSFN.
ListenerShutdownTwice(l) ==
    IF l = NoListener THEN UNCHANGED listenerVars
    ELSE /\ requested' = [requested EXCEPT ![l] = TRUE]
         /\ released' = [released EXCEPT ![l] = TRUE]
         /\ refs' = [refs EXCEPT ![l] = @ - 1]

\* ConsumerMessageListener::Shutdown: the first caller releases the TSFN.
ListenerShutdown(l) ==
    IF l = NoListener THEN UNCHANGED listenerVars
    ELSE /\ requested' = [requested EXCEPT ![l] = TRUE]
         /\ released' = [released EXCEPT ![l] = TRUE]
         /\ refs' = [refs EXCEPT ![l] = IF released[l] THEN @ ELSE @ - 1]

NoCallInside == \A c \in Calls : at[c] \notin Inside

-----------------------------------------------------------------------------
(* consumeMessage on a thread of the SDK's consume service.                *)

CallGoto(c, pc) == at' = [at EXCEPT ![c] = pc] /\ UNCHANGED <<index, status>>

Returns(c, result) ==
    /\ at' = [at EXCEPT ![c] = "leave"]
    /\ status' = [status EXCEPT ![c] = result]
    /\ UNCHANGED index

\* TSFNGuard's destructor gives the unit of the TSFN back.
GuardReleases == refs' = [refs EXCEPT ![serving] = @ - 1]

\* The executor takes a request only while it runs.
ConsumeMessage(c) ==
    /\ sdkState = "running" /\ at[c] = "none"
    /\ CallGoto(c, "check")
    /\ inflight' = [inflight EXCEPT ![serving] = @ + 1]
    /\ UNCHANGED <<lifeVars, listenerVars, sdkVars, envVars, current, thread, answer>>

\* The flag is never cleared, so its last test before the TSFN decides.
CallChecks(c) ==
    /\ at[c] = "check"
    /\ IF requested[serving] THEN Returns(c, "later") ELSE CallGoto(c, "acquire")
    /\ UNCHANGED <<lifeVars, listenerVars, sdkVars, envVars, current, inflight, thread,
                   answer>>

CallAcquires(c) ==
    /\ at[c] = "acquire"
    /\ IF refs[serving] = 0
       THEN Returns(c, "later") /\ UNCHANGED refs
       ELSE CallGoto(c, "offer") /\ refs' = [refs EXCEPT ![serving] = @ + 1]
    /\ UNCHANGED <<lifeVars, requested, released, sdkVars, envVars, current, inflight,
                   thread, answer>>

\* BlockingCall on a TSFN whose queue has no limit.
CallOffers(c) ==
    /\ at[c] = "offer" /\ CallGoto(c, "wait")
    /\ answer' = [answer EXCEPT ![c][index[c]] = "queued"]
    /\ UNCHANGED <<lifeVars, listenerVars, sdkVars, envVars, current, inflight, thread>>

CallOfferFails(c) ==
    /\ at[c] = "offer" /\ Fault /\ Returns(c, "later") /\ GuardReleases
    /\ UNCHANGED <<lifeVars, requested, released, sdkVars, held, current, inflight, thread,
                   answer>>

\* (mutant) An ack that is there counts, whatever it says.
ConsumesAnswered(c) == answer[c][index[c]] \in Answered

\* future.get() returns true: neither false, nor an exception, nor a broken promise.
ConsumesMessage(c) == answer[c][index[c]] = "acked"

CallResolves(c) ==
    /\ at[c] = "wait" /\ answer[c][index[c]] \in Answered /\ GuardReleases
    /\ IF ~ConsumesMessage(c) THEN Returns(c, "later")
       ELSE IF index[c] = BatchSize THEN Returns(c, "success")
       ELSE /\ at' = [at EXCEPT ![c] = "check"]
            /\ index' = [index EXCEPT ![c] = @ + 1]
            /\ UNCHANGED status
    /\ UNCHANGED <<lifeVars, requested, released, sdkVars, envVars, current, inflight,
                   thread, answer>>

\* (mutant) The poll loop does not look at shutdown_requested_.
PollsDeadlineOnly == FALSE

PollsRequest == requested[serving]

\* The poll loop ends because shutdown was requested, maybe with the ack there.
CallGivesUp(c) ==
    /\ at[c] = "wait" /\ PollsRequest /\ Returns(c, "later") /\ GuardReleases
    /\ UNCHANGED <<lifeVars, requested, released, sdkVars, envVars, current, inflight,
                   thread, answer>>

\* (mutant) The poll loop has no deadline.
NoDeadline == FALSE

\* Nothing bounds what 30 s are to the other threads.
DeadlinePassed == TRUE

\* The poll loop ends because 30 s have passed.
CallTimesOut(c) ==
    /\ at[c] = "wait" /\ DeadlinePassed /\ Returns(c, "later") /\ GuardReleases
    /\ UNCHANGED <<lifeVars, requested, released, sdkVars, envVars, current, inflight,
                   thread, answer>>

CallLeaves(c) ==
    /\ at[c] = "leave" /\ CallGoto(c, "done")
    /\ inflight' = [inflight EXCEPT ![serving] = @ - 1]
    /\ UNCHANGED <<lifeVars, listenerVars, sdkVars, envVars, current, thread, answer>>

CallThread(c) == CallChecks(c) \/ CallAcquires(c) \/ CallOffers(c) \/ CallOfferFails(c)
                 \/ CallResolves(c) \/ CallGivesUp(c) \/ CallLeaves(c)

-----------------------------------------------------------------------------
(* The main thread: the events of the TSFN, and the acks.  The events are  *)
(* taken in any order, since each sets a promise of its own.               *)

SetAnswer(c, i, a) ==
    /\ answer' = [answer EXCEPT ![c][i] = a]
    /\ UNCHANGED <<lifeVars, listenerVars, callVars, sdkVars, held, current, inflight,
                   thread>>

\* (mutant) The event does not look at shutdown_requested_.
DeliversAlways == TRUE

DeliversToListener == ~requested[serving]

\* CallConsumerMessageJsListener tests shutdown_requested_, and no lock keeps the
\* other threads from a request between this test and the call of the listener.
CallJs(c, i) ==
    /\ MainFree /\ answer[c][i] = "queued"
    /\ SetAnswer(c, i, IF DeliversToListener THEN "passed" ELSE "nacked")
    /\ UNCHANGED faults

\* The listener gets the message and an ack; what it does with the ack are steps of
\* its own.
CallJsDelivers(c, i) ==
    /\ answer[c][i] = "passed" /\ SetAnswer(c, i, "held") /\ UNCHANGED faults

\* The ack cannot be made, or the listener throws before it used the ack.
CallJsFails(c, i) == answer[c][i] = "passed" /\ SetAnswer(c, i, "errored") /\ Fault

\* The first ack.done(): only an explicit false refuses the message.
AckDone(c, i) ==
    /\ MainFree /\ answer[c][i] = "held"
    /\ \E a \in {"acked", "nacked"} : SetAnswer(c, i, a)
    /\ UNCHANGED faults

\* The ack is collected unused, which breaks its promise.
AckCollected(c, i) ==
    /\ MainFree /\ answer[c][i] = "held"
    /\ SetAnswer(c, i, "errored") /\ UNCHANGED faults

-----------------------------------------------------------------------------
(* The main thread: SetListener, Start, Shutdown and Subscribe.            *)

\* registerMessageListener hands the new listener to the SDK, and the previous one
\* is shut down.  If it throws, the new listener is destroyed, which shuts it down.
SetListener(l) ==
    /\ held /\ MainFree /\ lifecycle = "Idle" /\ native = "free"
    /\ refs[l] = 0 /\ ~released[l]
    /\ LET previous == current IN
       \/ /\ current' = l /\ serving' = l
          /\ refs' = [k \in Listeners |-> IF k = l THEN 1
                                          ELSE IF k = previous THEN refs[k] - 1 ELSE refs[k]]
          /\ requested' = [k \in Listeners |-> requested[k] \/ k = previous]
          /\ released' = [k \in Listeners |-> released[k] \/ k = previous]
          /\ UNCHANGED faults
       \/ /\ Fault
          /\ requested' = [requested EXCEPT ![l] = TRUE]
          /\ released' = [released EXCEPT ![l] = TRUE]
          /\ UNCHANGED <<current, serving, refs>>
    /\ UNCHANGED <<lifeVars, native, sdkState, held, inflight, thread, callVars, answer>>

Start ==
    /\ held /\ MainFree /\ lifecycle = "Idle" /\ lifecycle' = "Starting"
    /\ thread' = [thread EXCEPT !["start"] = [Resting EXCEPT !.op = "start", !.pc = "queued"]]
    /\ UNCHANGED <<active, sdkFlag, listenerVars, sdkVars, envVars, current, inflight,
                   callVars, answer>>

\* A shutdown that failed may be retried, also before its completion has run; the
\* completion of the first worker, which changes no state here, is then forgotten.
MayShutdown == lifecycle = "Started" \/ (lifecycle = "ShuttingDown" /\ ~active)

Shutdown ==
    /\ held /\ MainFree /\ MayShutdown
    /\ lifecycle' = "ShuttingDown" /\ active' = TRUE
    /\ thread' = [thread EXCEPT !["shut"] = [Resting EXCEPT !.op = "shutdown", !.pc = "queued"]]
    /\ UNCHANGED <<sdkFlag, listenerVars, sdkVars, envVars, current, inflight, callVars,
                   answer>>

\* Queue() throws: the rollback is to Started, on a retry as well.
ShutdownQueueFails ==
    /\ held /\ MainFree /\ MayShutdown /\ Fault
    /\ lifecycle' = "Started" /\ active' = FALSE
    /\ UNCHANGED <<sdkFlag, listenerVars, sdkVars, held, current, inflight, thread, callVars,
                   answer>>

\* Subscribe blocks the main thread until native_access_mutex_ is free.
Subscribe ==
    /\ held /\ MainFree /\ lifecycle \notin {"Destroyed", "ShuttingDown"}
    /\ thread' = [thread EXCEPT !["main"] = [Resting EXCEPT !.op = "subscribe", !.pc = "lock"]]
    /\ UNCHANGED <<lifeVars, listenerVars, sdkVars, envVars, current, inflight, callVars,
                   answer>>

SubscribeReturns ==
    /\ thread["main"].op = "subscribe" /\ native = "free"
    /\ thread' = [thread EXCEPT !["main"] = Resting]
    /\ UNCHANGED <<lifeVars, listenerVars, sdkVars, envVars, current, inflight, callVars,
                   answer>>

DropReference ==
    /\ held /\ MainFree /\ held' = FALSE
    /\ UNCHANGED <<lifeVars, listenerVars, sdkVars, faults, current, inflight, thread,
                   callVars, answer>>

-----------------------------------------------------------------------------
(* Stopping the SDK consumer: the steps that the shutdown worker, a start  *)
(* worker whose start failed or came too late, SafeShutdown (ForceDestroy) *)
(* and the destructor have in common.  `ok` says the SDK had been started. *)

\* The thread has requested the shutdown of its listener and waits for it.
Stopping(op, l, ok) == [op |-> op, pc |-> "idle", l |-> l, ok |-> ok]

WasStarted == lifecycle \in {"Started", "ShuttingDown"}

\* ForceDestroy and the destructor: set Destroyed and request the shutdown.
BeginDestroy(op) ==
    /\ lifecycle' = "Destroyed"
    /\ RequestShutdown(current)
    /\ thread' = [thread EXCEPT !["main"] = Stopping(op, current, WasStarted)]
    /\ UNCHANGED <<active, sdkFlag, released, refs, sdkVars, envVars, current, inflight,
                   callVars, answer>>

ForceDestroy ==
    /\ TestHooks /\ held /\ MainFree /\ lifecycle # "Destroyed"
    /\ BeginDestroy(IF lifecycle = "Starting" THEN "forceStarting" ELSE "force")

\* The workers hold a reference to the object while they are queued or run.
Collectable == ~held /\ MainFree /\ At("start", "rest") /\ At("shut", "rest")

Destructor == Collectable /\ lifecycle # "Destroyed" /\ BeginDestroy("dtor")

DestructorReturnsEarly ==
    /\ Collectable /\ lifecycle = "Destroyed"
    /\ thread' = [thread EXCEPT !["main"] = [Resting EXCEPT !.op = "dtor", !.pc = "members"]]
    /\ UNCHANGED <<lifeVars, listenerVars, sdkVars, envVars, current, inflight, callVars,
                   answer>>

\* WaitForListenerIdle returns true.
ListenerIdle(l) == l \in Listeners => inflight[l] = 0

AwaitIdle(t) ==
    LET th == thread[t]
        idle == ListenerIdle(th.l)
    IN /\ th.pc = "idle" /\ (idle \/ SlowThreads)
       /\ Goto(t, IF th.ok \/ (th.op = "start" /\ ~idle) THEN "flag" ELSE "finalize")
       /\ UNCHANGED <<lifeVars, listenerVars, sdkVars, envVars, current, inflight, callVars,
                      answer>>

\* sdk_shutdown_called_ is tested and set before consumer_.shutdown().
TakeFlag(t) ==
    /\ At(t, "flag") /\ sdkFlag' = TRUE
    /\ Goto(t, IF sdkFlag THEN "finalize" ELSE IF thread[t].op = "dtor" THEN "stop"
               ELSE "sdkLock")
    /\ UNCHANGED <<lifecycle, active, listenerVars, sdkVars, envVars, current, inflight,
                   callVars, answer>>

LockSdk(t) ==
    /\ At(t, "sdkLock") /\ native = "free" /\ native' = t /\ Goto(t, "stop")
    /\ UNCHANGED <<lifeVars, listenerVars, sdkState, serving, envVars, current, inflight,
                   callVars, answer>>

\* DefaultMQPushConsumerImpl::shutdown acts on a running consumer only.
SdkStops(t) ==
    /\ At(t, "stop") /\ Goto(t, "join")
    /\ sdkState' = IF sdkState = "running" THEN "stopping" ELSE sdkState
    /\ UNCHANGED <<lifeVars, listenerVars, native, serving, envVars, current, inflight,
                   callVars, answer>>

UnlockSdk(t) == native' = IF native = t THEN "free" ELSE native

\* (mutant) The consume threads are not joined.
NoJoin == TRUE

\* ConsumeMessageConcurrentlyService::shutdown joins the consume threads.
ConsumeThreadsJoined == sdkState \in {"stopping", "halted"} => NoCallInside

SdkStopped(t) ==
    /\ At(t, "join") /\ ConsumeThreadsJoined /\ UnlockSdk(t) /\ Goto(t, "finalize")
    /\ sdkState' = IF sdkState \in {"stopping", "halted"} THEN "stopped" ELSE sdkState
    /\ UNCHANGED <<lifeVars, listenerVars, serving, envVars, current, inflight, callVars,
                   answer>>

\* What follows the join throws; only the shutdown worker reports it.
SdkStopFails(t) ==
    /\ SdkStopThrows /\ Fault
    /\ At(t, "join") /\ sdkState \in {"stopping", "halted"} /\ ConsumeThreadsJoined
    /\ sdkState' = "halted" /\ UnlockSdk(t)
    /\ Goto(t, IF thread[t].op = "shutdown" THEN "failed" ELSE "finalize")
    /\ UNCHANGED <<lifeVars, listenerVars, serving, held, current, inflight, callVars,
                   answer>>

\* SafeShutdown finalizes only the listener of a consumer that had been started.
FinalizeListener(t) ==
    /\ At(t, "finalize") /\ Goto(t, "publish")
    /\ IF thread[t].op \in {"force", "forceStarting"} /\ ~thread[t].ok
       THEN UNCHANGED listenerVars
       ELSE ListenerShutdown(thread[t].l)
    /\ UNCHANGED <<lifeVars, sdkVars, envVars, current, inflight, callVars, answer>>

StopStep(t) == AwaitIdle(t) \/ TakeFlag(t) \/ LockSdk(t) \/ SdkStops(t)
               \/ SdkStopped(t) \/ SdkStopFails(t) \/ FinalizeListener(t)

-----------------------------------------------------------------------------
(* The ends of ForceDestroy and of the destructor.                         *)

ForceDestroyEnds ==
    /\ At("main", "publish") /\ thread["main"].op \in {"force", "forceStarting"}
    /\ current' = IF thread["main"].op = "force" THEN NoListener ELSE current
    /\ thread' = [thread EXCEPT !["main"] = Resting]
    /\ UNCHANGED <<lifeVars, listenerVars, sdkVars, envVars, inflight, callVars, answer>>

DestructorEnds ==
    /\ At("main", "publish") /\ thread["main"].op = "dtor"
    /\ current' = NoListener /\ Goto("main", "members")
    /\ UNCHANGED <<lifeVars, listenerVars, sdkVars, envVars, inflight, callVars, answer>>

\* ~DefaultMQPushConsumer stops a consumer that still runs; then the last
\* references to the listener go, and its destructor shuts it down.
MembersDestroyed ==
    /\ At("main", "members") /\ Goto("main", "gone")
    /\ sdkState \notin {"fresh", "failed"} => NoCallInside
    /\ sdkState' = "stopped"
    /\ ListenerShutdown(serving)
    /\ UNCHANGED <<lifeVars, native, serving, envVars, current, inflight, callVars, answer>>

-----------------------------------------------------------------------------
(* ConsumerStartWorker::Execute, and its completion.                       *)

StartCheck ==
    /\ At("start", "queued")
    /\ Goto("start", IF lifecycle = "Destroyed" THEN "complete" ELSE "lock")
    /\ UNCHANGED <<lifeVars, listenerVars, sdkVars, envVars, current, inflight, callVars,
                   answer>>

StartLock ==
    /\ At("start", "lock") /\ native = "free" /\ native' = "start" /\ Goto("start", "call")
    /\ UNCHANGED <<lifeVars, listenerVars, sdkState, serving, envVars, current, inflight,
                   callVars, answer>>

\* consumer_->start() throws, always so without a listener: nothing is running.
SdkStartFails ==
    /\ At("start", "call") /\ sdkState' = "failed"
    /\ IF serving = NoListener THEN UNCHANGED faults ELSE Fault
    /\ native' = "free" /\ Goto("start", "state")
    /\ UNCHANGED <<lifeVars, listenerVars, serving, held, current, inflight, callVars,
                   answer>>

\* The client instance may deliver messages before consumer_->start() returns.
SdkStarts ==
    /\ At("start", "call") /\ serving # NoListener
    /\ sdkState' = "running" /\ Goto("start", "called")
    /\ UNCHANGED <<lifeVars, listenerVars, native, serving, envVars, current, inflight,
                   callVars, answer>>

SdkStarted ==
    /\ At("start", "called") /\ native' = "free"
    /\ thread' = [thread EXCEPT !["start"].pc = "state", !["start"].ok = TRUE]
    /\ UNCHANGED <<lifeVars, listenerVars, sdkState, serving, envVars, current, inflight,
                   callVars, answer>>

\* A start that succeeded is published, or undone if the object was destroyed.
StartPublish ==
    LET th == thread["start"] IN
    /\ At("start", "state") /\ th.ok
    /\ IF lifecycle = "Starting"
       THEN lifecycle' = "Started" /\ Goto("start", "complete") /\ UNCHANGED requested
       ELSE /\ RequestShutdown(current) /\ UNCHANGED lifecycle
            /\ thread' = [thread EXCEPT !["start"] = Stopping("start", current, TRUE)]
    /\ UNCHANGED <<active, sdkFlag, released, refs, sdkVars, envVars, current, inflight,
                   callVars, answer>>

\* After a start that failed the listener is given up, if there is one.
StartPublishFailure ==
    LET th == thread["start"] IN
    /\ At("start", "state") /\ ~th.ok
    /\ lifecycle' = IF lifecycle = "Starting" THEN "Shutdown" ELSE lifecycle
    /\ RequestShutdown(current)
    /\ thread' = [thread EXCEPT !["start"] =
                    IF current = NoListener THEN [th EXCEPT !.pc = "complete"]
                    ELSE Stopping("start", current, FALSE)]
    /\ UNCHANGED <<active, sdkFlag, released, refs, sdkVars, envVars, current, inflight,
                   callVars, answer>>

StartEnds ==
    /\ At("start", "publish") /\ current' = NoListener /\ Goto("start", "complete")
    /\ UNCHANGED <<lifeVars, listenerVars, sdkVars, envVars, inflight, callVars, answer>>

StartWorker == StartCheck \/ StartLock \/ SdkStartFails \/ SdkStarts \/ SdkStarted
               \/ StartPublish \/ StartPublishFailure \/ StartEnds \/ StopStep("start")

Completes(t) ==
    /\ MainFree /\ At(t, "complete") /\ thread' = [thread EXCEPT ![t] = Resting]
    /\ UNCHANGED <<lifeVars, listenerVars, sdkVars, envVars, current, inflight, callVars,
                   answer>>

-----------------------------------------------------------------------------
(* ConsumerShutdownWorker::Execute.                                        *)

ShutCheck ==
    /\ At("shut", "queued")
    /\ IF lifecycle = "Destroyed"
       THEN active' = FALSE /\ Goto("shut", "complete") /\ UNCHANGED requested
       ELSE /\ UNCHANGED active /\ RequestShutdown(current)
            /\ thread' = [thread EXCEPT !["shut"] = Stopping("shutdown", current, TRUE)]
    /\ UNCHANGED <<lifecycle, sdkFlag, released, refs, sdkVars, envVars, current, inflight,
                   callVars, answer>>

\* (mutant) The flag keeps the value it was given before the failed call.
FlagKept == UNCHANGED sdkFlag

\* The flag is cleared, so that a retry calls the SDK again.
FlagReset == sdkFlag' = FALSE

\* A failed shutdown stays in ShuttingDown and keeps its listener.
ShutFails ==
    /\ At("shut", "failed") /\ Goto("shut", "complete")
    /\ FlagReset /\ active' = FALSE
    /\ UNCHANGED <<lifecycle, listenerVars, sdkVars, envVars, current, inflight, callVars,
                   answer>>

ShutEnds ==
    /\ At("shut", "publish") /\ Goto("shut", "complete")
    /\ current' = NoListener /\ active' = FALSE
    /\ lifecycle' = IF lifecycle = "ShuttingDown" THEN "Shutdown" ELSE lifecycle
    /\ UNCHANGED <<sdkFlag, listenerVars, sdkVars, envVars, inflight, callVars, answer>>

ShutdownWorker == ShutCheck \/ ShutFails \/ ShutEnds \/ StopStep("shut")

-----------------------------------------------------------------------------
(* The system.                                                             *)

\* Steps the main thread takes without being asked by the application.
MainThread ==
    \/ SubscribeReturns \/ StopStep("main")
    \/ ForceDestroyEnds \/ DestructorEnds \/ MembersDestroyed
    \/ Completes("start") \/ Completes("shut")
    \/ \E c \in Calls, i \in Positions :
         CallJs(c, i) \/ CallJsDelivers(c, i) \/ CallJsFails(c, i)

Application ==
    \/ Start \/ Shutdown \/ ShutdownQueueFails \/ Subscribe \/ ForceDestroy
    \/ DropReference \/ Destructor \/ DestructorReturnsEarly
    \/ \E l \in Listeners : SetListener(l)
    \/ \E c \in Calls, i \in Positions : AckDone(c, i) \/ AckCollected(c, i)

\* The object is gone with its threads: the only legal end.
Finished == At("main", "gone") /\ UNCHANGED vars

Next ==
    \/ Application \/ MainThread \/ StartWorker \/ ShutdownWorker
    \/ \E c \in Calls : ConsumeMessage(c) \/ CallThread(c) \/ CallTimesOut(c)
    \/ Finished

\* Threads that run keep running.  Nothing obliges the application to answer, to
\* call anything or to drop anything, or the SDK to deliver anything.  An application
\* that keeps calling does not starve the completions of the workers in libuv.
\* Only CallsReturn relies on a deadline.
Fairness ==
    /\ SF_vars(Completes("start")) /\ SF_vars(Completes("shut"))
    /\ WF_vars(MainThread) /\ WF_vars(StartWorker) /\ WF_vars(ShutdownWorker)
    /\ \A c \in Calls : WF_vars(CallThread(c))

SafetySpec == Init /\ [][Next]_vars
Spec == SafetySpec /\ Fairness

-----------------------------------------------------------------------------
(* Properties.                                                             *)

\* CONSUME_SUCCESS makes the SDK forget the batch: it may be returned only if
\* JavaScript has accepted every message of it, whatever timed out, threw, was
\* collected or raced with shutdown.
SuccessMeansAllAcked ==
    \A c \in Calls : status[c] = "success" => \A i \in Positions : answer[c][i] = "acked"

\* A consume thread never touches a TSFN that Node may have freed: one that is
\* about to acquire it, or holds a unit of it, finds it open, although Shutdown
\* releases it from other threads.
TsfnOpenWhileUsed ==
    \A c \in Calls : at[c] \in {"acquire"} \cup Guarded => refs[serving] > 0

\* Shutdown means that nothing is left: no consume thread is in the listener, the
\* SDK consumer has stopped (on a retry too), and no listener keeps the event loop alive.
ShutdownLeavesNothing ==
    /\ lifecycle = "Shutdown" => sdkState \in {"failed", "stopped"} /\ NoCallInside
    /\ lifecycle = "Shutdown" /\ At("start", "rest") => \A l \in Listeners : refs[l] = 0

\* shutdown_worker_active_ tells whether a shutdown worker runs, and Shutdown() queues
\* one only while no other runs: a worker it replaces has only its completion left, so
\* that no two stop the SDK consumer or release the listener side by side.
OneShutdownWorker ==
    /\ active <=> thread["shut"].pc \notin {"rest", "complete"}
    /\ MayShutdown => thread["shut"].pc \in {"rest", "complete"}

\* Where a thread waits for the consume threads to leave the listener.
WaitsForCalls(t) ==
    \/ At(t, "idle")
    \/ At(t, "join") /\ sdkState \in {"stopping", "halted"}
    \/ At(t, "members") /\ sdkState \notin {"fresh", "failed"}

\* Nobody waits in a circle: a consume thread that somebody waits for does not itself
\* wait for an answer of the main thread, which may be blocked, and who holds
\* native_access_mutex_ is in a call of the SDK and not waiting for another thread.
NoCircularWait ==
    /\ \A t \in Threads, c \in Calls :
         WaitsForCalls(t) /\ at[c] = "wait" => PollsRequest \/ answer[c][index[c]] \in Answered
    /\ native # "free" => thread[native].pc \in {"call", "called", "stop", "join"}

\* When the object is gone every listener it ever had has released its TSFN once.
NothingLeftBehind == At("main", "gone") => \A l \in Listeners : refs[l] = 0

\* The consumer implements the service it promises.
Service == INSTANCE DeliveryService WITH
    door <- CASE sdkState \in {"failed", "halted", "stopped"} -> "stopped"
              [] sdkState \in {"fresh", "running", "stopping"} ->
                   IF serving # NoListener /\ requested[serving] THEN "closed" ELSE "open",
    status <- [c \in Calls |-> IF at[c] = "none" THEN "new"
                               ELSE IF status[c] = "none" THEN "open" ELSE status[c]],
    answer <- [c \in Calls |-> [i \in Positions |->
                 CASE answer[c][i] \in {"none", "queued"} -> "none"
                   [] answer[c][i] = "passed" -> "due"
                   [] answer[c][i] = "held" -> "asked"
                   [] answer[c][i] = "acked" -> "yes"
                   [] OTHER -> "no"]]
ImplementsDeliveryService == Service!Spec

\* A queued shutdown worker finishes although JavaScript never answers, and although
\* the consume threads it joins wait for answers of JavaScript.
ShutdownTerminates == At("shut", "queued") ~> At("shut", "rest")

\* ForceDestroy and the destructor finish.  They block the main thread on consume
\* threads that themselves wait for an answer only the main thread can give.
DestroyTerminates ==
    thread["main"].op \in {"force", "forceStarting", "dtor"} ~> MainFree \/ At("main", "gone")

\* A consume thread gets away from an application that never answers, since its
\* deadline passes.
CallsReturn ==
    (\A c \in Calls : WF_vars(CallTimesOut(c))) =>
        \A c \in Calls : at[c] = "check" ~> at[c] = "done"

\* The comment in the shutdown worker: "Shutdown failed - keep kShuttingDown to
\* prevent further operations".
FailedShutdownStaysShut ==
    [][lifecycle = "ShuttingDown" /\ sdkState = "halted" => lifecycle' # "Started"]_vars
=============================================================================
