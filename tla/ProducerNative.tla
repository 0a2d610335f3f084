--------------------------- MODULE ProducerNative ---------------------------
(***************************************************************************)
(* The N-API producer of lib/producer.cpp: one RocketMQProducer object,    *)
(* the JavaScript main thread that calls Start, Shutdown and Send on it    *)
(* and runs the thread-safe-function (TSFN) events, the two libuv workers  *)
(* that start and stop the SDK producer, the cancel-timer thread of        *)
(* Shutdown, and one SDK thread per send that calls the send back.         *)
(*                                                                         *)
(* A region under state_mutex_ or PendingSendState::mutex is one step.     *)
(* native_access_mutex_ is held across SDK calls, so it is a variable.     *)
(* Calls that the lifecycle check rejects change nothing and are left out, *)
(* as are a failed Queue() in Start and a failed std::thread in Shutdown,  *)
(* which restore the state they found before any other thread can see it.  *)
(* A user callback that CallJs runs may call shutdown() here; that it may  *)
(* also call send() before it returns is left out: here it does so after.  *)
(***************************************************************************)
EXTENDS Naturals, FiniteSets

CONSTANTS
    Sends,           \* the Send() calls a run may make, one name per call
    SharedInstance,  \* another client of the process uses the MQClientInstance
    SdkStopThrows,   \* producer_.shutdown() may throw
    TestHooks,       \* the build has __testForceDestroy
    Reentrant,       \* a getter of the send options may call shutdown()
    NoSend,          \* the main thread is inside no Send or CallJs
    MaxFaults        \* bound on the calls that fail in one behaviour

ASSUME FlagAssumption ==
    /\ SharedInstance \in BOOLEAN /\ SdkStopThrows \in BOOLEAN
    /\ TestHooks \in BOOLEAN /\ Reentrant \in BOOLEAN
ASSUME FaultAssumption == MaxFaults \in Nat
ASSUME SendsAssumption == IsFiniteSet(Sends) /\ NoSend \notin Sends

VARIABLES
    lifecycle,  \* lifecycle_state_
    active,     \* shutdown_worker_active_
    sdkFlag,    \* sdk_shutdown_called_
    native,     \* the thread that holds native_access_mutex_, or "free"
    sdkState,   \* service state of the SDK producer: "fresh", "running", "stopped"
    gen,        \* PendingSendState::generation
    pending,    \* PendingSendState::pending_send_callbacks
    wiped,      \* history: CancelPendingSends has zeroed the count
    handles,    \* PendingSendState::pending_tsfn_handles
    tracked,    \* PendingSendState::pending_callbacks
    taken,      \* handles_to_abort of the thread inside CancelPendingSends
    timer,      \* cancel_timer_thread_: its pc and who owns the std::thread
    main,       \* the JavaScript thread: operation, pc, send, pc to return to
    start,      \* ProducerStartWorker: pc and `started`
    shut,       \* ProducerShutdownWorker: pc and `shutdown_ok`
    held,       \* JavaScript still references the producer object
    faults,     \* failed calls so far (bounded by MaxFaults)
    cb,         \* per send: life of its ProducerSendCallback
    sdk,        \* per send: what the SDK does with the callback pointer
    claimed,    \* per send: tsfn_released_
    tsfn,       \* per send: state of the thread-safe function
    item,       \* per send: CallbackData queued on the TSFN
    failed,     \* per send: delivery_error is set
    released,   \* per send: its unit of pending_send_callbacks was given back
    sgen,       \* per send: the generation captured by Send
    ref,        \* per send: callback_ref is not empty
    pinned,     \* the sends whose prevent_gc pins the producer object
    told,       \* per send: times JavaScript was told an outcome
    verdict     \* per send: the outcome JavaScript was told last

lifeVars  == <<lifecycle, active, sdkFlag>>
countVars == <<gen, pending, wiped>>
listVars  == <<handles, tracked>>
sdkVars   == <<native, sdkState>>
envVars   == <<held, faults>>
ctxVars   == <<item, failed, sgen, ref, pinned, told, verdict>>
objectVars == <<lifeVars, countVars, listVars, sdkVars, envVars>>
tsfnVars == <<claimed, tsfn>>
sendVars == <<cb, sdk, tsfnVars, released, ctxVars>>
workerVars == <<start, shut>>
vars == <<objectVars, sendVars, workerVars, taken, timer, main>>

Cancellers == {"main", "timer"}
Lifecycles == {"Idle", "Starting", "Started", "ShuttingDown", "Shutdown", "Destroyed"}
MainPcs == {"loop", "build", "check", "lock", "call", "result", "cancelled", "callback",
            "bump", "take", "abort", "join", "joining", "enqueue", "flag", "sdkLock", "sdkStop",
            "delete", "members", "gone"}
MainOps == {"none", "send", "calljs", "shutdown", "queueFail", "forceDestroy", "dtor"}
WorkerPcs == {"none", "queued", "lock", "call", "publish", "flag", "stopLock",
              "stop", "join", "joining", "delete", "complete"}

\* SDK threads that are executing inside a ProducerSendCallback.
InCallback == {"entered", "deliver", "release", "purge"}

ObjectTypes ==
    /\ lifecycle \in Lifecycles
    /\ active \in BOOLEAN /\ sdkFlag \in BOOLEAN /\ wiped \in BOOLEAN /\ held \in BOOLEAN
    /\ native \in {"free", "main", "start", "shut"}
    /\ sdkState \in {"fresh", "running", "stopped"}
    /\ gen \in Nat /\ pending \in Nat /\ faults \in 0..MaxFaults
    /\ handles \subseteq Sends /\ tracked \subseteq Sends /\ pinned \subseteq Sends
    /\ taken \in [Cancellers -> SUBSET Sends]

ThreadTypes ==
    /\ timer \in [pc : {"none", "waiting", "bump", "take", "abort", "done"},
                  owner : {"none", "slot", "main", "shut"}]
    /\ main \in [op : MainOps, pc : MainPcs, send : Sends \cup {NoSend},
                 ret : {"loop", "build", "callback"}]
    /\ start \in [pc : WorkerPcs, ok : BOOLEAN]
    /\ shut \in [pc : WorkerPcs, ok : BOOLEAN]

SendTypes ==
    /\ cb \in [Sends -> {"none", "building", "live", "deleted", "unbuilt"}]
    /\ sdk \in [Sends -> {"none", "accepted", "returned", "dropped"} \cup InCallback]
    /\ claimed \in [Sends -> BOOLEAN]
    /\ tsfn \in [Sends -> {"none", "open", "closing", "finalized"}]
    /\ item \in [Sends -> BOOLEAN] /\ failed \in [Sends -> BOOLEAN]
    /\ released \in [Sends -> BOOLEAN] /\ ref \in [Sends -> BOOLEAN]
    /\ sgen \in [Sends -> Nat] /\ told \in [Sends -> Nat]
    /\ verdict \in [Sends -> {"none", "result", "cancelled", "thrown", "undelivered"}]

TypeOK == ObjectTypes /\ ThreadTypes /\ SendTypes

Idle(op) == [op |-> op, pc |-> "loop", send |-> NoSend, ret |-> "loop"]

Init ==
    /\ lifecycle = "Idle" /\ active = FALSE /\ sdkFlag = FALSE
    /\ native = "free" /\ sdkState = "fresh"
    /\ gen = 0 /\ pending = 0 /\ wiped = FALSE
    /\ handles = {} /\ tracked = {} /\ pinned = {}
    /\ taken = [a \in Cancellers |-> {}]
    /\ timer = [pc |-> "none", owner |-> "none"]
    /\ main = Idle("none")
    /\ start = [pc |-> "none", ok |-> FALSE]
    /\ shut = [pc |-> "none", ok |-> FALSE]
    /\ held = TRUE /\ faults = 0
    /\ cb = [s \in Sends |-> "none"] /\ sdk = [s \in Sends |-> "none"]
    /\ claimed = [s \in Sends |-> FALSE] /\ tsfn = [s \in Sends |-> "none"]
    /\ item = [s \in Sends |-> FALSE] /\ failed = [s \in Sends |-> FALSE]
    /\ released = [s \in Sends |-> FALSE] /\ sgen = [s \in Sends |-> 0]
    /\ ref = [s \in Sends |-> FALSE] /\ told = [s \in Sends |-> 0]
    /\ verdict = [s \in Sends |-> "none"]

-----------------------------------------------------------------------------
(* Helpers shared by the threads.                                          *)

\* One of the calls that the code expects to fail sometimes does fail.
Fault == faults < MaxFaults /\ faults' = faults + 1

MainAt(op, pc) == main.op = op /\ main.pc = pc
MainGoto(pc) == main' = [main EXCEPT !.pc = pc]
Tell(s, outcome) ==
    /\ told' = [told EXCEPT ![s] = @ + 1]
    /\ verdict' = [verdict EXCEPT ![s] = outcome]

\* (mutant) The count is not guarded against zero.
DecrementUnguarded == pending' = pending - 1

\* ReleasePendingSend(state): give back one unit, never below zero.
Decrement == pending' = IF pending = 0 THEN 0 ELSE pending - 1

\* (mutant) The unit of a send can be given back twice.
ReleasePendingSendTwice(s) == released' = [released EXCEPT ![s] = TRUE] /\ Decrement

\* ReleasePendingSend(ctx): give back the unit of send s, once.
ReleasePendingSend(s) ==
    IF released[s] THEN UNCHANGED <<released, pending>>
    ELSE released' = [released EXCEPT ![s] = TRUE] /\ Decrement

\* The sends of S whose TSFN nobody has claimed: `released.exchange(true)` wins
\* for those, and only for those the abort follows.
Unclaimed(S) == {s \in S : ~claimed[s]}

\* (mutant) The abort does not look at what the exchange returned.
AbortTsfnsUnclaimed(S) ==
    /\ claimed' = [s \in Sends |-> claimed[s] \/ s \in S]
    /\ tsfn' = [s \in Sends |-> IF s \in S THEN "closing" ELSE tsfn[s]]

AbortTsfns(S) ==
    /\ claimed' = [s \in Sends |-> claimed[s] \/ s \in S]
    /\ tsfn' = [s \in Sends |-> IF s \in Unclaimed(S) THEN "closing" ELSE tsfn[s]]

\* ~ProducerSendCallback of every callback in S: unregister, then claim and abort.
DestroyCallbacks(S) ==
    /\ cb' = [s \in Sends |-> IF s \in S THEN "deleted" ELSE cb[s]]
    /\ tracked' = tracked \ S
    /\ AbortTsfns(S)

\* DeleteOrphanedCallbacks deletes everything on the tracking list.
Orphans == tracked

\* Handles whose released flag is set leave the vector.
Purged(H) == Unclaimed(H)

-----------------------------------------------------------------------------
(* CancelPendingSends: the generation is bumped without the lock, then the *)
(* count is zeroed and the handles are taken under it, then the TSFNs are  *)
(* aborted outside it.                                                     *)

CancelBump == gen' = gen + 1

CancelTake(a) ==
    /\ pending' = 0 /\ wiped' = TRUE
    /\ taken' = [taken EXCEPT ![a] = handles]
    /\ handles' = {}

\* (mutant) The handles are dropped without an abort.
CancelAbortForgotten(a) == taken' = [taken EXCEPT ![a] = {}] /\ UNCHANGED tsfnVars

CancelAbort(a) ==
    /\ AbortTsfns(taken[a])
    /\ taken' = [taken EXCEPT ![a] = {}]

-----------------------------------------------------------------------------
(* The cancel-timer thread started by Shutdown.                            *)

\* (mutant) The timer waits without a timeout.
NeverExpires == FALSE

\* wait_for returns false: the timeout passed and sends are still pending.
Expires == pending # 0

\* (mutant) The joiner does not find the thread.
TimerNotFound == FALSE

\* JoinCancelTimerThread takes the std::thread out of the slot, if it is there.
TimerInSlot == timer.owner = "slot"

TimerDone ==
    /\ timer.pc = "waiting" /\ pending = 0
    /\ timer' = [timer EXCEPT !.pc = "done"]
    /\ UNCHANGED <<objectVars, taken, main, workerVars, sendVars>>

TimerTimeout ==
    /\ timer.pc = "waiting" /\ Expires
    /\ timer' = [timer EXCEPT !.pc = "bump"]
    /\ UNCHANGED <<objectVars, taken, main, workerVars, sendVars>>

TimerBump ==
    /\ timer.pc = "bump" /\ CancelBump
    /\ timer' = [timer EXCEPT !.pc = "take"]
    /\ UNCHANGED <<lifeVars, pending, wiped, listVars, sdkVars, envVars, taken, main,
                   workerVars, sendVars>>

TimerTake ==
    /\ timer.pc = "take" /\ CancelTake("timer")
    /\ timer' = [timer EXCEPT !.pc = "abort"]
    /\ UNCHANGED <<lifeVars, gen, tracked, sdkVars, envVars, main, workerVars, sendVars>>

TimerAbort ==
    /\ timer.pc = "abort" /\ CancelAbort("timer")
    /\ timer' = [timer EXCEPT !.pc = "done"]
    /\ UNCHANGED <<objectVars, main, workerVars, cb, sdk, released, ctxVars>>

TimerStep == TimerDone \/ TimerTimeout \/ TimerBump \/ TimerTake \/ TimerAbort

-----------------------------------------------------------------------------
(* producer_.shutdown() of the SDK. With no other client on the            *)
(* MQClientInstance it drops what is in flight and joins the threads that  *)
(* run callbacks; with another client the instance keeps running.          *)

SdkStop ==
    IF sdkState = "running"
    THEN /\ sdkState' = "stopped"
         /\ IF SharedInstance
            THEN UNCHANGED sdk
            ELSE /\ \A s \in Sends : sdk[s] \notin InCallback
                 /\ sdk' = [s \in Sends |-> IF sdk[s] = "accepted" THEN "dropped" ELSE sdk[s]]
    ELSE UNCHANGED <<sdkState, sdk>>

SdkStopFails ==
    SdkStopThrows /\ sdkState = "running" /\ Fault /\ UNCHANGED <<sdkState, sdk>>

-----------------------------------------------------------------------------
(* ProducerSendCallback::ScheduleCallback on an SDK thread. Every step     *)
(* reads members of the callback object.                                   *)

SdkGoto(s, pc) == sdk' = [sdk EXCEPT ![s] = pc]

SdkEnters(s) ==
    /\ sdk[s] = "accepted" /\ SdkGoto(s, "entered")
    /\ UNCHANGED <<objectVars, taken, timer, main, workerVars, cb, tsfnVars, released,
                   ctxVars>>

SdkClaims(s) ==
    /\ sdk[s] = "entered"
    /\ SdkGoto(s, IF claimed[s] THEN "returned" ELSE "deliver")
    /\ claimed' = [claimed EXCEPT ![s] = TRUE]
    /\ UNCHANGED <<objectVars, taken, timer, main, workerVars, cb, tsfn, released, ctxVars>>

SdkDelivers(s) ==
    /\ sdk[s] = "deliver" /\ SdkGoto(s, "release")
    /\ item' = [item EXCEPT ![s] = TRUE]
    /\ UNCHANGED <<objectVars, taken, timer, main, workerVars, cb, tsfnVars, released,
                   failed, sgen, ref, pinned, told, verdict>>

SdkDeliveryFails(s) ==
    /\ sdk[s] = "deliver" /\ Fault /\ SdkGoto(s, "release")
    /\ failed' = [failed EXCEPT ![s] = TRUE]
    /\ ReleasePendingSend(s)
    /\ UNCHANGED <<lifeVars, gen, wiped, listVars, sdkVars, held, taken, timer, main,
                   workerVars, cb, tsfnVars, item, sgen, ref, pinned, told, verdict>>

SdkReleases(s) ==
    /\ sdk[s] = "release" /\ SdkGoto(s, "purge")
    /\ tsfn' = [tsfn EXCEPT ![s] = "closing"]
    /\ UNCHANGED <<objectVars, taken, timer, main, workerVars, cb, claimed, released,
                   ctxVars>>

SdkPurges(s) ==
    /\ sdk[s] = "purge" /\ SdkGoto(s, "returned")
    /\ handles' = Purged(handles)
    /\ UNCHANGED <<lifeVars, countVars, tracked, sdkVars, envVars, taken, timer, main,
                   workerVars, cb, tsfnVars, released, ctxVars>>

SdkThread(s) == SdkClaims(s) \/ SdkDelivers(s) \/ SdkDeliveryFails(s)
                \/ SdkReleases(s) \/ SdkPurges(s)

-----------------------------------------------------------------------------
(* The main thread: Send.                                                  *)

\* (mutant) A producer that is shutting down still takes sends.
TakesSendsLate == lifecycle \in {"Started", "ShuttingDown"}

TakesSends == lifecycle = "Started"

\* The lifecycle check and the increment are one region under both mutexes.
SendAdmit(s) ==
    /\ held /\ main.pc = "loop" /\ cb[s] = "none" /\ TakesSends
    /\ main' = [op |-> "send", pc |-> "build", send |-> s, ret |-> "loop"]
    /\ cb' = [cb EXCEPT ![s] = "building"]
    /\ sgen' = [sgen EXCEPT ![s] = gen]
    /\ pending' = pending + 1
    /\ UNCHANGED <<lifeVars, gen, wiped, listVars, sdkVars, envVars, taken, timer,
                   workerVars, sdk, tsfnVars, released, item, failed, ref, pinned, told,
                   verdict>>

\* Building the message or the TSFN throws: no callback object owns the unit.
SendBuildFails ==
    LET s == main.send IN
    /\ MainAt("send", "build") /\ Fault
    /\ main' = Idle("none")
    /\ cb' = [cb EXCEPT ![s] = "unbuilt"]
    /\ released' = [released EXCEPT ![s] = TRUE] /\ Decrement
    /\ Tell(s, "thrown")
    /\ UNCHANGED <<lifeVars, gen, wiped, listVars, sdkVars, held, taken, timer, workerVars,
                   sdk, tsfnVars, item, failed, sgen, ref, pinned>>

\* The ProducerSendCallback constructor.
SendConstruct ==
    LET s == main.send IN
    /\ MainAt("send", "build") /\ MainGoto("check")
    /\ cb' = [cb EXCEPT ![s] = "live"]
    /\ tsfn' = [tsfn EXCEPT ![s] = "open"]
    /\ ref' = [ref EXCEPT ![s] = TRUE]
    /\ pinned' = pinned \cup {s}
    /\ handles' = Purged(handles) \cup {s}
    /\ tracked' = tracked \cup {s}
    /\ UNCHANGED <<lifeVars, countVars, sdkVars, envVars, taken, timer, workerVars, sdk,
                   claimed, released, item, failed, sgen, told, verdict>>

\* Send throws after the constructor: unique_ptr destroys the callback.
SendUnwind(s) ==
    /\ main' = Idle("none")
    /\ DestroyCallbacks({s})
    /\ Tell(s, "thrown")
    /\ UNCHANGED <<lifeVars, countVars, handles, sdkState, held, taken, timer, workerVars,
                   sdk, released, item, failed, sgen, ref, pinned>>

SendCheckGeneration ==
    /\ MainAt("send", "check")
    /\ IF sgen[main.send] = gen
       THEN /\ MainGoto("lock")
            /\ UNCHANGED <<lifeVars, countVars, listVars, sdkState, held, taken, timer,
                           workerVars, sendVars>>
       ELSE SendUnwind(main.send)
    /\ UNCHANGED <<native, faults>>

SendLock ==
    /\ MainAt("send", "lock") /\ MainGoto("call")
    /\ native = "free" /\ native' = "main"
    /\ UNCHANGED <<lifeVars, countVars, listVars, sdkState, envVars, taken, timer,
                   workerVars, sendVars>>

\* producer_.send hands the raw pointer over; a stopped executor drops the task.
SendAccepted ==
    /\ MainAt("send", "call") /\ main' = Idle("none")
    /\ native' = "free"
    /\ SdkGoto(main.send, IF sdkState = "running" THEN "accepted" ELSE "dropped")
    /\ UNCHANGED <<lifeVars, countVars, listVars, sdkState, envVars, taken, timer,
                   workerVars, cb, tsfnVars, released, ctxVars>>

SendThrows ==
    /\ MainAt("send", "call") /\ Fault
    /\ native' = "free"
    /\ SendUnwind(main.send)

SendStep == SendBuildFails \/ SendConstruct \/ SendCheckGeneration
            \/ SendLock \/ SendAccepted \/ SendThrows

-----------------------------------------------------------------------------
(* The main thread: the events of a TSFN.                                  *)

\* CallJs compares the generations without a lock: what it will tell is decided
\* here, and CancelPendingSends may come in before it is told.
CallJs(s) ==
    /\ main.pc = "loop" /\ item[s]
    /\ main' = [op |-> "calljs", pc |-> IF sgen[s] = gen THEN "result" ELSE "cancelled",
                send |-> s, ret |-> "loop"]
    /\ item' = [item EXCEPT ![s] = FALSE]
    /\ UNCHANGED <<objectVars, taken, timer, workerVars, cb, sdk, tsfnVars, released,
                   failed, sgen, ref, pinned, told, verdict>>

\* callback.Call: the JavaScript callback runs while pc is "callback".
CallJsTells ==
    /\ main.op = "calljs" /\ main.pc \in {"result", "cancelled"} /\ MainGoto("callback")
    /\ Tell(main.send, main.pc)
    /\ UNCHANGED <<objectVars, taken, timer, workerVars, cb, sdk, tsfnVars, released,
                   item, failed, sgen, ref, pinned>>

\* The callback returned or threw: both paths release the send.
CallJsReturns ==
    LET s == main.send IN
    /\ MainAt("calljs", "callback") /\ main' = Idle("none")
    /\ ReleasePendingSend(s)
    /\ ref' = [ref EXCEPT ![s] = FALSE]
    /\ UNCHANGED <<lifeVars, gen, wiped, listVars, sdkVars, envVars, taken, timer,
                   workerVars, cb, sdk, tsfnVars, item, failed, sgen, pinned, told,
                   verdict>>

\* (mutant) Finalize calls every callback that is still referenced.
ReportsAnyCallback(s) == ref[s]

\* (mutant) Finalize leaves a failed delivery to the drain of the JavaScript layer.
ReportsNoDeliveryError(s) == FALSE

ReportsDeliveryError(s) == failed[s] /\ ref[s]

\* Node finalizes a closing TSFN after the items queued on it.
Finalize(s) ==
    /\ main.pc = "loop" /\ tsfn[s] = "closing" /\ ~item[s]
    /\ tsfn' = [tsfn EXCEPT ![s] = "finalized"]
    /\ pinned' = pinned \ {s}
    /\ IF ReportsDeliveryError(s) THEN Tell(s, "undelivered") ELSE UNCHANGED <<told, verdict>>
    /\ ReleasePendingSend(s)
    /\ ref' = [ref EXCEPT ![s] = FALSE]
    /\ UNCHANGED <<lifeVars, gen, wiped, listVars, sdkVars, envVars, taken, timer, main,
                   workerVars, cb, sdk, claimed, item, failed, sgen>>

-----------------------------------------------------------------------------
(* The main thread: Start and Shutdown.                                    *)

Start ==
    /\ held /\ main.pc = "loop" /\ lifecycle = "Idle"
    /\ lifecycle' = "Starting"
    /\ start' = [pc |-> "queued", ok |-> FALSE]
    /\ UNCHANGED <<active, sdkFlag, countVars, listVars, sdkVars, envVars, taken, timer,
                   main, shut, sendVars>>

\* Where JavaScript code that may call shutdown() runs on the main thread.
ShutdownPoints == {"loop", "callback"} \cup (IF Reentrant THEN {"build"} ELSE {})

Returned == [op |-> CASE main.ret = "loop" -> "none" [] main.ret = "build" -> "send"
                      [] OTHER -> "calljs",
             pc |-> main.ret, send |-> main.send, ret |-> "loop"]

\* First attempt: the timer thread starts before the worker is queued.
Shutdown ==
    /\ held /\ main.pc \in ShutdownPoints /\ lifecycle = "Started"
    /\ lifecycle' = "ShuttingDown"
    /\ timer' = [pc |-> "waiting", owner |-> "slot"]
    /\ main' = [main EXCEPT !.op = "shutdown", !.pc = "enqueue", !.ret = main.pc]
    /\ UNCHANGED <<active, sdkFlag, countVars, listVars, sdkVars, envVars, taken,
                   workerVars, sendVars>>

MayRetry == lifecycle = "ShuttingDown" /\ ~active

\* A further attempt after a failed one. The first worker is past ShutPublish by
\* then and has only its completion left, which touches no state modelled here:
\* ShutdownEnqueue may forget it (RetryFindsWorkerDone of the proofs).
ShutdownRetry ==
    /\ held /\ main.pc \in ShutdownPoints /\ MayRetry
    /\ main' = [main EXCEPT !.op = "shutdown", !.pc = "join", !.ret = main.pc]
    /\ UNCHANGED <<objectVars, taken, timer, workerVars, sendVars>>

ShutdownEnqueue ==
    /\ MainAt("shutdown", "enqueue")
    /\ active' = TRUE
    /\ shut' = [pc |-> "queued", ok |-> FALSE]
    /\ main' = Returned
    /\ UNCHANGED <<lifecycle, sdkFlag, countVars, listVars, sdkVars, envVars, taken, timer,
                   start, sendVars>>

\* Queue() throws: cancel, join the timer, then throw to JavaScript.
ShutdownQueueFails ==
    /\ MainAt("shutdown", "enqueue") /\ Fault
    /\ main' = [main EXCEPT !.op = "queueFail", !.pc = "bump"]
    /\ UNCHANGED <<lifeVars, countVars, listVars, sdkVars, held, taken, timer, workerVars,
                   sendVars>>

ShutdownStep == ShutdownEnqueue \/ ShutdownQueueFails

-----------------------------------------------------------------------------
(* The main thread: what destruction and a failed shutdown have in common. *)

\* SafeShutdown(false), reachable through __testForceDestroy only.
ForceDestroy ==
    /\ TestHooks /\ held /\ main.pc = "loop" /\ lifecycle # "Destroyed"
    /\ lifecycle' = "Destroyed"
    /\ main' = [main EXCEPT !.op = "forceDestroy",
                            !.pc = IF lifecycle \in {"Starting", "ShuttingDown"}
                                   THEN "bump" ELSE "join"]
    /\ UNCHANGED <<active, sdkFlag, countVars, listVars, sdkVars, envVars, taken, timer,
                   workerVars, sendVars>>

DropReference ==
    /\ held /\ main.pc = "loop" /\ held' = FALSE
    /\ UNCHANGED <<lifeVars, countVars, listVars, sdkVars, faults, taken, timer, main,
                   workerVars, sendVars>>

\* ~RocketMQProducer: no JavaScript reference, no worker and no send pins the object.
Destroy ==
    /\ ~held /\ main.pc = "loop" /\ pinned = {}
    /\ start.pc = "none" /\ shut.pc = "none"
    /\ lifecycle' = "Destroyed"
    /\ main' = [main EXCEPT !.op = "dtor",
                            !.pc = IF lifecycle = "Destroyed" THEN "members" ELSE "flag"]
    /\ UNCHANGED <<active, sdkFlag, countVars, listVars, sdkVars, envVars, taken, timer,
                   workerVars, sendVars>>

MainBump ==
    /\ main.pc = "bump" /\ CancelBump /\ MainGoto("take")
    /\ UNCHANGED <<lifeVars, pending, wiped, listVars, sdkVars, envVars, taken, timer,
                   workerVars, sendVars>>

MainTake ==
    /\ main.pc = "take" /\ CancelTake("main") /\ MainGoto("abort")
    /\ UNCHANGED <<lifeVars, gen, tracked, sdkVars, envVars, timer, workerVars, sendVars>>

MainAbort ==
    /\ main.pc = "abort" /\ CancelAbort("main") /\ MainGoto("join")
    /\ UNCHANGED <<objectVars, timer, workerVars, cb, sdk, released, ctxVars>>

\* What follows JoinCancelTimerThread in each of its callers.
AfterJoin ==
    CASE main.op = "shutdown"     -> MainGoto("enqueue")
      [] main.op = "forceDestroy" -> MainGoto("flag")
      [] main.op = "dtor"         -> MainGoto("delete")
      [] OTHER                    -> main' = Returned

MainJoin ==
    /\ main.pc = "join"
    /\ IF TimerInSlot
       THEN timer' = [timer EXCEPT !.owner = "main"] /\ MainGoto("joining")
       ELSE AfterJoin /\ UNCHANGED timer
    /\ UNCHANGED <<objectVars, taken, workerVars, sendVars>>

MainJoined ==
    /\ main.pc = "joining" /\ timer.pc = "done" /\ AfterJoin
    /\ UNCHANGED <<objectVars, taken, timer, workerVars, sendVars>>

AfterStop == MainGoto(IF main.op = "dtor" THEN "bump" ELSE "delete")

MainFlag ==
    /\ main.pc = "flag"
    /\ sdkFlag' = TRUE
    /\ IF sdkFlag THEN AfterStop ELSE MainGoto("sdkLock")
    /\ UNCHANGED <<lifecycle, active, countVars, listVars, sdkVars, envVars, taken, timer,
                   workerVars, sendVars>>

MainStopLock ==
    /\ main.pc = "sdkLock" /\ native = "free" /\ native' = "main" /\ MainGoto("sdkStop")
    /\ UNCHANGED <<lifeVars, countVars, listVars, sdkState, envVars, taken, timer,
                   workerVars, sendVars>>

\* An exception of producer_.shutdown() is caught here.
MainStop ==
    /\ main.pc = "sdkStop" /\ native' = "free" /\ AfterStop
    /\ (SdkStop /\ UNCHANGED faults) \/ SdkStopFails
    /\ UNCHANGED <<lifeVars, countVars, listVars, held, taken, timer, workerVars, cb,
                   tsfnVars, released, ctxVars>>

MainDelete ==
    /\ main.pc = "delete" /\ DestroyCallbacks(Orphans)
    /\ IF main.op = "dtor" THEN MainGoto("members") ELSE main' = Idle("none")
    /\ UNCHANGED <<lifeVars, countVars, handles, sdkVars, envVars, taken, timer, workerVars,
                   sdk, released, ctxVars>>

\* The destructor of the member producer_ stops the SDK producer and swallows errors.
MainMembers ==
    /\ main.pc = "members" /\ MainGoto("gone")
    /\ (SdkStop /\ UNCHANGED faults) \/ SdkStopFails
    /\ UNCHANGED <<lifeVars, countVars, listVars, native, held, taken, timer, workerVars,
                   cb, tsfnVars, released, ctxVars>>

MainCommon == MainBump \/ MainTake \/ MainAbort \/ MainJoin \/ MainJoined \/ MainFlag
              \/ MainStopLock \/ MainStop \/ MainDelete \/ MainMembers

-----------------------------------------------------------------------------
(* ProducerStartWorker::Execute, and its completion on the main thread.    *)

StartGoto(pc) == start' = [start EXCEPT !.pc = pc]

StartCheck ==
    /\ start.pc = "queued"
    /\ StartGoto(IF lifecycle = "Destroyed" THEN "complete" ELSE "lock")
    /\ UNCHANGED <<objectVars, taken, timer, main, shut, sendVars>>

StartLock ==
    /\ start.pc = "lock" /\ native = "free" /\ native' = "start" /\ StartGoto("call")
    /\ UNCHANGED <<lifeVars, countVars, listVars, sdkState, envVars, taken, timer, main,
                   shut, sendVars>>

\* producer_.start(): after a failure the SDK producer can no longer be used.
StartCall ==
    /\ start.pc = "call" /\ native' = "free"
    /\ \/ /\ sdkState = "fresh" /\ sdkState' = "running"
          /\ start' = [pc |-> "publish", ok |-> TRUE]
          /\ UNCHANGED faults
       \/ /\ Fault /\ sdkState' = "stopped" /\ StartGoto("publish")
    /\ UNCHANGED <<lifeVars, countVars, listVars, held, taken, timer, main, shut, sendVars>>

StartPublish ==
    /\ start.pc = "publish"
    /\ IF lifecycle = "Destroyed"
       THEN StartGoto(IF start.ok THEN "flag" ELSE "complete") /\ UNCHANGED lifecycle
       ELSE /\ StartGoto("complete")
            /\ lifecycle' = IF start.ok THEN "Started" ELSE "Shutdown"
    /\ UNCHANGED <<active, sdkFlag, countVars, listVars, sdkVars, envVars, taken, timer,
                   main, shut, sendVars>>

\* Destroyed while starting: stop what was just started, unless somebody did.
StartFlag ==
    /\ start.pc = "flag"
    /\ sdkFlag' = TRUE
    /\ StartGoto(IF sdkFlag THEN "complete" ELSE "stopLock")
    /\ UNCHANGED <<lifecycle, active, countVars, listVars, sdkVars, envVars, taken, timer,
                   main, shut, sendVars>>

StartStopLock ==
    /\ start.pc = "stopLock" /\ native = "free" /\ native' = "start" /\ StartGoto("stop")
    /\ UNCHANGED <<lifeVars, countVars, listVars, sdkState, envVars, taken, timer, main,
                   shut, sendVars>>

StartStop ==
    /\ start.pc = "stop" /\ native' = "free" /\ StartGoto("complete")
    /\ (SdkStop /\ UNCHANGED faults) \/ SdkStopFails
    /\ UNCHANGED <<lifeVars, countVars, listVars, held, taken, timer, main, shut, cb,
                   tsfnVars, released, ctxVars>>

StartWorker == StartCheck \/ StartLock \/ StartCall \/ StartPublish
               \/ StartFlag \/ StartStopLock \/ StartStop

StartCompletes ==
    /\ main.pc = "loop" /\ start.pc = "complete" /\ StartGoto("none")
    /\ UNCHANGED <<objectVars, taken, timer, main, shut, sendVars>>

-----------------------------------------------------------------------------
(* ProducerShutdownWorker::Execute, and its completion.                    *)

ShutGoto(pc) == shut' = [shut EXCEPT !.pc = pc]

\* The early return for a destroyed producer leaves shutdown_worker_active_ set.
ShutCheck ==
    /\ shut.pc = "queued"
    /\ ShutGoto(IF lifecycle = "Destroyed" THEN "complete" ELSE "join")
    /\ UNCHANGED <<objectVars, taken, timer, main, start, sendVars>>

ShutJoin ==
    /\ shut.pc = "join"
    /\ IF TimerInSlot
       THEN timer' = [timer EXCEPT !.owner = "shut"] /\ ShutGoto("joining")
       ELSE UNCHANGED timer /\ ShutGoto("flag")
    /\ UNCHANGED <<objectVars, taken, main, start, sendVars>>

ShutJoined ==
    /\ shut.pc = "joining" /\ timer.pc = "done" /\ ShutGoto("flag")
    /\ UNCHANGED <<objectVars, taken, timer, main, start, sendVars>>

\* (mutant) The test of sdk_shutdown_called_ is inverted.
SdkCallIsDue == ~sdkFlag

SdkCallIsDone == sdkFlag

ShutFlag ==
    /\ shut.pc = "flag"
    /\ shut' = IF SdkCallIsDone THEN [pc |-> "delete", ok |-> TRUE]
               ELSE [shut EXCEPT !.pc = "stopLock"]
    /\ UNCHANGED <<objectVars, taken, timer, main, start, sendVars>>

ShutStopLock ==
    /\ shut.pc = "stopLock" /\ native = "free" /\ native' = "shut" /\ ShutGoto("stop")
    /\ UNCHANGED <<lifeVars, countVars, listVars, sdkState, envVars, taken, timer, main,
                   start, sendVars>>

\* sdk_shutdown_called_ is set only after the SDK call returned.
ShutStop ==
    /\ shut.pc = "stop" /\ native' = "free"
    /\ \/ /\ SdkStop /\ sdkFlag' = TRUE
          /\ shut' = [pc |-> "delete", ok |-> TRUE]
          /\ UNCHANGED faults
       \/ SdkStopFails /\ ShutGoto("delete") /\ UNCHANGED sdkFlag
    /\ UNCHANGED <<lifecycle, active, countVars, listVars, held, taken, timer, main, start,
                   cb, tsfnVars, released, ctxVars>>

\* DeleteOrphanedCallbacks runs whether or not the SDK shut down.
ShutDelete ==
    /\ shut.pc = "delete" /\ DestroyCallbacks(Orphans) /\ ShutGoto("publish")
    /\ UNCHANGED <<lifeVars, countVars, handles, sdkVars, envVars, taken, timer, main,
                   start, sdk, released, ctxVars>>

\* After a failure the producer stays in ShuttingDown and may be retried.
ShutPublish ==
    /\ shut.pc = "publish" /\ ShutGoto("complete")
    /\ active' = FALSE
    /\ lifecycle' = IF shut.ok /\ lifecycle # "Destroyed" THEN "Shutdown" ELSE lifecycle
    /\ UNCHANGED <<sdkFlag, countVars, listVars, sdkVars, envVars, taken, timer, main,
                   start, sendVars>>

ShutdownWorker == ShutCheck \/ ShutJoin \/ ShutJoined \/ ShutFlag \/ ShutStopLock
                  \/ ShutStop \/ ShutDelete \/ ShutPublish

ShutCompletes ==
    /\ main.pc = "loop" /\ shut.pc = "complete" /\ ShutGoto("none")
    /\ UNCHANGED <<objectVars, taken, timer, main, start, sendVars>>

-----------------------------------------------------------------------------
(* The system.                                                             *)

\* Steps the main thread takes without being asked by the application.
MainThread ==
    \/ SendStep \/ ShutdownStep \/ MainCommon
    \/ CallJsTells \/ CallJsReturns \/ StartCompletes \/ ShutCompletes
    \/ \E s \in Sends : CallJs(s) \/ Finalize(s)

Application ==
    \/ Start \/ Shutdown \/ ShutdownRetry \/ ForceDestroy \/ DropReference \/ Destroy
    \/ \E s \in Sends : SendAdmit(s)

\* The object and everything that belongs to it is gone: the only legal end.
Finished ==
    /\ main.pc = "gone" /\ \A s \in Sends : sdk[s] \notin InCallback \cup {"accepted"}
    /\ UNCHANGED vars

Next ==
    \/ Application \/ MainThread \/ TimerStep \/ StartWorker \/ ShutdownWorker
    \/ \E s \in Sends : SdkEnters(s) \/ SdkThread(s)
    \/ Finished

\* Threads that are running keep running. Nothing obliges the SDK to call a
\* callback, the application to call anything, or the collector to collect.
Fairness ==
    /\ WF_vars(MainThread) /\ WF_vars(TimerStep)
    /\ WF_vars(StartWorker) /\ WF_vars(ShutdownWorker)
    /\ \A s \in Sends : WF_vars(SdkThread(s))

SafetySpec == Init /\ [][Next]_vars
Spec == SafetySpec /\ Fairness

\* The SDK answers or times out every send it accepted.
SdkAnswers == \A s \in Sends : WF_vars(SdkEnters(s))

-----------------------------------------------------------------------------
(* Properties.                                                             *)

Admitted == {s \in Sends : cb[s] # "none"}
Unreleased == {s \in Admitted : ~released[s]}

\* ScheduleCallback calls BlockingCall and Release outside every lock, while
\* CancelPendingSends and the destructor abort the same handle: the exchange on
\* tsfn_released_ must keep the handle open for the thread that won it, and no
\* event may be left on a TSFN that Node has finalized.
TsfnUsedOnlyWhileOwned ==
    \A s \in Sends : /\ sdk[s] \in {"deliver", "release"} => tsfn[s] = "open"
                     /\ item[s] => tsfn[s] \in {"open", "closing"}

\* No thread is inside a ProducerSendCallback, and Send holds no raw pointer to
\* one, that DeleteOrphanedCallbacks or an unwinding Send has deleted.
NoUseAfterDelete ==
    /\ \A s \in Sends : sdk[s] \in InCallback => cb[s] = "live"
    /\ main.op = "send" /\ main.pc # "build" => cb[main.send] = "live"

\* Until CancelPendingSends zeroes it, pending_send_callbacks is the number of
\* sends not yet given back: a double or a missing release in one of the five
\* places that release would stop shutdown too early or only after 30 s.
PendingCountExact == ~wiped => pending = Cardinality(Unreleased)

\* "shutdown will wait for this send": once the shutdown worker is past the
\* join, every admitted send was given back or all were cancelled.
ShutdownWaitsForSends ==
    shut.pc \in {"flag", "stopLock", "stop", "delete", "publish"} =>
        wiped \/ Unreleased = {}

\* JavaScript is told one outcome per send: by the exception of Send, by CallJs,
\* or by Finalize after a failed delivery, never by two of them.
ToldAtMostOnce == \A s \in Sends : told[s] <= 1

\* When the object is gone, every callback was freed, no TSFN is open, and the
\* std::thread is not left joinable in its slot (its destructor would terminate
\* the process).
NothingLeftBehind ==
    main.pc = "gone" =>
        /\ \A s \in Sends : cb[s] \in {"none", "unbuilt", "deleted"} /\ tsfn[s] # "open"
        /\ timer.owner # "slot"

\* The producer implements the service it promises.
Service == INSTANCE SendService WITH
    door <- CASE lifecycle \in {"Idle", "Starting"} -> "shut"
              [] lifecycle = "Started" -> "open"
              [] lifecycle = "ShuttingDown" -> "closing"
              [] OTHER -> "closed",
    status <- [s \in Sends |-> IF cb[s] = "none" THEN "new"
                               ELSE IF released[s] THEN "settled"
                               ELSE IF wiped THEN "cancelled" ELSE "pending"],
    outcome <- [s \in Sends |-> IF main.pc = "result" /\ main.send = s THEN "decided"
                                ELSE IF verdict[s] \in {"none", "result"} THEN verdict[s]
                                ELSE "error"]
ImplementsSendService == Service!Spec

\* A queued shutdown worker finishes even if the SDK never answers a send: the
\* timer thread gives up on what is pending, and no mutex is held across a join.
ShutdownTerminates == shut.pc = "queued" ~> shut.pc = "none"

\* After Shutdown the sends stop pinning the producer object, answered or not.
PinsDropped == lifecycle = "ShuttingDown" ~> pinned = {}

\* If the SDK answers, every admitted send is reported to JavaScript, unless a
\* shutdown has given up on it.
SendsReported ==
    SdkAnswers => \A s \in Sends : cb[s] = "building" ~> told[s] = 1 \/ wiped
=============================================================================
