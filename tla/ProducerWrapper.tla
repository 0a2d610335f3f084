-------------------------- MODULE ProducerWrapper --------------------------
(***************************************************************************)
(* The JavaScript class RocketMQProducer of src/producer.ts, over the      *)
(* native producer as its callers see it. Producers of one process share   *)
(* producerRef and the keep-alive timer. Every action is one run of        *)
(* synchronous JavaScript: a call of the application, the body of a queued *)
(* operation, a callback of the native layer, or the microtask that clears *)
(* pendingShutdownPromise.                                                 *)
(*                                                                         *)
(* `initiated` is written but decides nothing in the source, so it is not  *)
(* modelled; argument checks, empty bodies and warnings change no state.   *)
(***************************************************************************)
EXTENDS Naturals, FiniteSets, Sequences

CONSTANTS
    Producers,   \* RocketMQProducer objects of one process
    Calls,       \* the start() and shutdown() calls a run may make
    Sends,       \* the send() calls a run may make
    None         \* no call, no producer

ASSUME NoneAssumption == None \notin Producers \cup Calls
ASSUME FiniteAssumption == IsFiniteSet(Producers)

VARIABLES
    status,      \* per producer: STOPPED, STARTED, STOPPING or STARTING
    completed,   \* per producer: shutdownCompleted
    ops,         \* per producer: pendingOperations
    queue,       \* per producer: operationQueue, the calls not yet run
    running,     \* per producer: the call whose queue promise is open
    memo,        \* per producer: pendingShutdownPromise
    native,      \* per producer: lifecycle of the native producer
    producerRef, \* module variable
    timer,       \* module variable: the keep-alive interval is set
    kind,        \* per call: "start" or "shutdown" once made
    target,      \* per call: the producer it was made on
    answer,      \* per call: the call whose promise it returned
    reply,       \* per call: "none", "ok" or "error"
    settlers,    \* per producer: pendingSendSettlers
    promise,     \* per send: "none", "pending", "resolved" or "rejected"
    nsend        \* per send: "none", "pending" or "told" by the native producer

moduleVars == <<producerRef, timer>>
callVars == <<kind, target, answer, reply>>
sendVars == <<settlers, promise, nsend>>
vars == <<status, completed, ops, queue, running, memo, native, moduleVars, callVars, sendVars>>

Statuses == {"STOPPED", "STARTED", "STOPPING", "STARTING"}
NativeStates == {"Idle", "Starting", "Started", "ShuttingDown", "Shutdown"}

TypeOK ==
    /\ status \in [Producers -> Statuses]
    /\ completed \in [Producers -> BOOLEAN]
    /\ ops \in [Producers -> Nat]
    /\ queue \in [Producers -> Seq(Calls)]
    /\ running \in [Producers -> Calls \cup {None}]
    /\ memo \in [Producers -> Calls \cup {None}]
    /\ native \in [Producers -> NativeStates]
    /\ producerRef \in Nat /\ timer \in BOOLEAN
    /\ kind \in [Calls -> {"none", "start", "shutdown"}]
    /\ target \in [Calls -> Producers \cup {None}]
    /\ answer \in [Calls -> Calls \cup {None}]
    /\ reply \in [Calls -> {"none", "ok", "error"}]
    /\ settlers \in [Producers -> SUBSET Sends]
    /\ promise \in [Sends -> {"none", "pending", "resolved", "rejected"}]
    /\ nsend \in [Sends -> {"none", "pending", "told"}]

Init ==
    /\ status = [p \in Producers |-> "STOPPED"]
    /\ completed = [p \in Producers |-> FALSE]
    /\ ops = [p \in Producers |-> 0]
    /\ queue = [p \in Producers |-> <<>>]
    /\ running = [p \in Producers |-> None]
    /\ memo = [p \in Producers |-> None]
    /\ native = [p \in Producers |-> "Idle"]
    /\ producerRef = 0 /\ timer = FALSE
    /\ kind = [c \in Calls |-> "none"] /\ target = [c \in Calls |-> None]
    /\ answer = [c \in Calls |-> None] /\ reply = [c \in Calls |-> "none"]
    /\ settlers = [p \in Producers |-> {}]
    /\ promise = [s \in Sends |-> "none"] /\ nsend = [s \in Sends |-> "none"]

-----------------------------------------------------------------------------
(* START_OR_SHUTDOWN, the synchronous part.                                *)

QueueBusy(p) == ops[p] > 0

\* The status check, done when the call is made (on an idle queue) and again when
\* its turn comes.
Refused(p, method, now) ==
    IF method = "start"
    THEN completed[p] \/ now \in {"STARTED", "STOPPING"}
    ELSE now \in {"STOPPED", "STARTING"}

\* On an idle queue a start that is already under way is refused as well.
RefusedAtOnce(p, method) ==
    Refused(p, method, status[p]) \/ (method = "start" /\ status[p] = "STARTING")

Under(method) == IF method = "start" THEN "STARTING" ELSE "STOPPING"

Enqueue(p, c) ==
    /\ ops' = [ops EXCEPT ![p] = @ + 1]
    /\ queue' = [queue EXCEPT ![p] = Append(@, c)]

Made(p, c, method) ==
    /\ kind[c] = "none"
    /\ kind' = [kind EXCEPT ![c] = method]
    /\ target' = [target EXCEPT ![c] = p]

StartOrShutdown(p, c, method) ==
    /\ Made(p, c, method)
    /\ answer' = [answer EXCEPT ![c] = c]
    /\ IF ~QueueBusy(p) /\ RefusedAtOnce(p, method)
       THEN reply' = [reply EXCEPT ![c] = "error"] /\ UNCHANGED <<status, ops, queue>>
       ELSE /\ status' = IF QueueBusy(p) THEN status ELSE [status EXCEPT ![p] = Under(method)]
            /\ Enqueue(p, c)
            /\ UNCHANGED reply

\* start(), and shutdown(callback).
Call(p, c, method) ==
    /\ StartOrShutdown(p, c, method)
    /\ UNCHANGED <<completed, running, memo, native, moduleVars, sendVars>>

\* shutdown() without a callback: one promise for all calls that overlap.
ShutdownPromise(p, c) ==
    /\ IF memo[p] = None
       THEN StartOrShutdown(p, c, "shutdown") /\ memo' = [memo EXCEPT ![p] = c]
       ELSE /\ Made(p, c, "shutdown")
            /\ answer' = [answer EXCEPT ![c] = memo[p]]
            /\ UNCHANGED <<status, ops, queue, memo, reply>>
    /\ UNCHANGED <<completed, running, native, moduleVars, sendVars>>

\* The reaction on the settled promise.
ClearMemo(p) ==
    /\ memo[p] # None /\ reply[memo[p]] # "none"
    /\ memo' = [memo EXCEPT ![p] = None]
    /\ UNCHANGED <<status, completed, ops, queue, running, native, moduleVars, callVars, sendVars>>

-----------------------------------------------------------------------------
(* The queued body and the callbacks of the native operation.              *)

\* (mutant) One operation is counted off twice, without a lower bound.
FinalizeQueueTwice(p) ==
    /\ running' = [running EXCEPT ![p] = None]
    /\ ops' = [ops EXCEPT ![p] = @ - 2]

FinalizeQueue(p) ==
    /\ running' = [running EXCEPT ![p] = None]
    /\ ops' = [ops EXCEPT ![p] = IF @ = 0 THEN 0 ELSE @ - 1]

\* (mutant) The last shutdown leaves the interval running.
DropRefKeepsTimer == producerRef' = producerRef - 1 /\ UNCHANGED timer

DropRef ==
    /\ producerRef' = producerRef - 1
    /\ timer' = (timer /\ producerRef' # 0)

\* The interval is set by the first producer that starts.
AddRef ==
    /\ producerRef' = producerRef + 1
    /\ timer' = (timer \/ producerRef = 0)

\* (mutant) The settlers are forgotten but their promises stay open.
DrainUnmarked(p) == settlers' = [settlers EXCEPT ![p] = {}] /\ UNCHANGED promise

\* (mutant) The end of a shutdown does not drain.
DrainForgotten(p) == UNCHANGED <<settlers, promise>>

\* DRAIN_PENDING_SENDS.
Drain(p) ==
    /\ promise' = [s \in Sends |-> IF s \in settlers[p] /\ promise[s] = "pending"
                                   THEN "rejected" ELSE promise[s]]
    /\ settlers' = [settlers EXCEPT ![p] = {}]

StatusAfter(c, ok) == IF kind[c] = "start" /\ ok THEN "STARTED" ELSE "STOPPED"

\* (mutant) A failed start may be tried again.
CompletesOnShutdown(c, ok) == kind[c] = "shutdown"

\* A producer is over after a shutdown, and after a failed start.
Completes(c, ok) == kind[c] = "shutdown" \/ ~ok

\* finishSuccess and finishError of operation c.
Finish(p, c, ok) ==
    /\ status' = [status EXCEPT ![p] = StatusAfter(c, ok)]
    /\ completed' = [completed EXCEPT ![p] = @ \/ Completes(c, ok)]
    /\ reply' = [reply EXCEPT ![c] = IF ok THEN "ok" ELSE "error"]
    /\ FinalizeQueue(p)
    /\ CASE kind[c] = "shutdown"     -> DropRef /\ Drain(p)
         [] kind[c] = "start" /\ ok  -> AddRef /\ UNCHANGED <<settlers, promise>>
         [] OTHER                    -> UNCHANGED <<moduleVars, settlers, promise>>

\* (mutant) A failed operation breaks the chain of the queue.
HeadMayRunUnlessOver(p, c) ==
    queue[p] # <<>> /\ running[p] = None /\ c = Head(queue[p]) /\ ~completed[p]

\* The queue promise of the operation before is resolved, whatever became of it.
HeadMayRun(p, c) == queue[p] # <<>> /\ running[p] = None /\ c = Head(queue[p])

\* The check at the head of the queue fails.
RunRefused(p, c) ==
    /\ HeadMayRun(p, c) /\ Refused(p, kind[c], status[p])
    /\ queue' = [queue EXCEPT ![p] = Tail(@)]
    /\ ops' = [ops EXCEPT ![p] = IF @ = 0 THEN 0 ELSE @ - 1]
    /\ reply' = [reply EXCEPT ![c] = "error"]
    /\ UNCHANGED <<status, completed, running, memo, native, moduleVars, kind, target,
                   answer, sendVars>>

\* core.start or core.shutdown accepts the operation.
RunAccepted(p, c) ==
    /\ HeadMayRun(p, c) /\ ~Refused(p, kind[c], status[p])
    /\ native[p] = IF kind[c] = "start" THEN "Idle" ELSE "Started"
    /\ queue' = [queue EXCEPT ![p] = Tail(@)]
    /\ running' = [running EXCEPT ![p] = c]
    /\ status' = [status EXCEPT ![p] = Under(kind[c])]
    /\ native' = [native EXCEPT ![p] = IF kind[c] = "start" THEN "Starting" ELSE "ShuttingDown"]
    /\ UNCHANGED <<completed, ops, memo, moduleVars, callVars, sendVars>>

\* core.start or core.shutdown throws: its state is wrong, its worker cannot be
\* queued (start: back to Idle, shutdown: stays ShuttingDown), or its timer thread
\* cannot be created (back to Started).
RunThrows(p, c) ==
    /\ HeadMayRun(p, c) /\ ~Refused(p, kind[c], status[p])
    /\ queue' = [queue EXCEPT ![p] = Tail(@)]
    /\ Finish(p, c, FALSE)
    /\ native' \in {native} \cup (IF kind[c] = "shutdown" /\ native[p] = "Started"
                                  THEN {[native EXCEPT ![p] = "ShuttingDown"]} ELSE {})
    /\ UNCHANGED <<memo, kind, target, answer, nsend>>

\* The native worker has run and calls back.
NativeReturns(p, ok) ==
    LET c == running[p] IN
    /\ c # None
    /\ native' = [native EXCEPT ![p] =
            IF kind[c] = "start" THEN (IF ok THEN "Started" ELSE "Shutdown")
            ELSE (IF ok THEN "Shutdown" ELSE "ShuttingDown")]
    /\ Finish(p, c, ok)
    /\ UNCHANGED <<queue, memo, kind, target, answer, nsend>>

-----------------------------------------------------------------------------
(* send().                                                                 *)

MaySend(p) == status[p] = "STARTED"

Send(p, s) ==
    /\ MaySend(p) /\ promise[s] = "none"
    /\ promise' = [promise EXCEPT ![s] = "pending"]
    /\ nsend' = [nsend EXCEPT ![s] = "pending"]
    /\ settlers' = [settlers EXCEPT ![p] = @ \cup {s}]
    /\ UNCHANGED <<status, completed, ops, queue, running, memo, native, moduleVars, callVars>>

\* core.send throws: the settler is removed before send() returns.
SendThrows(p, s) ==
    /\ MaySend(p) /\ promise[s] = "none"
    /\ promise' = [promise EXCEPT ![s] = "rejected"]
    /\ UNCHANGED <<status, completed, ops, queue, running, memo, native, moduleVars,
                   callVars, settlers, nsend>>

\* (mutant) The callback does not look at settler.settled.
SettlesAgain(s) == TRUE

Settles(s) == promise[s] = "pending"

\* The callback given to core.send, which the native producer calls at most once.
SendCallback(s, ok) ==
    /\ nsend[s] = "pending"
    /\ nsend' = [nsend EXCEPT ![s] = "told"]
    /\ IF Settles(s)
       THEN /\ promise' = [promise EXCEPT ![s] = IF ok THEN "resolved" ELSE "rejected"]
            /\ settlers' = [p \in Producers |-> settlers[p] \ {s}]
       ELSE UNCHANGED <<promise, settlers>>
    /\ UNCHANGED <<status, completed, ops, queue, running, memo, native, moduleVars, callVars>>

-----------------------------------------------------------------------------
Application ==
    \E p \in Producers :
        \/ \E c \in Calls : Call(p, c, "start") \/ Call(p, c, "shutdown") \/ ShutdownPromise(p, c)
        \/ \E s \in Sends : Send(p, s) \/ SendThrows(p, s)

RunHead(p, c) == RunRefused(p, c) \/ RunAccepted(p, c) \/ RunThrows(p, c)

Next ==
    \/ Application
    \/ \E p \in Producers :
        \/ ClearMemo(p) \/ \E ok \in BOOLEAN : NativeReturns(p, ok)
        \/ \E c \in Calls : RunHead(p, c)
    \/ \E s \in Sends, ok \in BOOLEAN : SendCallback(s, ok)

\* Microtasks run, and a native worker that was queued calls back. The native
\* producer may never call back a send.
Fairness ==
    \A p \in Producers :
        /\ WF_vars(\E c \in Calls : RunHead(p, c))
        /\ WF_vars(\E ok \in BOOLEAN : NativeReturns(p, ok))

SafetySpec == Init /\ [][Next]_vars
Spec == SafetySpec /\ Fairness

-----------------------------------------------------------------------------
(* Properties.                                                             *)

Live(p) == status[p] \in {"STARTED", "STOPPING"}

\* The keep-alive interval is shared by all producers: producerRef counts those
\* that are started or stopping, and the interval is set exactly while one is.
KeepAliveExact ==
    /\ producerRef = Cardinality({p \in Producers : Live(p)})
    /\ timer = (producerRef > 0)

\* pendingOperations counts what is queued or running, so an idle queue is never
\* taken for a busy one or the other way round.
OpsExact == \A p \in Producers : ops[p] = Len(queue[p]) + (IF running[p] = None THEN 0 ELSE 1)

\* What the class knows of the native producer never drifts from its lifecycle, through
\* calls that overlap, are refused or fail: core.send is called only while it is
\* started, core.start only on a new one, core.shutdown only on a started one, so
\* that none of them throws because of the state it finds.
NativeInStep ==
    \A p \in Producers :
        /\ MaySend(p) => native[p] = "Started"
        /\ \A c \in Calls : HeadMayRun(p, c) /\ ~Refused(p, kind[c], status[p])
             => native[p] = IF kind[c] = "start" THEN "Idle" ELSE "Started"

\* A promise of send() that is pending is known to a producer that is not over: once
\* a shutdown is over none of its sends is left pending, called back or not, and
\* before that none is out of the reach of the drain.
NoSendOutlivesShutdown ==
    \A s \in Sends : promise[s] = "pending" =>
        \E p \in Producers : s \in settlers[p] /\ ~completed[p]

\* A settled promise of send() keeps its outcome whatever the native producer says
\* later.
SettledOnce ==
    [][\A s \in Sends : promise[s] \in {"resolved", "rejected"} => promise'[s] = promise[s]]_vars

\* The class implements the one-shot client of the README.
Phase(p) == IF completed[p] THEN "over"
            ELSE CASE status[p] = "STOPPED" -> "new"
                   [] status[p] = "STARTING" -> "starting"
                   [] status[p] = "STARTED" -> "working"
                   [] OTHER -> "stopping"
ShotOf(p) == INSTANCE OneShotClient WITH phase <- Phase(p)
ImplementsOneShot ==
    /\ \A p \in Producers : ShotOf(p)!Init
    /\ [][\A p \in Producers : [ShotOf(p)!Next]_(Phase(p))]_vars

\* Every start() and shutdown() is answered, also one that shares a promise.
Answered(c) == answer[c] # None /\ reply[answer[c]] # "none"
CallsAnswered == \A c \in Calls : kind[c] # "none" ~> Answered(c)

\* A send whose producer is asked to stop is settled, called back or not.
SendsSettled ==
    \A p \in Producers, s \in Sends :
        s \in settlers[p] /\ status[p] = "STOPPING" ~> promise[s] # "pending"
=============================================================================
