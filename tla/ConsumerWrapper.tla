-------------------------- MODULE ConsumerWrapper --------------------------
(***************************************************************************)
(* The JavaScript class RocketMQPushConsumer of src/consumer.ts, over the  *)
(* native consumer as its callers see it.  Consumers of one process share  *)
(* consumerRef and the keep-alive timer.  Every action is one run of       *)
(* synchronous JavaScript: a call of the application or of a message       *)
(* handler, the body of a queued operation, a callback of the native       *)
(* layer, a message, an ack, the poll that ends a shutdown, or the catch   *)
(* of a shutdown callback that threw.                                      *)
(*                                                                         *)
(* A handler that throws or rejects, and a message without listeners, are  *)
(* acks (false) of the class itself; the answer's value is the native      *)
(* layer's business.  Argument checks and warnings change no state.        *)
(***************************************************************************)
EXTENDS Integers, FiniteSets, Sequences

CONSTANTS
    Consumers,   \* RocketMQPushConsumer objects of one process
    Calls,       \* the start() and shutdown() calls a run may make
    Messages,    \* the messages a run may deliver
    None         \* no call, no consumer, no message

ASSUME NoneAssumption == None \notin Consumers \cup Calls \cup Messages
ASSUME FiniteAssumption == 
    IsFiniteSet(Consumers) /\ IsFiniteSet(Calls) /\ IsFiniteSet(Messages)

VARIABLES
    status,      \* per consumer: STOPPED, STARTED, STOPPING or STARTING
    completed,   \* per consumer: shutdownCompleted
    ops,         \* per consumer: pendingOperations
    queue,       \* per consumer: operationQueue, the calls not yet run
    running,     \* per consumer: the call whose queue promise is open
    native,      \* per consumer: lifecycle of the native consumer
    outstanding, \* per consumer: outstandingAcks
    generation,  \* per consumer: ackGeneration
    consumerRef, \* module variable
    timer,       \* module variable: the keep-alive interval is set
    kind,        \* per call: "start" or "shutdown" once made
    target,      \* per call: the consumer it was made on
    initiated,   \* per call: it has set the status itself
    caller,      \* per call: the message whose handler made it (handlerZone)
    callerAcked, \* per call: that message was acked when the call was made
    reply,       \* per call: "none", or what it was told last: "ok" or "error"
    thrown,      \* per call: its callback threw when told "ok": "no", "due" while the
                 \* catch of that is a queued microtask, "done" once it has run
    owner,       \* per message: the consumer it was delivered to
    gen,         \* per message: ackGeneration when it was delivered
    ack,         \* per message: "none", "open" or "acked"
    waits        \* per message: the call its handler awaits before it acks

opVars == <<status, completed, ops, queue, running, native>>
countVars == <<outstanding, generation>>
moduleVars == <<consumerRef, timer>>
callVars == <<kind, target, initiated, caller, callerAcked, reply, thrown>>
messageVars == <<owner, gen, ack, waits>>
vars == <<opVars, countVars, moduleVars, callVars, messageVars>>

Statuses == {"STOPPED", "STARTED", "STOPPING", "STARTING"}

TypeOK ==
    /\ status \in [Consumers -> Statuses] /\ completed \in [Consumers -> BOOLEAN]
    /\ ops \in [Consumers -> Nat] /\ queue \in [Consumers -> Seq(Calls)]
    /\ running \in [Consumers -> Calls \cup {None}]
    /\ native \in [Consumers -> {"Idle", "Starting", "Started", "ShuttingDown", "Shutdown"}]
    /\ outstanding \in [Consumers -> Nat] /\ generation \in [Consumers -> Nat]
    /\ consumerRef \in Int /\ timer \in BOOLEAN
    /\ kind \in [Calls -> {"none", "start", "shutdown"}]
    /\ target \in [Calls -> Consumers \cup {None}] /\ initiated \in [Calls -> BOOLEAN]
    /\ caller \in [Calls -> Messages \cup {None}] /\ callerAcked \in [Calls -> BOOLEAN]
    /\ reply \in [Calls -> {"none", "ok", "error"}]
    /\ thrown \in [Calls -> {"no", "due", "done"}]
    /\ owner \in [Messages -> Consumers \cup {None}] /\ gen \in [Messages -> Nat]
    /\ ack \in [Messages -> {"none", "open", "acked"}]
    /\ waits \in [Messages -> Calls \cup {None}]

Init ==
    /\ status = [p \in Consumers |-> "STOPPED"] /\ completed = [p \in Consumers |-> FALSE]
    /\ ops = [p \in Consumers |-> 0] /\ queue = [p \in Consumers |-> <<>>]
    /\ running = [p \in Consumers |-> None] /\ native = [p \in Consumers |-> "Idle"]
    /\ outstanding = [p \in Consumers |-> 0] /\ generation = [p \in Consumers |-> 0]
    /\ consumerRef = 0 /\ timer = FALSE
    /\ kind = [c \in Calls |-> "none"] /\ target = [c \in Calls |-> None]
    /\ initiated = [c \in Calls |-> FALSE]
    /\ caller = [c \in Calls |-> None] /\ callerAcked = [c \in Calls |-> FALSE]
    /\ reply = [c \in Calls |-> "none"] /\ thrown = [c \in Calls |-> "no"]
    /\ owner = [m \in Messages |-> None] /\ gen = [m \in Messages |-> 0]
    /\ ack = [m \in Messages |-> "none"] /\ waits = [m \in Messages |-> None]

-----------------------------------------------------------------------------
(* START_OR_SHUTDOWN, the synchronous part.                                *)

QueueBusy(p) == ops[p] > 0

Under(method) == IF method = "start" THEN "STARTING" ELSE "STOPPING"

\* The status check of a call on an idle queue; a shutdown of a consumer that is
\* STOPPING would be queued.
RefusedAtOnce(p, method) ==
    IF method = "start" THEN completed[p] \/ status[p] # "STOPPED"
    ELSE status[p] \in {"STOPPED", "STARTING"}

\* The handler of m is suspended in an await of the call it made.
Suspended(m) == waits[m] # None /\ reply[waits[m]] = "none"

\* The code that makes a call: the application, or the handler of a message.
Callers == {None} \cup {m \in Messages : ack[m] # "none" /\ ~Suspended(m)}

Made(p, c, method, m) ==
    /\ kind[c] = "none"
    /\ kind' = [kind EXCEPT ![c] = method]
    /\ target' = [target EXCEPT ![c] = p]
    /\ caller' = [caller EXCEPT ![c] = m]
    /\ callerAcked' = [callerAcked EXCEPT ![c] = m \in Messages /\ ack[m] = "acked"]

StartOrShutdown(p, c, method, m) ==
    /\ Made(p, c, method, m)
    /\ IF ~QueueBusy(p) /\ RefusedAtOnce(p, method)
       THEN /\ reply' = [reply EXCEPT ![c] = "error"]
            /\ UNCHANGED <<status, ops, queue, initiated>>
       ELSE /\ status' = IF QueueBusy(p) THEN status ELSE [status EXCEPT ![p] = Under(method)]
            /\ initiated' = [initiated EXCEPT ![c] = ~QueueBusy(p)]
            /\ ops' = [ops EXCEPT ![p] = @ + 1]
            /\ queue' = [queue EXCEPT ![p] = Append(@, c)]
            /\ UNCHANGED reply
    /\ UNCHANGED <<completed, running, native, countVars, moduleVars, thrown, owner, gen, ack>>

Start(p, c) == StartOrShutdown(p, c, "start", None) /\ UNCHANGED waits

\* A handler that has not acked may await the shutdown it calls before it acks.
Shutdown(p, c, m) ==
    /\ StartOrShutdown(p, c, "shutdown", m)
    /\ waits' \in {waits} \cup (IF m \in Messages /\ ack[m] = "open"
                                THEN {[waits EXCEPT ![m] = c]} ELSE {})

-----------------------------------------------------------------------------
(* The queued body and the ends of an operation.                           *)

\* The status check at the head of the queue.
Refused(p, c) ==
    IF kind[c] = "start"
    THEN \/ completed[p] \/ status[p] \in {"STARTED", "STOPPING"}
         \/ status[p] = "STARTING" /\ ~initiated[c]
    ELSE status[p] \in {"STOPPED", "STARTING"}

\* A shutdown callback of p threw and the catch is a microtask: it was queued before
\* the next body of p's queue, and runs before the event loop takes anything else up.
CatchDue(p) == \E c \in Calls : thrown[c] = "due" /\ target[c] = p

EventLoop == \A p \in Consumers : ~CatchDue(p)

\* The queue promise of the operation before is resolved, whatever became of it.
HeadMayRun(p, c) ==
    queue[p] # <<>> /\ running[p] = None /\ c = Head(queue[p]) /\ ~CatchDue(p)

CountedOff(p) == ops' = [ops EXCEPT ![p] = IF @ = 0 THEN 0 ELSE @ - 1]

FinalizeQueue(p) == running' = [running EXCEPT ![p] = None] /\ CountedOff(p)

\* (mutant) The end of a shutdown leaves the interval to the next one.
DropRefKeepsTimer == consumerRef' = consumerRef - 1 /\ UNCHANGED timer

DropRef ==
    /\ consumerRef' = consumerRef - 1
    /\ timer' = (timer /\ consumerRef' # 0)

\* The interval is set by the start that finds the count at zero.
AddRef ==
    /\ consumerRef' = consumerRef + 1
    /\ timer' = (timer \/ consumerRef = 0)

\* (mutant) The count is cleared but the generation stays.
AcksClearedOnly(p) ==
    outstanding' = [outstanding EXCEPT ![p] = 0] /\ UNCHANGED generation

\* Acks of the old generation no longer count.
AcksForgotten(p) ==
    /\ generation' = [generation EXCEPT ![p] = @ + 1]
    /\ outstanding' = [outstanding EXCEPT ![p] = 0]

\* (mutant) A consumer whose start failed may be started again.
CompletesOnShutdown(c, ok) == kind[c] = "shutdown"

\* A consumer is over after a shutdown, and after a failed start.
Completes(c, ok) == kind[c] = "shutdown" \/ ~ok

\* finishError, the end of a start in finishSuccess, and cleanupShutdown. No `settled`
\* guards the last: it may run twice for one call.
Finish(p, c, ok) ==
    /\ status' = [status EXCEPT ![p] = IF kind[c] = "start" /\ ok THEN "STARTED" ELSE "STOPPED"]
    /\ completed' = [completed EXCEPT ![p] = @ \/ Completes(c, ok)]
    /\ reply' = [reply EXCEPT ![c] = IF ok THEN "ok" ELSE "error"]
    /\ FinalizeQueue(p)
    /\ CASE kind[c] = "shutdown"    -> DropRef /\ AcksForgotten(p)
         [] kind[c] = "start" /\ ok -> AddRef /\ UNCHANGED countVars
         [] OTHER                   -> UNCHANGED <<moduleVars, countVars>>

CallKept == UNCHANGED <<kind, target, caller, callerAcked, thrown>>

RunRefused(p, c) ==
    /\ HeadMayRun(p, c) /\ Refused(p, c)
    /\ queue' = [queue EXCEPT ![p] = Tail(@)]
    /\ CountedOff(p)
    /\ reply' = [reply EXCEPT ![c] = "error"]
    /\ CallKept
    /\ UNCHANGED <<status, completed, running, native, countVars, moduleVars, initiated,
                   messageVars>>

\* core.setListener and core.start, or core.shutdown, accept the operation.
RunAccepted(p, c) ==
    /\ HeadMayRun(p, c) /\ ~Refused(p, c)
    /\ native[p] = IF kind[c] = "start" THEN "Idle" ELSE "Started"
    /\ queue' = [queue EXCEPT ![p] = Tail(@)]
    /\ running' = [running EXCEPT ![p] = c]
    /\ status' = [status EXCEPT ![p] = Under(kind[c])]
    /\ initiated' = [initiated EXCEPT ![c] = TRUE]
    /\ native' = [native EXCEPT ![p] = IF kind[c] = "start" THEN "Starting" ELSE "ShuttingDown"]
    /\ CallKept
    /\ UNCHANGED <<completed, ops, countVars, moduleVars, reply, messageVars>>

\* One of them throws: its state is wrong, or its worker cannot be queued, which
\* restores the native state.
RunThrows(p, c) ==
    /\ HeadMayRun(p, c) /\ ~Refused(p, c)
    /\ queue' = [queue EXCEPT ![p] = Tail(@)]
    /\ initiated' = [initiated EXCEPT ![c] = TRUE]
    /\ Finish(p, c, FALSE)
    /\ CallKept
    /\ UNCHANGED <<native, messageVars>>

\* The native worker has run and calls back: a successful shutdown goes on to wait
\* for acks.
NativeReturns(p, ok) ==
    LET c == running[p] IN
    /\ EventLoop /\ c # None /\ native[p] \in {"Starting", "ShuttingDown"}
    /\ native' = [native EXCEPT ![p] =
            IF kind[c] = "start" THEN (IF ok THEN "Started" ELSE "Shutdown")
            ELSE (IF ok THEN "Shutdown" ELSE "ShuttingDown")]
    /\ IF kind[c] = "shutdown" /\ ok
       THEN UNCHANGED <<status, completed, ops, running, countVars, moduleVars, reply>>
       ELSE Finish(p, c, ok)
    /\ CallKept
    /\ UNCHANGED <<queue, initiated, messageVars>>

\* (mutant) The caller's message is waited for like any other.
ExemptNobody(c) == 0

\* (mutant) Every handler that calls is exempt, acked or not.
ExemptAnyHandler(c) == IF caller[c] \in Messages THEN 1 ELSE 0

\* A handler that shuts its own consumer down before it acked is not waited for.
Exempt(c) ==
    IF caller[c] \in Messages /\ owner[caller[c]] = target[c] /\ ~callerAcked[c]
    THEN 1 ELSE 0

\* waitForOutstandingAcks polls after the native shutdown is over.
Draining(p) == running[p] # None /\ kind[running[p]] = "shutdown" /\ native[p] = "Shutdown"

\* The call was made with a callback, and not awaited by a handler.
MayThrow(c) == \A m \in Messages : waits[m] # c

\* The callback is called inside the promise reaction and may throw.
WaitEnds(p) ==
    LET c == running[p] IN
    /\ EventLoop /\ Draining(p) /\ outstanding[p] <= Exempt(c)
    /\ Finish(p, c, TRUE)
    /\ thrown' \in {thrown} \cup (IF MayThrow(c) THEN {[thrown EXCEPT ![c] = "due"]} ELSE {})
    /\ UNCHANGED <<queue, native, initiated, kind, target, caller, callerAcked, messageVars>>

\* The catch meant for the deadline finds the exception of the callback: it cleans up
\* once more, and calls the callback again with the error.
CatchRuns(c) ==
    /\ thrown[c] = "due" /\ thrown' = [thrown EXCEPT ![c] = "done"]
    /\ Finish(target[c], c, FALSE)
    /\ UNCHANGED <<queue, native, initiated, kind, target, caller, callerAcked, messageVars>>

\* (mutant) The wait has no deadline.
NoDeadline == FALSE

\* Nothing bounds what 30 s are to the handlers.
DeadlinePassed == TRUE

WaitTimesOut(p) ==
    /\ EventLoop /\ Draining(p) /\ outstanding[p] > Exempt(running[p]) /\ DeadlinePassed
    /\ Finish(p, running[p], FALSE)
    /\ CallKept
    /\ UNCHANGED <<queue, native, initiated, messageVars>>

-----------------------------------------------------------------------------
(* Messages and acks.                                                      *)

\* The native consumer delivers from the moment its SDK consumer runs until the shutdown
\* worker calls back: a message may be on its way to the listener when the worker
\* requests the listener's shutdown (theorem DeliveryInStep of ConsumerStop_proofs).
MayDeliver(p) ==
    \/ native[p] \in {"Starting", "Started"}
    \/ native[p] = "ShuttingDown" /\ running[p] # None

Deliver(p, m) ==
    /\ EventLoop /\ MayDeliver(p) /\ ack[m] = "none"
    /\ ack' = [ack EXCEPT ![m] = "open"]
    /\ owner' = [owner EXCEPT ![m] = p]
    /\ gen' = [gen EXCEPT ![m] = generation[p]]
    /\ outstanding' = [outstanding EXCEPT ![p] = @ + 1]
    /\ UNCHANGED <<opVars, generation, moduleVars, callVars, waits>>

\* (mutant) Every ack counts, of whatever generation.
CountsAlways(m) == TRUE

Counts(m) == gen[m] = generation[owner[m]]

\* The first wrappedAck.done(), of the handler or of the class.
AckDone(m) ==
    /\ ack[m] = "open" /\ ~Suspended(m)
    /\ ack' = [ack EXCEPT ![m] = "acked"]
    /\ outstanding' = [outstanding EXCEPT ![owner[m]] = IF Counts(m) THEN @ - 1 ELSE @]
    /\ UNCHANGED <<opVars, generation, moduleVars, callVars, owner, gen, waits>>

-----------------------------------------------------------------------------
RunHead(p, c) == RunRefused(p, c) \/ RunAccepted(p, c) \/ RunThrows(p, c)

Next ==
    \/ \E p \in Consumers, c \in Calls :
        Start(p, c) \/ (\E m \in Callers : Shutdown(p, c, m)) \/ RunHead(p, c)
    \/ \E p \in Consumers :
        \/ \E ok \in BOOLEAN : NativeReturns(p, ok)
        \/ WaitEnds(p) \/ WaitTimesOut(p)
        \/ \E m \in Messages : Deliver(p, m)
    \/ \E m \in Messages : AckDone(m)
    \/ \E c \in Calls : CatchRuns(c)

\* Microtasks and timers run, and a native worker that was queued calls back
\* (ShutdownTerminates of ConsumerNative).
Fairness ==
    \A p \in Consumers :
        /\ WF_vars(\E c \in Calls : RunHead(p, c))
        /\ WF_vars(\E ok \in BOOLEAN : NativeReturns(p, ok))
        /\ WF_vars(WaitEnds(p) \/ WaitTimesOut(p))
        /\ WF_vars(\E c \in Calls : CatchRuns(c))

SafetySpec == Init /\ [][Next]_vars
Spec == SafetySpec /\ Fairness

-----------------------------------------------------------------------------
(* Properties.                                                             *)

Unacked(p) == {m \in Messages : owner[m] = p /\ ack[m] = "open"}

\* outstandingAcks is the number of messages of this generation whose handler has
\* not acked, although acks come late, twice, or after the shutdown that gave them up.
AcksExact ==
    \A p \in Consumers :
        outstanding[p] = Cardinality({m \in Unacked(p) : gen[m] = generation[p]})

\* The keep-alive interval is shared by all consumers: consumerRef counts those that
\* are started or stopping, also when a shutdown fails or times out, less one for good
\* for every shutdown callback that threw; the interval is set while the count is
\* above zero. So nothing else lets the process end early or keeps it alive for nothing.
KeepAliveExact ==
    /\ consumerRef = Cardinality({p \in Consumers : status[p] \in {"STARTED", "STOPPING"}})
                     - Cardinality({c \in Calls : thrown[c] = "done"})
    /\ timer = (consumerRef > 0)

\* A shutdown that resolved has waited for every handler of the consumer but the one
\* that called it; only when that one acks after its call does exemptAcks, a number,
\* let it resolve with one other message not acked.
ResolvedMeansDrained ==
    \A c \in Calls : kind[c] = "shutdown" /\ reply[c] = "ok" =>
        \/ Unacked(target[c]) \subseteq {caller[c]}
        \/ /\ caller[c] # None /\ owner[caller[c]] = target[c]
           /\ ~callerAcked[c] /\ ack[caller[c]] = "acked"
           /\ Cardinality(Unacked(target[c])) = 1

\* A shutdown that times out has a handler to blame that did not call it: the wait
\* never counts the ack that its own caller gives only after it.
TimeoutBlamesAnother ==
    [][\A p \in Consumers : WaitTimesOut(p) => Unacked(p) \ {caller[running[p]]} # {}]_vars

\* The class implements the one-shot client of the README.
Phase(p) == IF completed[p] THEN "over"
            ELSE CASE status[p] = "STOPPED" -> "new"
                   [] status[p] = "STARTING" -> "starting"
                   [] status[p] = "STARTED" -> "working"
                   [] OTHER -> "stopping"
ShotOf(p) == INSTANCE OneShotClient WITH phase <- Phase(p)
ImplementsOneShot ==
    /\ \A p \in Consumers : ShotOf(p)!Init
    /\ [][\A p \in Consumers : [ShotOf(p)!Next]_(Phase(p))]_vars

\* Every start() and shutdown() is answered, although a handler may never ack.
CallsAnswered == \A c \in Calls : kind[c] # "none" ~> reply[c] # "none"

\* "the completion is only settled once (not twice)" (a test's comment): a call that
\* was told how it ended is not told anything else later.
SettledOnce ==
    [][\A c \in Calls : reply[c] # "none" => reply'[c] = reply[c]]_vars

\* "handler shutdown before ack.done does not deadlock" (a test's title): a shutdown
\* does not run into its deadline when every handler that has not acked is itself
\* waiting for a shutdown of that consumer.
HandlerShutdownDoesNotDeadlock ==
    [][\A p \in Consumers :
        WaitTimesOut(p) =>
            \E m \in Unacked(p) : waits[m] = None \/ target[waits[m]] # p]_vars
=============================================================================
