------------------------ MODULE ProducerWrapper_proofs ------------------------
(***************************************************************************)
(* What is proved of the JavaScript producers of one process, for every    *)
(* number of producers, calls and sends.                                   *)
(***************************************************************************)
EXTENDS ProducerWrapper, FiniteSetTheorems, TLAPS

USE DEF vars, moduleVars, callVars, sendVars

-----------------------------------------------------------------------------
(* The invariant.                                                          *)

\* The queues there are; what they are made of is told by two lemmas below.
Waiting == Seq(Calls)

\* The variables have their types; the two that are shared have theirs from KeepAlive.
LifeTypes ==
    /\ status \in [Producers -> Statuses] /\ completed \in [Producers -> BOOLEAN]
    /\ ops \in [Producers -> Nat] /\ queue \in [Producers -> Waiting]
    /\ running \in [Producers -> Calls \cup {None}] /\ memo \in [Producers -> Calls \cup {None}]
    /\ native \in [Producers -> NativeStates]
    /\ producerRef \in Int
CallTypes ==
    /\ kind \in [Calls -> {"none", "start", "shutdown"}]
    /\ target \in [Calls -> Producers \cup {None}]
    /\ answer \in [Calls -> Calls \cup {None}]
    /\ reply \in [Calls -> {"none", "ok", "error"}]
SendTypes ==
    /\ settlers \in [Producers -> SUBSET Sends]
    /\ promise \in [Sends -> {"none", "pending", "resolved", "rejected"}]
    /\ nsend \in [Sends -> {"none", "pending", "told"}]
Shape == LifeTypes /\ CallTypes /\ SendTypes

OpsOK(p) == ops[p] = Len(queue[p]) + (IF running[p] = None THEN 0 ELSE 1)

\* What is queued has been called; the operation that runs decides the status; a
\* producer that is over is stopped; a new one has no operation; and only a live
\* one has promises of send() open.
LifeOK(p) ==
    /\ \A i \in 1..Len(queue[p]) : kind[queue[p][i]] # "none"
    /\ running[p] # None => /\ kind[running[p]] # "none"
                            /\ status[p] = Under(kind[running[p]])
    /\ completed[p] => status[p] = "STOPPED"
    /\ status[p] = "STOPPED" /\ ~completed[p] => ops[p] = 0
    /\ ~Live(p) => settlers[p] = {}

\* KeepAliveExact, told as an equivalence.
KeepAlive ==
    /\ producerRef = Cardinality({p \in Producers : Live(p)})
    /\ timer \in BOOLEAN /\ (timer <=> producerRef > 0)

Inv == Shape /\ KeepAlive /\ \A p \in Producers : OpsOK(p) /\ LifeOK(p)

\* Nothing has been called at first.
LEMMA InvInit == Init => Inv
<1> SUFFICES ASSUME Init PROVE Inv
  OBVIOUS
<1>1. Shape
  <2>1. /\ status \in [Producers -> Statuses] /\ completed \in [Producers -> BOOLEAN]
        /\ ops \in [Producers -> Nat] /\ running \in [Producers -> Calls \cup {None}]
        /\ memo \in [Producers -> Calls \cup {None}] /\ native \in [Producers -> NativeStates]
    BY DEF Init, Statuses, NativeStates
  <2>2. queue \in [Producers -> Waiting]
    <3>1. <<>> \in Waiting
      BY DEF Waiting
    <3> QED BY <3>1 DEF Init
  <2>3. producerRef \in Int
    BY DEF Init
  <2>4. /\ kind \in [Calls -> {"none", "start", "shutdown"}]
        /\ target \in [Calls -> Producers \cup {None}] /\ answer \in [Calls -> Calls \cup {None}]
        /\ reply \in [Calls -> {"none", "ok", "error"}]
    BY DEF Init
  <2>5. /\ settlers \in [Producers -> SUBSET Sends]
        /\ promise \in [Sends -> {"none", "pending", "resolved", "rejected"}]
        /\ nsend \in [Sends -> {"none", "pending", "told"}]
    BY DEF Init
  <2> QED BY <2>1, <2>2, <2>3, <2>4, <2>5 DEF Shape, LifeTypes, CallTypes, SendTypes
<1>2. KeepAlive
  <2>1. {p \in Producers : Live(p)} = {}
    BY DEF Init, Live
  <2>2. producerRef = 0
    BY DEF Init
  <2>3. timer = FALSE
    BY DEF Init
  <2>4. timer \in BOOLEAN /\ ~timer
    BY <2>3, Zenon
  <2>5. ~(producerRef > 0)
    BY <2>2
  <2>6. producerRef = Cardinality({p \in Producers : Live(p)})
    BY <2>1, <2>2, FS_EmptySet
  <2> QED BY <2>4, <2>5, <2>6, Zenon DEF KeepAlive
<1>3. \A p \in Producers : OpsOK(p) /\ LifeOK(p)
  <2>1. Len(<<>>) = 0
    OBVIOUS
  <2> QED BY <2>1 DEF Init, OpsOK, LifeOK
<1> QED BY <1>1, <1>2, <1>3 DEF Inv

-----------------------------------------------------------------------------
(* A step moves one producer.                                              *)

\* The other producers are as they were, and a call stays what it was.
OthersKept(p) ==
    /\ \A q \in Producers \ {p} :
         /\ status'[q] = status[q] /\ completed'[q] = completed[q] /\ ops'[q] = ops[q]
         /\ queue'[q] = queue[q] /\ running'[q] = running[q] /\ settlers'[q] = settlers[q]
    /\ \A c \in Calls : kind[c] # "none" => kind'[c] = kind[c]

\* The shared count follows the producer that moves.
CountFollows(p) ==
    \/ (Live(p)' <=> Live(p)) /\ UNCHANGED moduleVars
    \/ Live(p) /\ ~Live(p)' /\ DropRef
    \/ ~Live(p) /\ Live(p)' /\ AddRef

\* The producer that moves goes on in its one-shot life, or stays where it is.
PhaseStep(p) ==
    \/ Phase(p)' = Phase(p)
    \/ Phase(p) = "new" /\ Phase(p)' = "starting"
    \/ Phase(p) = "starting" /\ Phase(p)' = "working"
    \/ Phase(p) = "working" /\ Phase(p)' = "stopping"
    \/ Phase(p) \in {"starting", "working", "stopping"} /\ Phase(p)' = "over"

Moves(p) ==
    /\ Shape' /\ OthersKept(p) /\ CountFollows(p) /\ OpsOK(p)' /\ LifeOK(p)'
    /\ PhaseStep(p)

\* The count is exact when it follows the one producer that moved.
LEMMA CountKept ==
    ASSUME Inv, NEW p \in Producers, Moves(p)
    PROVE  KeepAlive'
<1> DEFINE S == {q \in Producers : Live(q)}
           T == {q \in Producers : Live(q)'}
<1>1. IsFiniteSet(S) /\ Cardinality(S) \in Nat
  BY FiniteAssumption, FS_Subset, FS_CardinalityType
<1>2. S \ {p} = T \ {p}
  BY DEF Moves, OthersKept, Live
<1>3. producerRef = Cardinality(S) /\ timer \in BOOLEAN /\ (timer <=> producerRef > 0)
  BY Zenon DEF Inv, KeepAlive
<1> SUFFICES producerRef' = Cardinality(T) /\ timer' \in BOOLEAN /\ (timer' <=> producerRef' > 0)
  BY Zenon DEF KeepAlive
<1>4. CASE (Live(p)' <=> Live(p)) /\ UNCHANGED moduleVars
  <2>1. S = T
    BY <1>2, <1>4
  <2>2. producerRef' = producerRef /\ timer' = timer
    BY <1>4
  <2> QED BY <2>1, <2>2, <1>3, Zenon
<1>5. CASE Live(p) /\ ~Live(p)' /\ DropRef
  <2>1. T = S \ {p} /\ p \in S
    BY <1>2, <1>5
  <2>2. Cardinality(T) = Cardinality(S) - 1 /\ Cardinality(T) \in Nat
    BY <2>1, <1>1, FS_RemoveElement, FS_CardinalityType
  <2>3. producerRef = Cardinality(S) /\ producerRef' = producerRef - 1
    BY <1>3, <1>5, Zenon DEF DropRef
  <2>4. timer' = (timer /\ producerRef' # 0)
    BY <1>5, Zenon DEF DropRef
  <2> HIDE DEF S, T
  <2>5. /\ producerRef' = Cardinality(T) /\ producerRef > 0
        /\ (producerRef' # 0 <=> producerRef' > 0)
    BY <2>2, <2>3, <1>1
  <2>6. timer
    BY <2>5, <1>3, Zenon
  <2> QED BY <2>4, <2>5, <2>6, Zenon
<1>6. CASE ~Live(p) /\ Live(p)' /\ AddRef
  <2>1. T = S \cup {p} /\ p \notin S
    BY <1>2, <1>6
  <2>2. Cardinality(T) = Cardinality(S) + 1
    BY <2>1, <1>1, FS_AddElement
  <2>3. /\ producerRef = Cardinality(S) /\ producerRef' = producerRef + 1
        /\ timer' = (timer \/ producerRef = 0)
    BY <1>3, <1>6, Zenon DEF AddRef
  <2> HIDE DEF S, T
  <2>4. producerRef' = Cardinality(T) /\ producerRef' > 0 /\ (producerRef > 0 \/ producerRef = 0)
    BY <2>2, <2>3, <1>1
  <2> QED BY <1>3, <2>3, <2>4, Zenon
<1> QED BY <1>4, <1>5, <1>6 DEF Moves, CountFollows

\* A queue holds calls.
LEMMA Placed ==
    ASSUME NEW q \in Waiting
    PROVE  Len(q) \in Nat /\ \A i \in 1..Len(q) : q[i] \in Calls
BY DEF Waiting

\* The invariant holds when it holds for the one producer that moved.
LEMMA MovesKeep ==
    ASSUME Inv, NEW p \in Producers, Moves(p)
    PROVE  Inv'
<1>1. ASSUME NEW q \in Producers \ {p} PROVE OpsOK(q)' /\ LifeOK(q)'
  <2>1. queue[q] \in Waiting /\ running[q] \in Calls \cup {None}
    BY DEF Inv, Shape, LifeTypes
  <2>2. \A i \in 1..Len(queue[q]) : queue[q][i] \in Calls
    BY <2>1, Placed
  <2>3. OpsOK(q) /\ LifeOK(q) /\ OthersKept(p)
    BY DEF Inv, Moves
  <2> QED BY <2>1, <2>2, <2>3 DEF OthersKept, OpsOK, LifeOK, Live
<1> QED BY <1>1, CountKept DEF Moves, Inv

-----------------------------------------------------------------------------
(* Steps of the calls and of the queue.                                    *)

\* What a queue whose head runs is made of.
LEMMA HeadAndTail ==
    ASSUME NEW q \in Waiting, q # <<>>
    PROVE  /\ Head(q) \in Calls /\ Head(q) = q[1] /\ 1 \in 1..Len(q)
           /\ Tail(q) \in Waiting /\ Len(Tail(q)) = Len(q) - 1 /\ Len(q) \in Nat \ {0}
           /\ \A i \in 1..Len(Tail(q)) : i + 1 \in 1..Len(q) /\ Tail(q)[i] = q[i + 1]
<1> USE DEF Waiting
<1>1. Len(q) \in Nat \ {0}
  OBVIOUS
<1>2. Tail(q) \in Waiting /\ Len(Tail(q)) = Len(q) - 1
  BY <1>1
<1>3. \A i \in 1..Len(Tail(q)) : i + 1 \in 1..Len(q) /\ Tail(q)[i] = q[i + 1]
  BY <1>1, <1>2
<1> QED BY <1>1, <1>2, <1>3

\* What a queue is made of that a call has joined.
LEMMA Joined ==
    ASSUME NEW q \in Waiting, NEW c \in Calls
    PROVE  /\ Append(q, c) \in Waiting /\ Len(Append(q, c)) = Len(q) + 1 /\ Len(q) \in Nat
           /\ \A i \in 1..Len(q) : Append(q, c)[i] = q[i] /\ q[i] \in Calls
           /\ Append(q, c)[Len(q) + 1] = c
BY DEF Waiting

\* A call that is made is refused or joins the queue.
LEMMA StartOrShutdownMoves ==
    ASSUME Inv, NEW p \in Producers, NEW c \in Calls, NEW method \in {"start", "shutdown"},
           StartOrShutdown(p, c, method), memo' \in [Producers -> Calls \cup {None}],
           UNCHANGED <<completed, running, native, moduleVars, sendVars>>
    PROVE  Moves(p)
<1>0. LifeTypes /\ CallTypes /\ SendTypes /\ OpsOK(p) /\ LifeOK(p)
  BY DEF Inv, Shape
<1> USE DEF LifeTypes
<1>1. /\ queue[p] \in Waiting /\ Len(queue[p]) \in Nat
      /\ \A i \in 1..Len(queue[p]) : queue[p][i] \in Calls
  BY <1>0, Placed
<1>2. /\ kind' \in [Calls -> {"none", "start", "shutdown"}] /\ kind[c] = "none"
      /\ kind'[c] = method
      /\ \A d \in Calls \ {c} : kind'[d] = kind[d]
      /\ target' \in [Calls -> Producers \cup {None}]
      /\ answer' \in [Calls -> Calls \cup {None}]
  BY <1>0 DEF StartOrShutdown, Made, CallTypes
<1>3. /\ \A d \in Calls : kind[d] # "none" => kind'[d] = kind[d]
      /\ \A i \in 1..Len(queue[p]) : kind'[queue[p][i]] # "none"
      /\ running[p] # None => /\ kind'[running[p]] = kind[running[p]]
                              /\ kind[running[p]] # "none"
  BY <1>0, <1>1, <1>2 DEF LifeOK
<1>4. SendTypes'
  BY <1>0 DEF SendTypes
<1>5. CASE ~QueueBusy(p) /\ RefusedAtOnce(p, method)
  <2>1. reply' \in [Calls -> {"none", "ok", "error"}] /\ UNCHANGED <<status, ops, queue>>
    BY <1>0, <1>5 DEF StartOrShutdown, CallTypes
  <2>2. Shape'
    <3>1. LifeTypes'
      BY <1>0, <2>1
    <3>2. CallTypes'
      BY <1>2, <2>1 DEF CallTypes
    <3> QED BY <1>4, <3>1, <3>2 DEF Shape
  <2>3. OthersKept(p) /\ CountFollows(p) /\ OpsOK(p)'
    BY <1>0, <1>2, <2>1 DEF OthersKept, CountFollows, Live, OpsOK
  <2>4. LifeOK(p)'
    BY <1>0, <1>1, <1>3, <2>1 DEF LifeOK, Live
  <2>5. PhaseStep(p)
    BY <2>1 DEF PhaseStep, Phase
  <2> QED BY <2>2, <2>3, <2>4, <2>5 DEF Moves
<1>6. CASE ~(~QueueBusy(p) /\ RefusedAtOnce(p, method))
  <2>1. /\ status' = IF QueueBusy(p) THEN status ELSE [status EXCEPT ![p] = Under(method)]
        /\ ops' = [ops EXCEPT ![p] = @ + 1] /\ queue' = [queue EXCEPT ![p] = Append(@, c)]
        /\ UNCHANGED reply
    BY <1>6 DEF StartOrShutdown, Enqueue
  <2>2. queue'[p] = Append(queue[p], c)
    BY <1>0, <2>1
  <2>3. /\ queue'[p] \in Waiting /\ Len(queue'[p]) = Len(queue[p]) + 1
        /\ \A i \in 1..Len(queue[p]) : queue'[p][i] = queue[p][i] /\ queue[p][i] \in Calls
        /\ queue'[p][Len(queue[p]) + 1] = c
    BY <2>2, <1>1, Joined
  <2>4. queue' \in [Producers -> Waiting]
    BY <1>0, <2>1, <2>2, <2>3
  <2>5. status' \in [Producers -> Statuses]
    BY <1>0, <2>1 DEF Under, Statuses
  <2>6. Shape'
    <3>1. LifeTypes'
      BY <1>0, <2>1, <2>4, <2>5
    <3>2. CallTypes'
      BY <1>0, <1>2, <2>1 DEF CallTypes
    <3> QED BY <1>4, <3>1, <3>2 DEF Shape
  <2>7. OthersKept(p)
    BY <1>0, <1>2, <2>1 DEF OthersKept
  <2>8. OpsOK(p)'
    BY <1>0, <1>1, <2>1, <2>2, <2>3 DEF OpsOK
  <2>9. ops[p] = 0 => running[p] = None
    BY <1>0, <1>1 DEF OpsOK
  <2>10. ~QueueBusy(p) => ops[p] = 0
    BY <1>0 DEF QueueBusy
  <2>11. ~QueueBusy(p) =>
          \/ method = "start" /\ status[p] = "STOPPED" /\ ~completed[p] /\ status'[p] = "STARTING"
          \/ method = "shutdown" /\ Live(p) /\ status'[p] = "STOPPING"
    BY <1>0, <1>6, <2>1 DEF RefusedAtOnce, Refused, Live, Statuses, Under
  <2>12. CountFollows(p)
    BY <1>0, <2>1, <2>11 DEF CountFollows, Live
  <2>13. ASSUME NEW i \in 1..Len(queue'[p]) PROVE kind'[queue'[p][i]] # "none"
    <3>1. i \in 1..Len(queue[p]) \/ i = Len(queue[p]) + 1
      BY <1>1, <2>3
    <3> QED BY <3>1, <1>2, <1>3, <2>3
  <2>14. QueueBusy(p) => status'[p] = status[p] /\ ops[p] > 0
    BY <1>0, <2>1 DEF QueueBusy
  <2>15. running[p] # None => /\ kind'[running[p]] # "none"
                              /\ status'[p] = Under(kind'[running[p]])
    BY <1>0, <1>3, <2>9, <2>10, <2>14 DEF LifeOK
  <2>16. LifeOK(p)'
    BY <1>0, <2>1, <2>11, <2>13, <2>14, <2>15 DEF LifeOK, Live
  <2>17. PhaseStep(p)
    BY <1>0, <2>11, <2>14 DEF PhaseStep, Phase, LifeOK, Live
  <2> QED BY <2>6, <2>7, <2>8, <2>12, <2>16, <2>17 DEF Moves
<1> QED BY <1>5, <1>6

\* An operation that ends: its call left the queue, and it is told the outcome.
LEMMA FinishMoves ==
    ASSUME Inv, NEW p \in Producers, NEW c \in Calls, NEW ok \in BOOLEAN, Finish(p, c, ok),
           kind[c] = "shutdown" => Live(p), kind[c] = "start" => ~Live(p) /\ ~completed[p],
           kind[c] # "none", queue' \in [Producers -> Waiting],
           \A q \in Producers \ {p} : queue'[q] = queue[q],
           ops[p] = Len(queue'[p]) + 1,
           \A i \in 1..Len(queue'[p]) : queue'[p][i] \in Calls /\ kind[queue'[p][i]] # "none",
           native' \in [Producers -> NativeStates], UNCHANGED <<memo, kind, target, answer, nsend>>
    PROVE  Moves(p)
<1>0. LifeTypes /\ CallTypes /\ SendTypes /\ OpsOK(p) /\ LifeOK(p)
  BY DEF Inv, Shape
<1>1. Len(queue'[p]) \in Nat
  BY Placed
<1>2. /\ status' = [status EXCEPT ![p] = StatusAfter(c, ok)]
      /\ completed' = [completed EXCEPT ![p] = @ \/ Completes(c, ok)]
      /\ reply' = [reply EXCEPT ![c] = IF ok THEN "ok" ELSE "error"]
      /\ running' = [running EXCEPT ![p] = None]
      /\ ops' = [ops EXCEPT ![p] = IF @ = 0 THEN 0 ELSE @ - 1]
  BY DEF Finish, FinalizeQueue
<1>3. \/ kind[c] = "shutdown" /\ DropRef /\ Drain(p)
      \/ kind[c] = "start" /\ ok /\ AddRef /\ UNCHANGED <<settlers, promise>>
      \/ kind[c] = "start" /\ ~ok /\ UNCHANGED <<producerRef, timer, settlers, promise>>
  BY <1>0 DEF Finish, CallTypes
<1>4. producerRef' \in Int
  BY <1>0, <1>3 DEF LifeTypes, DropRef, AddRef
<1>5. SendTypes'
  <2>1. CASE UNCHANGED <<settlers, promise>>
    BY <1>0, <2>1 DEF SendTypes
  <2>2. CASE Drain(p)
    BY <1>0, <2>2 DEF SendTypes, Drain
  <2> QED BY <1>3, <2>1, <2>2
<1>6. StatusAfter(c, ok) \in Statuses
  BY DEF StatusAfter, Statuses
<1>7. completed' \in [Producers -> BOOLEAN]
  BY <1>0, <1>2 DEF LifeTypes
<1>8. /\ status'[p] = StatusAfter(c, ok) /\ (completed'[p] <=> completed[p] \/ Completes(c, ok))
      /\ running'[p] = None /\ ops'[p] = Len(queue'[p])
  <2>1. completed'[p] = (completed[p] \/ Completes(c, ok))
    BY <1>0, <1>2, Zenon DEF LifeTypes
  <2>2. completed'[p] <=> completed[p] \/ Completes(c, ok)
    BY <2>1, Zenon
  <2>3. status'[p] = StatusAfter(c, ok) /\ running'[p] = None /\ ops'[p] = Len(queue'[p])
    BY <1>0, <1>1, <1>2 DEF LifeTypes
  <2> QED BY <2>2, <2>3
<1>9. Shape'
  <2>1. LifeTypes'
    BY <1>0, <1>1, <1>2, <1>4, <1>6, <1>7 DEF LifeTypes
  <2>2. CallTypes'
    BY <1>0, <1>2 DEF CallTypes
  <2> QED BY <1>5, <2>1, <2>2 DEF Shape
<1>10. OthersKept(p)
  BY <1>0, <1>2, <1>3 DEF OthersKept, LifeTypes, SendTypes, Drain
<1>11. OpsOK(p)'
  BY <1>1, <1>8 DEF OpsOK
<1>12. /\ kind[c] = "start" /\ ok => status'[p] = "STARTED" /\ ~completed'[p]
       /\ ~(kind[c] = "start" /\ ok) => status'[p] = "STOPPED" /\ completed'[p]
  BY <1>0, <1>8 DEF StatusAfter, Completes, CallTypes
<1>13. CountFollows(p)
  BY <1>3, <1>12 DEF CountFollows, Live
<1>14. ~Live(p)' => settlers'[p] = {}
  BY <1>0, <1>3, <1>12 DEF Live, LifeOK, Drain, SendTypes
<1>15. LifeOK(p)'
  BY <1>8, <1>12, <1>14 DEF LifeOK, Live
<1>16. PhaseStep(p)
  <2>1. status[p] = "STOPPED" => completed[p]
    BY <1>1 DEF LifeOK, Inv
  <2>2. kind[c] = "start" => status[p] = "STARTING" /\ ~completed[p]
    BY <1>0, <2>1 DEF LifeTypes, Statuses, Live
  <2>3. kind[c] = "shutdown" => status[p] \in {"STARTED", "STOPPING"} /\ ~completed[p]
    BY <1>0 DEF LifeOK, Live
  <2>4. kind[c] \in {"start", "shutdown"}
    BY <1>0 DEF CallTypes
  <2>5. CASE kind[c] = "start" /\ ok
    BY <1>12, <2>2, <2>5 DEF PhaseStep, Phase
  <2>6. CASE ~(kind[c] = "start" /\ ok)
    <3>1. Phase(p) \in {"starting", "working", "stopping"}
      BY <2>2, <2>3, <2>4 DEF Phase
    <3>2. Phase(p)' = "over"
      BY <1>12, <2>6 DEF Phase
    <3> QED BY <3>1, <3>2 DEF PhaseStep
  <2> QED BY <2>5, <2>6
<1> QED BY <1>9, <1>10, <1>11, <1>13, <1>15, <1>16 DEF Moves

\* What is true when the head of the queue runs.
LEMMA HeadFacts ==
    ASSUME Inv, NEW p \in Producers, NEW c \in Calls, HeadMayRun(p, c),
           queue' = [queue EXCEPT ![p] = Tail(@)]
    PROVE  /\ queue' \in [Producers -> Waiting] /\ kind[c] # "none" /\ running[p] = None
           /\ \A q \in Producers \ {p} : queue'[q] = queue[q]
           /\ ops[p] = Len(queue'[p]) + 1 /\ Len(queue'[p]) \in Nat
           /\ \A i \in 1..Len(queue'[p]) : queue'[p][i] \in Calls /\ kind[queue'[p][i]] # "none"
<1>0. LifeTypes /\ OpsOK(p) /\ LifeOK(p)
  BY DEF Inv, Shape
<1>1. queue[p] \in Waiting /\ queue[p] # <<>> /\ queue'[p] = Tail(queue[p]) /\ c = Head(queue[p])
  BY <1>0 DEF LifeTypes, HeadMayRun
<1>2. /\ Head(queue[p]) = queue[p][1] /\ 1 \in 1..Len(queue[p]) /\ Len(queue[p]) \in Nat \ {0}
      /\ Tail(queue[p]) \in Waiting /\ Len(Tail(queue[p])) = Len(queue[p]) - 1
      /\ \A i \in 1..Len(Tail(queue[p])) : /\ i + 1 \in 1..Len(queue[p])
                                           /\ Tail(queue[p])[i] = queue[p][i + 1]
  BY <1>1, HeadAndTail
<1>3. queue' \in [Producers -> Waiting] /\ \A q \in Producers \ {p} : queue'[q] = queue[q]
  BY <1>0, <1>1, <1>2 DEF LifeTypes
<1>4. kind[c] # "none" /\ running[p] = None
  BY <1>0, <1>1, <1>2 DEF LifeOK, HeadMayRun
<1>5. ops[p] = Len(queue'[p]) + 1 /\ Len(queue'[p]) \in Nat
  <2>1. ops[p] = Len(queue[p])
    BY <1>0, <1>2, <1>4 DEF OpsOK
  <2>2. Len(queue'[p]) = Len(queue[p]) - 1
    BY <1>1, <1>2
  <2> QED BY <1>2, <2>1, <2>2
<1>6. \A i \in 1..Len(queue'[p]) : queue'[p][i] \in Calls /\ kind[queue'[p][i]] # "none"
  <2>1. \A i \in 1..Len(queue[p]) : queue[p][i] \in Calls
    BY <1>1, Placed
  <2> QED BY <1>0, <1>1, <1>2, <2>1 DEF LifeOK
<1> QED BY <1>3, <1>4, <1>5, <1>6

\* The head of the queue is refused.
LEMMA RunRefusedMoves ==
    ASSUME Inv, NEW p \in Producers, NEW c \in Calls, RunRefused(p, c)
    PROVE  Moves(p)
<1>0. LifeTypes /\ CallTypes /\ SendTypes /\ OpsOK(p) /\ LifeOK(p)
  BY DEF Inv, Shape
<1>1. /\ HeadMayRun(p, c) /\ queue' = [queue EXCEPT ![p] = Tail(@)]
      /\ ops' = [ops EXCEPT ![p] = IF @ = 0 THEN 0 ELSE @ - 1]
      /\ reply' = [reply EXCEPT ![c] = "error"]
      /\ UNCHANGED <<status, completed, running, memo, native, producerRef, timer, kind, target,
                     answer, settlers, promise, nsend>>
  BY DEF RunRefused
<1>2. /\ queue' \in [Producers -> Waiting] /\ running[p] = None
      /\ \A q \in Producers \ {p} : queue'[q] = queue[q]
      /\ ops[p] = Len(queue'[p]) + 1 /\ Len(queue'[p]) \in Nat
      /\ \A i \in 1..Len(queue'[p]) : queue'[p][i] \in Calls /\ kind[queue'[p][i]] # "none"
  BY <1>1, HeadFacts
<1>3. ops'[p] = Len(queue'[p])
  BY <1>0, <1>1, <1>2 DEF LifeTypes
<1>4. Shape'
  BY <1>0, <1>1, <1>2, <1>3 DEF Shape, LifeTypes, CallTypes, SendTypes
<1>5. OthersKept(p) /\ CountFollows(p) /\ OpsOK(p)'
  BY <1>0, <1>1, <1>2, <1>3 DEF OthersKept, CountFollows, OpsOK, Live, LifeTypes
<1>6. LifeOK(p)'
  BY <1>0, <1>1, <1>2, <1>3 DEF LifeOK, Live
<1>7. PhaseStep(p)
  BY <1>1 DEF PhaseStep, Phase
<1> QED BY <1>4, <1>5, <1>6, <1>7 DEF Moves

\* The head of the queue is handed to the native producer.
LEMMA RunAcceptedMoves ==
    ASSUME Inv, NEW p \in Producers, NEW c \in Calls, RunAccepted(p, c)
    PROVE  Moves(p)
<1>0. LifeTypes /\ CallTypes /\ SendTypes /\ OpsOK(p) /\ LifeOK(p)
  BY DEF Inv, Shape
<1>1. /\ HeadMayRun(p, c) /\ queue' = [queue EXCEPT ![p] = Tail(@)]
      /\ running' = [running EXCEPT ![p] = c]
      /\ status' = [status EXCEPT ![p] = Under(kind[c])]
      /\ native' = [native EXCEPT ![p] = IF kind[c] = "start" THEN "Starting" ELSE "ShuttingDown"]
      /\ ~Refused(p, kind[c], status[p])
      /\ UNCHANGED <<completed, ops, memo, producerRef, timer, kind, target, answer, reply,
                     settlers, promise, nsend>>
  BY DEF RunAccepted
<1>2. /\ queue' \in [Producers -> Waiting] /\ running[p] = None /\ kind[c] # "none"
      /\ \A q \in Producers \ {p} : queue'[q] = queue[q]
      /\ ops[p] = Len(queue'[p]) + 1 /\ Len(queue'[p]) \in Nat
      /\ \A i \in 1..Len(queue'[p]) : queue'[p][i] \in Calls /\ kind[queue'[p][i]] # "none"
  BY <1>1, HeadFacts
<1>3. status'[p] = Under(kind[c]) /\ running'[p] = c /\ c # None
  BY <1>0, <1>1, NoneAssumption DEF LifeTypes
<1>4. Shape'
  <2>1. status' \in [Producers -> Statuses] /\ native' \in [Producers -> NativeStates]
    BY <1>0, <1>1 DEF LifeTypes, Under, Statuses, NativeStates
  <2>2. LifeTypes'
    BY <1>0, <1>1, <1>2, <2>1 DEF LifeTypes
  <2>3. CallTypes' /\ SendTypes'
    BY <1>0, <1>1 DEF CallTypes, SendTypes
  <2> QED BY <2>2, <2>3 DEF Shape
<1>5. OthersKept(p) /\ OpsOK(p)'
  BY <1>0, <1>1, <1>2, <1>3 DEF OthersKept, OpsOK, LifeTypes
<1>6. /\ ~completed[p] /\ (Live(p)' <=> Live(p))
      /\ status'[p] # "STOPPED"
  BY <1>0, <1>1, <1>3 DEF LifeOK, LifeTypes, Statuses, Live, Refused, Under
<1>7. LifeOK(p)'
  BY <1>0, <1>1, <1>2, <1>3, <1>6 DEF LifeOK, Live
<1>8. PhaseStep(p)
  <2>1. status[p] = "STOPPED" => completed[p]
    BY <1>0, <1>2 DEF LifeOK
  <2> QED BY <1>0, <1>1, <1>3, <1>6, <2>1
          DEF PhaseStep, Phase, LifeTypes, Statuses, Refused, Under
<1> QED BY <1>1, <1>4, <1>5, <1>6, <1>7, <1>8 DEF Moves, CountFollows

\* The native producer refuses the head of the queue.
LEMMA RunThrowsMoves ==
    ASSUME Inv, NEW p \in Producers, NEW c \in Calls, RunThrows(p, c)
    PROVE  Moves(p)
<1>0. LifeTypes /\ CallTypes /\ LifeOK(p)
  BY DEF Inv, Shape
<1>1. /\ HeadMayRun(p, c) /\ queue' = [queue EXCEPT ![p] = Tail(@)]
      /\ Finish(p, c, FALSE) /\ ~Refused(p, kind[c], status[p])
      /\ UNCHANGED <<memo, kind, target, answer, nsend>>
  BY DEF RunThrows
<1>2. native' \in [Producers -> NativeStates]
  BY <1>0 DEF RunThrows, LifeTypes, NativeStates
<1>3. /\ kind[c] = "shutdown" => Live(p)
      /\ kind[c] = "start" => ~Live(p) /\ ~completed[p]
  BY <1>0, <1>1 DEF LifeTypes, Statuses, Refused, Live
<1> QED BY <1>1, <1>2, <1>3, HeadFacts, FinishMoves

\* The native producer calls back.
LEMMA NativeReturnsMoves ==
    ASSUME Inv, NEW p \in Producers, NEW ok \in BOOLEAN, NativeReturns(p, ok)
    PROVE  Moves(p)
<1> DEFINE c == running[p]
<1>0. LifeTypes /\ CallTypes /\ OpsOK(p) /\ LifeOK(p)
  BY DEF Inv, Shape
<1>1. /\ c # None /\ Finish(p, c, ok)
      /\ UNCHANGED <<queue, memo, kind, target, answer, nsend>>
      /\ native' = [native EXCEPT ![p] =
            IF kind[c] = "start" THEN (IF ok THEN "Started" ELSE "Shutdown")
            ELSE (IF ok THEN "Shutdown" ELSE "ShuttingDown")]
  BY DEF NativeReturns
<1>2. c \in Calls /\ kind[c] # "none" /\ status[p] = Under(kind[c])
  BY <1>0, <1>1 DEF LifeTypes, LifeOK
<1>3. native' \in [Producers -> NativeStates]
  BY <1>0, <1>1 DEF LifeTypes, NativeStates
<1>4. queue[p] \in Waiting /\ Len(queue[p]) \in Nat /\ \A i \in 1..Len(queue[p]) : queue[p][i] \in Calls
  BY <1>0, Placed DEF LifeTypes
<1>5. ops[p] = Len(queue'[p]) + 1
  BY <1>0, <1>1, <1>4 DEF OpsOK
<1>6. /\ queue' \in [Producers -> Waiting] /\ \A q \in Producers \ {p} : queue'[q] = queue[q]
      /\ \A i \in 1..Len(queue'[p]) : queue'[p][i] \in Calls /\ kind[queue'[p][i]] # "none"
  BY <1>0, <1>1, <1>4 DEF LifeTypes, LifeOK
<1>7. /\ kind[c] = "shutdown" => Live(p)
      /\ kind[c] = "start" => ~Live(p) /\ ~completed[p]
  BY <1>0, <1>2 DEF LifeOK, Under, Live
<1> HIDE DEF c
<1> QED BY <1>1, <1>2, <1>3, <1>5, <1>6, <1>7, FinishMoves

-----------------------------------------------------------------------------
(* Steps of send(), and all of them.                                       *)

\* The count is exact as long as nobody changes what it counts.
LEMMA CountUntouched ==
    ASSUME KeepAlive, UNCHANGED <<status, producerRef, timer>>
    PROVE  KeepAlive'
<1>1. /\ producerRef' = producerRef
      /\ {p \in Producers : Live(p)}' = {p \in Producers : Live(p)}
  BY DEF Live
<1>2. timer' = timer
  OBVIOUS
<1>3. timer \in BOOLEAN /\ (timer <=> producerRef > 0)
  BY Zenon DEF KeepAlive
<1>4. producerRef' > 0 <=> producerRef > 0
  BY <1>1
<1>5. timer' \in BOOLEAN /\ (timer' <=> producerRef' > 0)
  <2>1. CASE timer = TRUE
    BY <1>2, <1>3, <1>4, <2>1, Zenon
  <2>2. CASE timer = FALSE
    BY <1>2, <1>3, <1>4, <2>2, Zenon
  <2> QED BY <1>3, <2>1, <2>2, Zenon
<1> QED BY <1>1, <1>5, Zenon DEF KeepAlive

\* A step that changes neither the life nor the calls of a producer, and opens a
\* promise of send() at most for one that is started.
LEMMA SendsMove ==
    ASSUME Inv, memo' \in [Producers -> Calls \cup {None}], SendTypes',
           UNCHANGED <<status, completed, ops, queue, running, native, moduleVars, callVars>>,
           \A p \in Producers : settlers'[p] = {} \/ settlers[p] # {} \/ Live(p)
    PROVE  Inv'
<1>1. Shape'
  BY DEF Inv, Shape, LifeTypes, CallTypes
<1>2. KeepAlive'
  BY CountUntouched DEF Inv
<1>3. ASSUME NEW p \in Producers PROVE OpsOK(p)' /\ LifeOK(p)'
  BY DEF Inv, OpsOK, LifeOK, Live
<1> QED BY <1>1, <1>2, <1>3 DEF Inv

\* Every step of send(), and the microtask that clears the memoised promise.
LEMMA SendSteps ==
    ASSUME Inv,
           \/ \E p \in Producers : ClearMemo(p) \/ \E s \in Sends : Send(p, s) \/ SendThrows(p, s)
           \/ \E s \in Sends, ok \in BOOLEAN : SendCallback(s, ok)
    PROVE  /\ Inv' /\ \A p \in Producers : Phase(p)' = Phase(p)
<1>0. LifeTypes /\ SendTypes
  BY DEF Inv, Shape
<1>1. ASSUME NEW p \in Producers, ClearMemo(p)
      PROVE  /\ memo' \in [Producers -> Calls \cup {None}] /\ SendTypes'
             /\ UNCHANGED <<status, completed, ops, queue, running, native, producerRef, timer,
                            kind, target, answer, reply, settlers>>
  BY <1>0, <1>1 DEF ClearMemo, LifeTypes, SendTypes
<1>2. ASSUME NEW p \in Producers, NEW s \in Sends, Send(p, s)
      PROVE  /\ SendTypes' /\ \A q \in Producers : settlers'[q] = settlers[q] \/ Live(q)
             /\ UNCHANGED <<status, completed, ops, queue, running, memo, native, producerRef,
                            timer, kind, target, answer, reply>>
  BY <1>0, <1>2 DEF Send, MaySend, Live, SendTypes
<1>3. ASSUME NEW p \in Producers, NEW s \in Sends, SendThrows(p, s)
      PROVE  /\ SendTypes'
             /\ UNCHANGED <<status, completed, ops, queue, running, memo, native, producerRef,
                            timer, kind, target, answer, reply, settlers>>
  BY <1>0, <1>3 DEF SendThrows, SendTypes
<1>4. ASSUME NEW s \in Sends, NEW ok \in BOOLEAN, SendCallback(s, ok)
      PROVE  /\ SendTypes' /\ \A q \in Producers : settlers'[q] \subseteq settlers[q]
             /\ UNCHANGED <<status, completed, ops, queue, running, memo, native, producerRef,
                            timer, kind, target, answer, reply>>
  <2>1. CASE Settles(s)
    BY <1>0, <1>4, <2>1 DEF SendCallback, SendTypes
  <2>2. CASE ~Settles(s)
    BY <1>0, <1>4, <2>2 DEF SendCallback, SendTypes
  <2> QED BY <2>1, <2>2
<1>5. /\ memo' \in [Producers -> Calls \cup {None}] /\ SendTypes'
      /\ UNCHANGED <<status, completed, ops, queue, running, native, producerRef, timer,
                     kind, target, answer, reply>>
      /\ \A p \in Producers : settlers'[p] = {} \/ settlers[p] # {} \/ Live(p)
  BY <1>0, <1>1, <1>2, <1>3, <1>4 DEF LifeTypes
<1>6. \A p \in Producers : Phase(p)' = Phase(p)
  BY <1>5 DEF Phase
<1> QED BY <1>5, <1>6, SendsMove

\* Every step keeps the invariant, and every producer in its life.
LEMMA InvNext ==
    ASSUME Inv, [Next]_vars
    PROVE  Inv' /\ \A p \in Producers : PhaseStep(p)
<1>0. LifeTypes
  BY DEF Inv, Shape
<1>1. ASSUME NEW p \in Producers, Moves(p) PROVE Inv' /\ \A q \in Producers : PhaseStep(q)
  BY <1>1, MovesKeep DEF Moves, OthersKept, PhaseStep, Phase
<1>2. ASSUME NEW p \in Producers, NEW c \in Calls,
             Call(p, c, "start") \/ Call(p, c, "shutdown") \/ ShutdownPromise(p, c)
      PROVE  Inv' /\ \A q \in Producers : PhaseStep(q)
  <2>1. CASE Call(p, c, "start") \/ Call(p, c, "shutdown")
    <3>1. memo' \in [Producers -> Calls \cup {None}]
      BY <1>0, <2>1 DEF Call, LifeTypes
    <3>2. PICK method \in {"start", "shutdown"} :
            /\ StartOrShutdown(p, c, method)
            /\ UNCHANGED <<completed, running, native, moduleVars, sendVars>>
      BY <2>1 DEF Call
    <3> QED BY <1>1, <3>1, <3>2, StartOrShutdownMoves
  <2>2. CASE ShutdownPromise(p, c) /\ memo[p] = None
    <3>1. memo' \in [Producers -> Calls \cup {None}]
      BY <1>0, <2>2 DEF ShutdownPromise, LifeTypes
    <3>2. /\ StartOrShutdown(p, c, "shutdown")
          /\ UNCHANGED <<completed, running, native, moduleVars, sendVars>>
      BY <2>2 DEF ShutdownPromise
    <3> QED BY <1>1, <3>1, <3>2, StartOrShutdownMoves
  <2>3. CASE ShutdownPromise(p, c) /\ memo[p] # None
    <3>1. /\ kind[c] = "none" /\ kind' = [kind EXCEPT ![c] = "shutdown"]
          /\ target' = [target EXCEPT ![c] = p] /\ answer' = [answer EXCEPT ![c] = memo[p]]
          /\ UNCHANGED <<status, completed, ops, queue, running, memo, native, producerRef, timer,
                         reply, settlers, promise, nsend>>
      BY <2>3 DEF ShutdownPromise, Made
    <3>2. Shape'
      <4>1. CallTypes'
        BY <1>0, <3>1 DEF Inv, Shape, LifeTypes, CallTypes
      <4>2. LifeTypes' /\ SendTypes'
        BY <3>1 DEF Inv, Shape, LifeTypes, SendTypes
      <4> QED BY <4>1, <4>2 DEF Shape
    <3>3. \A d \in Calls : kind[d] # "none" => kind'[d] = kind[d]
      BY <3>1 DEF Inv, Shape, CallTypes
    <3>4. OpsOK(p)'
      BY <3>1 DEF Inv, OpsOK
    <3>5. LifeOK(p)'
      <4>1. /\ running[p] \in Calls \cup {None}
            /\ \A i \in 1..Len(queue[p]) : queue[p][i] \in Calls
        BY <1>0, Placed DEF LifeTypes
      <4> QED BY <3>1, <3>3, <4>1 DEF Inv, LifeOK, Live
    <3>6. OthersKept(p) /\ CountFollows(p) /\ PhaseStep(p)
      BY <3>1, <3>3 DEF OthersKept, CountFollows, Live, PhaseStep, Phase
    <3> QED BY <1>1, <3>2, <3>4, <3>5, <3>6 DEF Moves
  <2> QED BY <1>2, <2>1, <2>2, <2>3
<1>3. ASSUME NEW p \in Producers,
             \/ \E ok \in BOOLEAN : NativeReturns(p, ok)
             \/ \E c \in Calls : RunHead(p, c)
      PROVE  Inv' /\ \A q \in Producers : PhaseStep(q)
  BY <1>1, <1>3, NativeReturnsMoves, RunRefusedMoves, RunAcceptedMoves, RunThrowsMoves DEF RunHead
<1>4. CASE \/ \E p \in Producers : ClearMemo(p) \/ \E s \in Sends : Send(p, s) \/ SendThrows(p, s)
           \/ \E s \in Sends, ok \in BOOLEAN : SendCallback(s, ok)
  BY <1>4, SendSteps DEF PhaseStep
<1>5. CASE UNCHANGED vars
  <2>1. SendTypes' /\ memo' \in [Producers -> Calls \cup {None}]
    BY <1>5 DEF Inv, Shape, LifeTypes, SendTypes
  <2> QED BY <1>5, <2>1, SendsMove DEF PhaseStep, Phase
<1> QED BY <1>2, <1>3, <1>4, <1>5 DEF Next, Application

-----------------------------------------------------------------------------
(* The theorems.                                                           *)

\* The invariant holds in every behaviour.
LEMMA InvAlways == SafetySpec => []Inv
BY InvInit, InvNext, PTL DEF SafetySpec

\* Types, from the invariant: the shared count is a cardinality.
LEMMA InvTypes == Inv => TypeOK
<1> SUFFICES ASSUME Inv PROVE TypeOK
  OBVIOUS
<1>1. producerRef \in Nat /\ timer \in BOOLEAN
  <2>1. Cardinality({p \in Producers : Live(p)}) \in Nat
    BY FiniteAssumption, FS_Subset, FS_CardinalityType
  <2> QED BY <2>1, Zenon DEF Inv, KeepAlive
<1> QED BY <1>1 DEF Inv, Shape, LifeTypes, CallTypes, SendTypes, Waiting, TypeOK

\* Every variable of the producers keeps its type.
THEOREM TypeCorrect == SafetySpec => []TypeOK
BY InvAlways, InvTypes, PTL

\* Two truth values are equal when they are equivalent.
LEMMA SameTruth == ASSUME NEW a \in BOOLEAN, NEW b \in BOOLEAN, a <=> b PROVE a = b
BY Zenon

\* producerRef counts the producers that are started or stopping, and the interval is
\* set exactly while there is one (incrementProducerRef and decrementProducerRef of
\* src/producer.ts): no path leaves the process alive for nothing, or lets it end early.
THEOREM KeepAliveCount == SafetySpec => []KeepAliveExact
<1>1. Inv => KeepAliveExact
  <2> SUFFICES ASSUME Inv PROVE KeepAliveExact
    OBVIOUS
  <2>1. /\ producerRef = Cardinality({p \in Producers : Live(p)})
        /\ timer \in BOOLEAN /\ (timer <=> producerRef > 0)
    BY Zenon DEF Inv, KeepAlive
  <2>2. timer = (producerRef > 0)
    <3>1. (producerRef > 0) \in BOOLEAN
      OBVIOUS
    <3> QED BY <2>1, <3>1, SameTruth, Zenon
  <2> QED BY <2>1, <2>2, Zenon DEF KeepAliveExact
<1> QED BY InvAlways, <1>1, PTL

\* pendingOperations counts what is queued or running (operationQueue of
\* src/producer.ts), whatever fails.
THEOREM OperationCount == SafetySpec => []OpsExact
<1>1. Inv => OpsExact
  BY DEF Inv, OpsOK, OpsExact
<1> QED BY InvAlways, <1>1, PTL

\* A pending promise has a settler: the drain of its producer would find it.
PendingKnown == \A s \in Sends : promise[s] = "pending" => \E p \in Producers : s \in settlers[p]

\* A drain takes a producer's settlers away only together with their promises.
LEMMA FinishKeepsKnown ==
    ASSUME SendTypes, PendingKnown, NEW p \in Producers, NEW c, NEW ok, Finish(p, c, ok)
    PROVE  PendingKnown'
<1>1. CASE Drain(p)
  <2>1. ASSUME NEW s \in Sends, promise'[s] = "pending"
        PROVE  \E q \in Producers : s \in settlers'[q]
    <3>1. promise[s] = "pending" /\ s \notin settlers[p]
      BY <1>1, <2>1 DEF Drain, SendTypes
    <3>2. PICK q \in Producers : s \in settlers[q]
      BY <3>1 DEF PendingKnown
    <3> QED BY <1>1, <3>1, <3>2 DEF Drain, SendTypes
  <2> QED BY <2>1 DEF PendingKnown
<1>2. CASE UNCHANGED <<settlers, promise>>
  BY <1>2 DEF PendingKnown
<1> QED BY <1>1, <1>2 DEF Finish

LEMMA PendingKnownNext == ASSUME Inv, PendingKnown, [Next]_vars PROVE PendingKnown'
<1>0. SendTypes
  BY DEF Inv, Shape
<1>1. CASE \/ \E p \in Producers, c \in Calls :
                Call(p, c, "start") \/ Call(p, c, "shutdown") \/ ShutdownPromise(p, c)
           \/ \E p \in Producers : ClearMemo(p)
           \/ UNCHANGED vars
  BY <1>1 DEF Call, ShutdownPromise, ClearMemo, PendingKnown
<1>2. ASSUME NEW p \in Producers, NEW s \in Sends, Send(p, s) \/ SendThrows(p, s)
      PROVE  PendingKnown'
  BY <1>0, <1>2 DEF Send, SendThrows, PendingKnown, SendTypes
<1>3. ASSUME NEW p \in Producers,
             (\E ok \in BOOLEAN : NativeReturns(p, ok)) \/ \E c \in Calls : RunHead(p, c)
      PROVE  PendingKnown'
  <2>1. CASE \E ok \in BOOLEAN : NativeReturns(p, ok)
    BY <1>0, <2>1, FinishKeepsKnown DEF NativeReturns
  <2>2. CASE \E c \in Calls : RunThrows(p, c)
    BY <1>0, <2>2, FinishKeepsKnown DEF RunThrows
  <2>3. CASE \E c \in Calls : RunRefused(p, c) \/ RunAccepted(p, c)
    BY <2>3 DEF RunRefused, RunAccepted, PendingKnown
  <2> QED BY <1>3, <2>1, <2>2, <2>3 DEF RunHead
<1>4. ASSUME NEW s \in Sends, NEW ok \in BOOLEAN, SendCallback(s, ok)
      PROVE  PendingKnown'
  <2>1. CASE Settles(s)
    BY <1>0, <1>4, <2>1 DEF SendCallback, PendingKnown, SendTypes
  <2>2. CASE ~Settles(s)
    BY <1>4, <2>2 DEF SendCallback, PendingKnown
  <2> QED BY <2>1, <2>2
<1> QED BY <1>1, <1>2, <1>3, <1>4 DEF Next, Application

\* A pending promise of send() belongs to a producer that is not over (pendingSendSettlers
\* and DRAIN_PENDING_SENDS of src/producer.ts): when a shutdown ends, by success or by
\* error, none of its sends is left pending.
THEOREM NothingPending == SafetySpec => []NoSendOutlivesShutdown
<1>1. Init => PendingKnown
  BY DEF Init, PendingKnown
<1>2. Inv /\ PendingKnown => NoSendOutlivesShutdown
  BY DEF Inv, LifeOK, Live, PendingKnown, NoSendOutlivesShutdown
<1> QED BY InvAlways, <1>1, PendingKnownNext, <1>2, PTL DEF SafetySpec

\* A promise of send() that is settled stays as it is, whatever the native producer
\* calls back with later.
THEOREM SettledForGood == SafetySpec => SettledOnce
<1>1. Inv /\ [Next]_vars =>
        [\A s \in Sends : promise[s] \in {"resolved", "rejected"} => promise'[s] = promise[s]]_vars
  <2> SUFFICES ASSUME Inv, Next, NEW s \in Sends, promise[s] \in {"resolved", "rejected"}
               PROVE  promise'[s] = promise[s]
    OBVIOUS
  <2>0. SendTypes
    BY DEF Inv, Shape
  <2>1. \A p \in Producers : Drain(p) => promise'[s] = promise[s]
    BY <2>0 DEF Drain, SendTypes
  <2>2. \A p \in Producers : \A c, ok : Finish(p, c, ok) => promise'[s] = promise[s]
    BY <2>1 DEF Finish
  <2>3. CASE Application
    BY <2>0, <2>3 DEF Application, Call, ShutdownPromise, Send, SendThrows, SendTypes
  <2>4. CASE \E p \in Producers : ClearMemo(p) \/ \E ok \in BOOLEAN : NativeReturns(p, ok)
    BY <2>2, <2>4 DEF ClearMemo, NativeReturns
  <2>5. CASE \E p \in Producers, c \in Calls : RunHead(p, c)
    BY <2>2, <2>5 DEF RunHead, RunRefused, RunAccepted, RunThrows
  <2>6. CASE \E r \in Sends, ok \in BOOLEAN : SendCallback(r, ok)
    BY <2>0, <2>6 DEF SendCallback, Settles, SendTypes
  <2> QED BY <2>3, <2>4, <2>5, <2>6 DEF Next
<1> QED BY InvAlways, <1>1, PTL DEF SafetySpec, SettledOnce

\* A producer lives once: it is started at most once, works until it is asked to stop,
\* and never again (START_OR_SHUTDOWN of src/producer.ts with its checks at the call
\* and at the head of the queue).
THEOREM OneShot == SafetySpec => ImplementsOneShot
<1>1. Init => \A p \in Producers : ShotOf(p)!Init
  BY DEF Init, ShotOf!Init, Phase
<1>2. Inv /\ [Next]_vars => [\A p \in Producers : [ShotOf(p)!Next]_(Phase(p))]_vars
  BY InvNext DEF PhaseStep, ShotOf!Next, ShotOf!Start, ShotOf!Started, ShotOf!Stop, ShotOf!Over
<1> QED BY InvAlways, <1>1, <1>2, PTL DEF SafetySpec, ImplementsOneShot

-----------------------------------------------------------------------------
(* The class and the native producer.                                      *)

\* An operation that runs is what the native producer is at; between operations a
\* producer that is not over has a native one that is new or started, as its status says.
NativeOK(p) ==
    /\ running[p] # None =>
         native[p] = IF kind[running[p]] = "start" THEN "Starting" ELSE "ShuttingDown"
    /\ running[p] = None /\ ~completed[p] => native[p] = IF Live(p) THEN "Started" ELSE "Idle"

NativeInv == \A p \in Producers : NativeOK(p)

LEMMA NativeInvInit == Init => NativeInv
BY DEF Init, NativeInv, NativeOK, Live

\* An operation that ends leaves a producer that is over, or started.
LEMMA NativeFinish ==
    ASSUME Inv, NEW p \in Producers, NEW c \in Calls, NEW ok \in BOOLEAN, Finish(p, c, ok),
           kind[c] \in {"start", "shutdown"}, kind[c] = "start" /\ ok => native'[p] = "Started"
    PROVE  NativeOK(p)'
<1>1. /\ status' = [status EXCEPT ![p] = StatusAfter(c, ok)]
      /\ completed' = [completed EXCEPT ![p] = @ \/ Completes(c, ok)]
      /\ running' = [running EXCEPT ![p] = None]
  BY DEF Finish, FinalizeQueue
<1>2. /\ running'[p] = None
      /\ completed'[p] <=> completed[p] \/ Completes(c, ok)
      /\ status'[p] = StatusAfter(c, ok)
  BY <1>1 DEF Inv, Shape, LifeTypes
<1> QED BY <1>2 DEF NativeOK, Completes, StatusAfter, Live

\* The other producers are left alone.
LEMMA NativeOthers ==
    ASSUME Inv, NativeInv, NEW p \in Producers, OthersKept(p), NativeOK(p)',
           \A q \in Producers \ {p} : native'[q] = native[q]
    PROVE  NativeInv'
<1>1. ASSUME NEW q \in Producers \ {p} PROVE NativeOK(q)'
  <2>1. running[q] # None => running[q] \in Calls /\ kind[running[q]] # "none"
    BY DEF Inv, Shape, LifeTypes, LifeOK
  <2> QED BY <2>1 DEF NativeInv, NativeOK, OthersKept, Live
<1> QED BY <1>1 DEF NativeInv

\* A call that is made changes the status of an idle producer only from new to starting,
\* or from started to stopping.
LEMMA NativeCalls ==
    ASSUME Inv, NativeInv, NEW p \in Producers, NEW c \in Calls,
           NEW method \in {"start", "shutdown"}, StartOrShutdown(p, c, method),
           UNCHANGED <<completed, running, native>>
    PROVE  NativeInv'
<1>0. LifeTypes /\ CallTypes /\ \A q \in Producers : OpsOK(q) /\ LifeOK(q)
  BY DEF Inv, Shape
<1>1. kind[c] = "none" /\ \A d \in Calls \ {c} : kind'[d] = kind[d]
  BY <1>0 DEF StartOrShutdown, Made, CallTypes
<1>2. ASSUME NEW q \in Producers PROVE status'[q] = status[q] \/ (Live(q)' <=> Live(q))
  <2>1. CASE QueueBusy(p) \/ RefusedAtOnce(p, method)
    BY <1>0, <2>1 DEF StartOrShutdown, LifeTypes
  <2>2. CASE ~QueueBusy(p) /\ ~RefusedAtOnce(p, method)
    <3>1. status' = [status EXCEPT ![p] = Under(method)]
      BY <2>2 DEF StartOrShutdown
    <3> QED BY <1>0, <2>2, <3>1 DEF LifeTypes, RefusedAtOnce, Refused, Under, Live, Statuses
  <2> QED BY <2>1, <2>2
<1>3. ASSUME NEW q \in Producers PROVE NativeOK(q)'
  <2>1. Live(q)' <=> Live(q)
    BY <1>2 DEF Live
  <2>2. running[q] # None => running[q] \in Calls /\ kind'[running[q]] = kind[running[q]]
    BY <1>0, <1>1 DEF LifeTypes, LifeOK
  <2> QED BY <2>1, <2>2 DEF NativeInv, NativeOK
<1> QED BY <1>3 DEF NativeInv

\* The steps of the queue and of the native callbacks.
LEMMA NativeOps ==
    ASSUME Inv, NativeInv, NEW p \in Producers,
           \/ \E ok \in BOOLEAN : NativeReturns(p, ok)
           \/ \E c \in Calls : RunHead(p, c)
    PROVE  NativeInv'
<1>0. LifeTypes /\ CallTypes /\ LifeOK(p) /\ OpsOK(p) /\ NativeOK(p)
  BY DEF Inv, Shape, NativeInv
<1>1. OthersKept(p)
  BY NativeReturnsMoves, RunRefusedMoves, RunAcceptedMoves, RunThrowsMoves DEF RunHead, Moves
<1>2. ASSUME NEW c \in Calls, HeadMayRun(p, c) PROVE kind[c] \in {"start", "shutdown"}
  <2>1. queue[p] \in Waiting /\ queue[p] # <<>> /\ c = Head(queue[p])
    BY <1>0, <1>2 DEF HeadMayRun, LifeTypes
  <2>2. c = queue[p][1] /\ 1 \in 1..Len(queue[p])
    BY <2>1, HeadAndTail
  <2> QED BY <1>0, <2>2 DEF LifeOK, CallTypes
<1>3. ASSUME NEW c \in Calls, RunRefused(p, c) PROVE NativeInv'
  BY <1>0, <1>1, <1>3, NativeOthers DEF RunRefused, NativeOK, Live
<1>4. ASSUME NEW c \in Calls, RunAccepted(p, c) PROVE NativeInv'
  <2>1. running'[p] = c /\ kind' = kind /\ c # None
    BY <1>0, <1>4, NoneAssumption DEF RunAccepted, LifeTypes
  <2>2. /\ native'[p] = IF kind[c] = "start" THEN "Starting" ELSE "ShuttingDown"
        /\ \A q \in Producers \ {p} : native'[q] = native[q]
    BY <1>0, <1>4 DEF RunAccepted, LifeTypes
  <2> QED BY <1>1, <2>1, <2>2, NativeOthers DEF NativeOK
<1>5. ASSUME NEW c \in Calls, RunThrows(p, c) PROVE NativeInv'
  <2>1. kind[c] \in {"start", "shutdown"} /\ Finish(p, c, FALSE)
    BY <1>2, <1>5 DEF RunThrows
  <2>2. \A q \in Producers \ {p} : native'[q] = native[q]
    BY <1>0, <1>5 DEF RunThrows, LifeTypes
  <2> QED BY <1>1, <2>1, <2>2, NativeFinish, NativeOthers
<1>6. ASSUME NEW ok \in BOOLEAN, NativeReturns(p, ok) PROVE NativeInv'
  <2> DEFINE c == running[p]
  <2>1. c \in Calls /\ kind[c] \in {"start", "shutdown"} /\ Finish(p, c, ok)
    BY <1>0, <1>6 DEF NativeReturns, LifeTypes, LifeOK, CallTypes
  <2>2. /\ kind[c] = "start" /\ ok => native'[p] = "Started"
        /\ \A q \in Producers \ {p} : native'[q] = native[q]
    BY <1>0, <1>6 DEF NativeReturns, LifeTypes
  <2> QED BY <1>1, <2>1, <2>2, NativeFinish, NativeOthers
<1> QED BY <1>3, <1>4, <1>5, <1>6 DEF RunHead

\* The class and its native producer agree after every step.
LEMMA NativeInvNext == ASSUME Inv, NativeInv, [Next]_vars PROVE NativeInv'
<1>1. ASSUME NEW p \in Producers, NEW c \in Calls,
             Call(p, c, "start") \/ Call(p, c, "shutdown") \/ ShutdownPromise(p, c)
      PROVE  NativeInv'
  <2>1. CASE Call(p, c, "start") \/ Call(p, c, "shutdown")
    BY <2>1, NativeCalls DEF Call
  <2>2. CASE ShutdownPromise(p, c) /\ memo[p] = None
    BY <2>2, NativeCalls DEF ShutdownPromise
  <2>3. CASE ShutdownPromise(p, c) /\ memo[p] # None
    <3>1. /\ \A d \in Calls : kind[d] # "none" => kind'[d] = kind[d]
          /\ UNCHANGED <<status, completed, running, native>>
      BY <2>3 DEF ShutdownPromise, Made, Inv, Shape, CallTypes
    <3>2. ASSUME NEW q \in Producers PROVE NativeOK(q)'
      <4>1. running[q] # None => running[q] \in Calls /\ kind[running[q]] # "none"
        BY DEF Inv, Shape, LifeTypes, LifeOK
      <4> QED BY <3>1, <4>1 DEF NativeInv, NativeOK, Live
    <3> QED BY <3>2 DEF NativeInv
  <2> QED BY <1>1, <2>1, <2>2, <2>3
<1>2. CASE \/ \E p \in Producers : ClearMemo(p) \/ \E s \in Sends : Send(p, s) \/ SendThrows(p, s)
           \/ \E s \in Sends, ok \in BOOLEAN : SendCallback(s, ok)
           \/ UNCHANGED vars
  <2>1. UNCHANGED <<status, completed, running, native, kind>>
    BY <1>2 DEF ClearMemo, Send, SendThrows, SendCallback
  <2> QED BY <2>1 DEF NativeInv, NativeOK, Live
<1> QED BY <1>1, <1>2, NativeOps DEF Next, Application

\* The native producer never refuses what the class asks of it: the checks of
\* START_OR_SHUTDOWN and SEND of src/producer.ts are at least as strict as those of
\* Start, Shutdown and Send of lib/producer.cpp, whatever overlaps, is refused or fails.
THEOREM NativeAgrees == SafetySpec => []NativeInStep
<1>1. ASSUME Inv, NativeInv, NEW p \in Producers
      PROVE  /\ MaySend(p) => native[p] = "Started"
             /\ \A c \in Calls : HeadMayRun(p, c) /\ ~Refused(p, kind[c], status[p])
                  => native[p] = IF kind[c] = "start" THEN "Idle" ELSE "Started"
  <2>0. NativeOK(p) /\ LifeOK(p) /\ status[p] \in Statuses
    BY <1>1 DEF NativeInv, Inv, Shape, LifeTypes
  <2>1. CASE MaySend(p)
    <3>1. running[p] = None /\ ~completed[p]
      BY <2>0, <2>1 DEF MaySend, LifeOK, Under
    <3> QED BY <2>0, <2>1, <3>1 DEF MaySend, NativeOK, Live, HeadMayRun, Refused
  <2>2. CASE ~MaySend(p)
    <3>1. ASSUME NEW c \in Calls, HeadMayRun(p, c), ~Refused(p, kind[c], status[p])
          PROVE  native[p] = IF kind[c] = "start" THEN "Idle" ELSE "Started"
      <4>1. running[p] = None
        BY <3>1 DEF HeadMayRun
      <4>2. ~completed[p] /\ (Live(p) <=> kind[c] # "start")
        BY <2>0, <3>1 DEF Refused, LifeOK, Live, Statuses
      <4> QED BY <2>0, <4>1, <4>2 DEF NativeOK
    <3> QED BY <2>2, <3>1
  <2> QED BY <2>1, <2>2
<1>2. Inv /\ NativeInv => NativeInStep
  BY <1>1 DEF NativeInStep
<1> QED BY InvAlways, NativeInvInit, NativeInvNext, <1>2, PTL DEF SafetySpec
=============================================================================
