------------------------ MODULE ConsumerWrapper_proofs ------------------------
(***************************************************************************)
(* What is proved of the JavaScript consumers of one process, for every    *)
(* number of consumers, calls and messages.                                *)
(***************************************************************************)
EXTENDS ConsumerWrapper, FiniteSetTheorems, TLAPS

USE DEF vars, opVars, countVars, moduleVars, callVars, messageVars, CallKept

-----------------------------------------------------------------------------
(* The invariant.                                                          *)

\* The queues there are; what they are made of is told by two lemmas below.
Waiting == Seq(Calls)

\* The variables have their types; the counts have theirs from what they count.
LifeTypes ==
    /\ status \in [Consumers -> Statuses] /\ completed \in [Consumers -> BOOLEAN]
    /\ ops \in [Consumers -> Nat] /\ queue \in [Consumers -> Waiting]
    /\ running \in [Consumers -> Calls \cup {None}]
    /\ native \in [Consumers -> {"Idle", "Starting", "Started", "ShuttingDown", "Shutdown"}]
    /\ consumerRef \in Int
CallTypes ==
    /\ kind \in [Calls -> {"none", "start", "shutdown"}]
    /\ target \in [Calls -> Consumers \cup {None}] /\ initiated \in [Calls -> BOOLEAN]
    /\ caller \in [Calls -> Messages \cup {None}] /\ callerAcked \in [Calls -> BOOLEAN]
    /\ reply \in [Calls -> {"none", "ok", "error"}]
    /\ thrown \in [Calls -> {"no", "due", "done"}]
MessageTypes ==
    /\ owner \in [Messages -> Consumers \cup {None}] /\ gen \in [Messages -> Nat]
    /\ ack \in [Messages -> {"none", "open", "acked"}]
    /\ waits \in [Messages -> Calls \cup {None}]
    /\ outstanding \in [Consumers -> Int] /\ generation \in [Consumers -> Nat]
Shape == LifeTypes /\ CallTypes /\ MessageTypes

\* The count of operations is exact until the consumer is over: a catch counts one off
\* for a second time.
OpsOK(p) ==
    ~completed[p] => ops[p] = Len(queue[p]) + (IF running[p] = None THEN 0 ELSE 1)

\* What is queued has been called on this consumer; the operation that runs decides
\* the status; a consumer that is over is stopped, and a new one has no operation.
LifeOK(p) ==
    /\ \A i \in 1..Len(queue[p]) : kind[queue[p][i]] # "none" /\ target[queue[p][i]] = p
    /\ running[p] # None => /\ kind[running[p]] # "none" /\ target[running[p]] = p
                            /\ status[p] = Under(kind[running[p]])
    /\ completed[p] => status[p] = "STOPPED"
    /\ status[p] = "STOPPED" /\ ~completed[p] => ops[p] = 0

Live(p) == status[p] \in {"STARTED", "STOPPING"}

\* The calls that were cleaned up after twice.
Twice == {c \in Calls : thrown[c] = "done"}

\* KeepAliveExact, told as an equivalence.
KeepAlive ==
    /\ consumerRef = Cardinality({p \in Consumers : Live(p)}) - Cardinality(Twice)
    /\ timer \in BOOLEAN /\ (timer <=> consumerRef > 0)

\* A callback that threw was that of a shutdown whose consumer is over.
ThrownOK(c) ==
    thrown[c] # "no" => /\ kind[c] = "shutdown" /\ target[c] \in Consumers
                        /\ completed[target[c]]

LifeInv ==
    /\ Shape /\ KeepAlive
    /\ \A p \in Consumers : OpsOK(p) /\ LifeOK(p)
    /\ \A c \in Calls : ThrownOK(c)

\* Nothing has been called at first.
LEMMA LifeInvInit == Init => LifeInv
<1> SUFFICES ASSUME Init PROVE LifeInv
  OBVIOUS
<1>1. Shape
  <2>1. /\ status \in [Consumers -> Statuses] /\ completed \in [Consumers -> BOOLEAN]
        /\ ops \in [Consumers -> Nat] /\ running \in [Consumers -> Calls \cup {None}]
        /\ native \in [Consumers -> {"Idle", "Starting", "Started", "ShuttingDown", "Shutdown"}]
    BY DEF Init, Statuses
  <2>2. queue \in [Consumers -> Waiting]
    <3>1. <<>> \in Waiting
      BY DEF Waiting
    <3> QED BY <3>1 DEF Init
  <2>3. consumerRef \in Int
    BY DEF Init
  <2>4. CallTypes
    BY DEF Init, CallTypes
  <2>5. MessageTypes
    BY DEF Init, MessageTypes
  <2> QED BY <2>1, <2>2, <2>3, <2>4, <2>5 DEF Shape, LifeTypes
<1>2. KeepAlive
  <2>1. {p \in Consumers : Live(p)} = {}
    BY DEF Init, Live
  <2>2. consumerRef = 0
    BY DEF Init
  <2>3. timer = FALSE
    BY DEF Init
  <2>4. timer \in BOOLEAN /\ ~timer
    BY <2>3, Zenon
  <2>5. ~(consumerRef > 0)
    BY <2>2
  <2>6. Twice = {}
    BY DEF Init, Twice
  <2>7. consumerRef = Cardinality({p \in Consumers : Live(p)}) - Cardinality(Twice)
    BY <2>1, <2>2, <2>6, FS_EmptySet
  <2> QED BY <2>4, <2>5, <2>7, Zenon DEF KeepAlive
<1>3. \A p \in Consumers : OpsOK(p) /\ LifeOK(p)
  <2>1. Len(<<>>) = 0
    OBVIOUS
  <2> QED BY <2>1 DEF Init, OpsOK, LifeOK
<1>4. \A c \in Calls : ThrownOK(c)
  BY DEF Init, ThrownOK
<1> QED BY <1>1, <1>2, <1>3, <1>4 DEF LifeInv

-----------------------------------------------------------------------------
(* A step moves one consumer.                                              *)

\* The other consumers are as they were, and a call stays what it was.
OthersKept(p) ==
    /\ \A q \in Consumers \ {p} :
         /\ status'[q] = status[q] /\ completed'[q] = completed[q] /\ ops'[q] = ops[q]
         /\ queue'[q] = queue[q] /\ running'[q] = running[q]
    /\ \A c \in Calls : kind[c] # "none" => kind'[c] = kind[c] /\ target'[c] = target[c]

\* No catch has run, and a callback that throws is that of a shutdown of p that is over.
ThrownKept(p) ==
    /\ completed[p] => completed'[p]
    /\ \A c \in Calls :
         \/ thrown'[c] = thrown[c]
         \/ /\ thrown[c] = "no" /\ thrown'[c] = "due" /\ kind[c] = "shutdown"
            /\ target[c] = p /\ completed'[p]

\* The shared count follows the consumer that moves.
CountFollows(p) ==
    \/ (Live(p)' <=> Live(p)) /\ UNCHANGED moduleVars
    \/ Live(p) /\ ~Live(p)' /\ DropRef
    \/ ~Live(p) /\ Live(p)' /\ AddRef

\* The consumer that moves goes on in its one-shot life, or stays where it is.
PhaseStep(p) ==
    \/ Phase(p)' = Phase(p)
    \/ Phase(p) = "new" /\ Phase(p)' = "starting"
    \/ Phase(p) = "starting" /\ Phase(p)' = "working"
    \/ Phase(p) = "working" /\ Phase(p)' = "stopping"
    \/ Phase(p) \in {"starting", "working", "stopping"} /\ Phase(p)' = "over"

Moves(p) ==
    /\ Shape' /\ OthersKept(p) /\ CountFollows(p) /\ OpsOK(p)' /\ LifeOK(p)'
    /\ PhaseStep(p) /\ ThrownKept(p)

\* What is counted is finite.
LEMMA CountsFinite ==
    /\ IsFiniteSet({q \in Consumers : Live(q)}) /\ Cardinality({q \in Consumers : Live(q)}) \in Nat
    /\ IsFiniteSet(Twice) /\ Cardinality(Twice) \in Nat
<1>1. {q \in Consumers : Live(q)} \subseteq Consumers /\ Twice \subseteq Calls
  BY DEF Twice
<1> QED BY <1>1, FiniteAssumption, FS_Subset, FS_CardinalityType

\* How the interval follows the count, whatever the count is.
LEMMA TimerFollows ==
    ASSUME consumerRef \in Int, timer \in BOOLEAN, timer <=> consumerRef > 0, DropRef \/ AddRef
    PROVE  timer' \in BOOLEAN /\ (timer' <=> consumerRef' > 0)
<1>1. CASE DropRef
  <2>1. consumerRef' = consumerRef - 1 /\ timer' = (timer /\ consumerRef' # 0)
    BY <1>1, Zenon DEF DropRef
  <2>2. consumerRef' > 0 <=> consumerRef > 0 /\ consumerRef' # 0
    BY <2>1
  <2> QED BY <2>1, <2>2, Zenon
<1>2. CASE AddRef
  <2>1. consumerRef' = consumerRef + 1 /\ timer' = (timer \/ consumerRef = 0)
    BY <1>2, Zenon DEF AddRef
  <2>2. consumerRef' > 0 <=> consumerRef > 0 \/ consumerRef = 0
    BY <2>1
  <2> QED BY <2>1, <2>2, Zenon
<1> QED BY <1>1, <1>2

\* The count is exact when it follows the one consumer that moved.
LEMMA CountKept ==
    ASSUME LifeInv, NEW p \in Consumers, Moves(p)
    PROVE  KeepAlive'
<1> DEFINE S == {q \in Consumers : Live(q)}
           T == {q \in Consumers : Live(q)'}
<1>1. /\ IsFiniteSet(S) /\ Cardinality(S) \in Nat /\ Cardinality(Twice) \in Nat
      /\ consumerRef \in Int
  BY CountsFinite DEF LifeInv, Shape, LifeTypes
<1>2. S \ {p} = T \ {p}
  BY DEF Moves, OthersKept, Live
<1>3. /\ consumerRef = Cardinality(S) - Cardinality(Twice)
      /\ timer \in BOOLEAN /\ (timer <=> consumerRef > 0)
  BY Zenon DEF LifeInv, KeepAlive
<1>4. Twice' = Twice
  BY DEF Moves, ThrownKept, Twice
<1> SUFFICES /\ consumerRef' = Cardinality(T) - Cardinality(Twice)
             /\ timer' \in BOOLEAN /\ (timer' <=> consumerRef' > 0)
  BY <1>4, Zenon DEF KeepAlive
<1>5. CASE (Live(p)' <=> Live(p)) /\ UNCHANGED moduleVars
  <2>1. S = T
    BY <1>2, <1>5
  <2>2. consumerRef' = consumerRef /\ timer' = timer
    BY <1>5
  <2> QED BY <2>1, <2>2, <1>3, Zenon
<1>6. CASE Live(p) /\ ~Live(p)' /\ DropRef
  <2>1. T = S \ {p} /\ p \in S
    BY <1>2, <1>6
  <2>2. Cardinality(T) = Cardinality(S) - 1
    BY <2>1, <1>1, FS_RemoveElement
  <2>3. consumerRef' = consumerRef - 1
    BY <1>6, Zenon DEF DropRef
  <2> HIDE DEF S, T
  <2>4. consumerRef' = Cardinality(T) - Cardinality(Twice)
    BY <2>2, <2>3, <1>1, <1>3
  <2> QED BY <1>1, <1>3, <1>6, <2>4, TimerFollows
<1>7. CASE ~Live(p) /\ Live(p)' /\ AddRef
  <2>1. T = S \cup {p} /\ p \notin S
    BY <1>2, <1>7
  <2>2. Cardinality(T) = Cardinality(S) + 1
    BY <2>1, <1>1, FS_AddElement
  <2>3. consumerRef' = consumerRef + 1
    BY <1>7, Zenon DEF AddRef
  <2> HIDE DEF S, T
  <2>4. consumerRef' = Cardinality(T) - Cardinality(Twice)
    BY <2>2, <2>3, <1>1, <1>3
  <2> QED BY <1>1, <1>3, <1>7, <2>4, TimerFollows
<1> QED BY <1>5, <1>6, <1>7 DEF Moves, CountFollows

\* A queue holds calls.
LEMMA Placed ==
    ASSUME NEW q \in Waiting
    PROVE  Len(q) \in Nat /\ \A i \in 1..Len(q) : q[i] \in Calls
BY DEF Waiting

\* The invariant holds when it holds for the one consumer that moved.
LEMMA MovesKeep ==
    ASSUME LifeInv, NEW p \in Consumers, Moves(p)
    PROVE  LifeInv' /\ \A q \in Consumers : PhaseStep(q)
<1>1. ASSUME NEW q \in Consumers \ {p} PROVE OpsOK(q)' /\ LifeOK(q)' /\ PhaseStep(q)
  <2>1. queue[q] \in Waiting /\ running[q] \in Calls \cup {None}
    BY DEF LifeInv, Shape, LifeTypes
  <2>2. \A i \in 1..Len(queue[q]) : queue[q][i] \in Calls
    BY <2>1, Placed
  <2>3. OpsOK(q) /\ LifeOK(q) /\ OthersKept(p)
    BY DEF LifeInv, Moves
  <2>4. PhaseStep(q)
    BY <2>3 DEF OthersKept, PhaseStep, Phase
  <2>5. OpsOK(q)'
    BY <2>3 DEF OthersKept, OpsOK
  <2>6. /\ \A i \in 1..Len(queue[q]) : /\ kind'[queue[q][i]] # "none"
                                       /\ target'[queue[q][i]] = q
        /\ running[q] # None => /\ kind'[running[q]] = kind[running[q]]
                                /\ kind[running[q]] # "none" /\ target'[running[q]] = q
    BY <2>1, <2>2, <2>3 DEF OthersKept, LifeOK
  <2>7. LifeOK(q)'
    BY <2>3, <2>6 DEF OthersKept, LifeOK
  <2> QED BY <2>4, <2>5, <2>7
<1>2. ASSUME NEW c \in Calls PROVE ThrownOK(c)'
  <2>1. ThrownOK(c) /\ OthersKept(p) /\ ThrownKept(p)
    BY DEF LifeInv, Moves
  <2>2. thrown'[c] # "no" => kind[c] = "shutdown" /\ target[c] \in Consumers
    BY <2>1 DEF ThrownOK, ThrownKept
  <2>3. thrown'[c] # "no" => kind'[c] = "shutdown" /\ target'[c] = target[c]
    BY <2>1, <2>2 DEF OthersKept
  <2>4. thrown'[c] # "no" => completed'[target[c]]
    BY <2>1, <2>2 DEF OthersKept, ThrownOK, ThrownKept
  <2> QED BY <2>2, <2>3, <2>4 DEF ThrownOK
<1> QED BY <1>1, <1>2, CountKept DEF Moves, LifeInv

-----------------------------------------------------------------------------
(* Steps of the calls and of the queue.                                    *)

\* What a queue whose head runs is made of.
LEMMA HeadAndTail ==
    ASSUME NEW q \in Waiting, q # <<>>
    PROVE  /\ Head(q) \in Calls /\ Head(q) = q[1] /\ 1 \in 1..Len(q)
           /\ Tail(q) \in Waiting /\ Len(Tail(q)) = Len(q) - 1 /\ Len(q) \in Nat \ {0}
           /\ \A i \in 1..Len(Tail(q)) : i + 1 \in 1..Len(q) /\ Tail(q)[i] = q[i + 1]
<1> USE DEF Waiting
<1>1. Len(q) \in Nat \ {0}
  OBVIOUS
<1>2. Tail(q) \in Waiting /\ Len(Tail(q)) = Len(q) - 1
  BY <1>1
<1>3. \A i \in 1..Len(Tail(q)) : i + 1 \in 1..Len(q) /\ Tail(q)[i] = q[i + 1]
  BY <1>1, <1>2
<1> QED BY <1>1, <1>2, <1>3

\* What a queue is made of that a call has joined.
LEMMA Joined ==
    ASSUME NEW q \in Waiting, NEW c \in Calls
    PROVE  /\ Append(q, c) \in Waiting /\ Len(Append(q, c)) = Len(q) + 1 /\ Len(q) \in Nat
           /\ \A i \in 1..Len(q) : Append(q, c)[i] = q[i] /\ q[i] \in Calls
           /\ Append(q, c)[Len(q) + 1] = c
BY DEF Waiting

\* A call that is made is refused or joins the queue.
LEMMA StartOrShutdownMoves ==
    ASSUME LifeInv, NEW p \in Consumers, NEW c \in Calls, NEW method \in {"start", "shutdown"},
           NEW m \in Messages \cup {None}, StartOrShutdown(p, c, method, m),
           waits' \in [Messages -> Calls \cup {None}]
    PROVE  Moves(p)
<1>0. LifeTypes /\ CallTypes /\ MessageTypes /\ OpsOK(p) /\ LifeOK(p)
  BY DEF LifeInv, Shape
<1> USE DEF LifeTypes
<1>1. /\ queue[p] \in Waiting /\ Len(queue[p]) \in Nat
      /\ \A i \in 1..Len(queue[p]) : queue[p][i] \in Calls
  BY <1>0, Placed
<1>2. /\ kind' \in [Calls -> {"none", "start", "shutdown"}] /\ kind[c] = "none"
      /\ kind'[c] = method /\ target'[c] = p
      /\ \A d \in Calls \ {c} : kind'[d] = kind[d] /\ target'[d] = target[d]
      /\ target' \in [Calls -> Consumers \cup {None}]
      /\ caller' \in [Calls -> Messages \cup {None}]
      /\ callerAcked' \in [Calls -> BOOLEAN]
  BY <1>0 DEF StartOrShutdown, Made, CallTypes
<1>3. /\ \A d \in Calls : kind[d] # "none" => kind'[d] = kind[d] /\ target'[d] = target[d]
      /\ \A i \in 1..Len(queue[p]) : /\ kind'[queue[p][i]] # "none"
                                     /\ target'[queue[p][i]] = p
      /\ running[p] # None => /\ kind'[running[p]] = kind[running[p]]
                              /\ kind[running[p]] # "none" /\ target'[running[p]] = p
  BY <1>0, <1>1, <1>2 DEF LifeOK
<1>4. MessageTypes' /\ UNCHANGED <<completed, running, native, consumerRef, timer, thrown>>
  BY <1>0 DEF StartOrShutdown, MessageTypes
<1>5. CASE ~QueueBusy(p) /\ RefusedAtOnce(p, method)
  <2>1. /\ reply' \in [Calls -> {"none", "ok", "error"}]
        /\ UNCHANGED <<status, ops, queue, initiated>>
    BY <1>0, <1>5 DEF StartOrShutdown, CallTypes
  <2>2. Shape'
    <3>1. LifeTypes'
      BY <1>0, <1>4, <2>1
    <3>2. CallTypes'
      BY <1>0, <1>2, <1>4, <2>1 DEF CallTypes
    <3> QED BY <1>4, <3>1, <3>2 DEF Shape
  <2>3. OthersKept(p) /\ CountFollows(p) /\ OpsOK(p)'
    BY <1>0, <1>3, <1>4, <2>1 DEF OthersKept, CountFollows, Live, OpsOK
  <2>4. LifeOK(p)'
    BY <1>0, <1>1, <1>3, <1>4, <2>1 DEF LifeOK
  <2>5. PhaseStep(p)
    BY <1>4, <2>1 DEF PhaseStep, Phase
  <2> QED BY <1>4, <2>2, <2>3, <2>4, <2>5 DEF Moves, ThrownKept
<1>6. CASE ~(~QueueBusy(p) /\ RefusedAtOnce(p, method))
  <2>1. /\ status' = IF QueueBusy(p) THEN status ELSE [status EXCEPT ![p] = Under(method)]
        /\ initiated' = [initiated EXCEPT ![c] = ~QueueBusy(p)]
        /\ ops' = [ops EXCEPT ![p] = @ + 1] /\ queue' = [queue EXCEPT ![p] = Append(@, c)]
        /\ UNCHANGED reply
    BY <1>6 DEF StartOrShutdown
  <2>2. queue'[p] = Append(queue[p], c)
    BY <1>0, <2>1
  <2>3. /\ queue'[p] \in Waiting /\ Len(queue'[p]) = Len(queue[p]) + 1
        /\ \A i \in 1..Len(queue[p]) : queue'[p][i] = queue[p][i] /\ queue[p][i] \in Calls
        /\ queue'[p][Len(queue[p]) + 1] = c
    BY <2>2, <1>1, Joined
  <2>4. queue' \in [Consumers -> Waiting]
    BY <1>0, <2>1, <2>2, <2>3
  <2>5. status' \in [Consumers -> Statuses]
    BY <1>0, <2>1 DEF Under, Statuses
  <2>6. Shape'
    <3>1. LifeTypes'
      BY <1>0, <1>4, <2>1, <2>4, <2>5
    <3>2. initiated' \in [Calls -> BOOLEAN]
      BY <1>0, <2>1 DEF CallTypes
    <3>3. CallTypes'
      BY <1>0, <1>2, <1>4, <2>1, <3>2 DEF CallTypes
    <3> QED BY <1>4, <3>1, <3>3 DEF Shape
  <2>7. OthersKept(p)
    BY <1>0, <1>3, <1>4, <2>1 DEF OthersKept
  <2>8. OpsOK(p)'
    BY <1>0, <1>1, <1>4, <2>1, <2>2, <2>3 DEF OpsOK
  <2>9. ~completed[p] /\ ops[p] = 0 => running[p] = None
    BY <1>0, <1>1 DEF OpsOK
  <2>10. ~QueueBusy(p) => ops[p] = 0
    BY <1>0 DEF QueueBusy
  <2>11. ~QueueBusy(p) =>
          \/ method = "start" /\ status[p] = "STOPPED" /\ ~completed[p] /\ status'[p] = "STARTING"
          \/ method = "shutdown" /\ Live(p) /\ status'[p] = "STOPPING"
    BY <1>0, <1>6, <2>1 DEF RefusedAtOnce, Live, Statuses, Under
  <2>12. QueueBusy(p) => status'[p] = status[p] /\ ops[p] > 0
    BY <1>0, <2>1 DEF QueueBusy
  <2>13. CountFollows(p)
    BY <1>0, <1>4, <2>11, <2>12 DEF CountFollows, Live
  <2>14. ASSUME NEW i \in 1..Len(queue'[p])
         PROVE  kind'[queue'[p][i]] # "none" /\ target'[queue'[p][i]] = p
    <3>1. i \in 1..Len(queue[p]) \/ i = Len(queue[p]) + 1
      BY <1>1, <2>3
    <3> QED BY <3>1, <1>2, <1>3, <2>3
  <2>15. running[p] # None => /\ kind'[running[p]] # "none" /\ target'[running[p]] = p
                              /\ status'[p] = Under(kind'[running[p]])
    <3>1. ~QueueBusy(p) => ~completed[p]
      BY <1>0, <2>11 DEF LifeOK, Live
    <3> QED BY <1>0, <1>3, <2>9, <2>10, <2>12, <3>1 DEF LifeOK
  <2>16. LifeOK(p)'
    <3>1. completed'[p] => status'[p] = "STOPPED"
      BY <1>0, <1>4, <2>11, <2>12 DEF LifeOK, Live
    <3>2. status'[p] = "STOPPED" /\ ~completed'[p] => FALSE
      BY <1>0, <1>4, <2>11, <2>12 DEF LifeOK
    <3>3. running' = running
      BY <1>4
    <3> QED BY <2>14, <2>15, <3>1, <3>2, <3>3 DEF LifeOK
  <2>17. PhaseStep(p)
    BY <1>0, <1>4, <2>11, <2>12 DEF PhaseStep, Phase, LifeOK, Live
  <2> QED BY <1>4, <2>6, <2>7, <2>8, <2>13, <2>16, <2>17 DEF Moves, ThrownKept
<1> QED BY <1>5, <1>6

\* The callback of a shutdown that ends may throw, for the first time.
CatchQueuedAtMost(c) ==
    \/ UNCHANGED thrown
    \/ kind[c] = "shutdown" /\ thrown[c] = "no" /\ thrown' = [thrown EXCEPT ![c] = "due"]

\* An operation that ends: its call left the queue, and it is told the outcome.
LEMMA FinishMoves ==
    ASSUME LifeInv, NEW p \in Consumers, NEW c \in Calls, NEW ok \in BOOLEAN, Finish(p, c, ok),
           kind[c] = "shutdown" => Live(p), kind[c] = "start" => ~Live(p) /\ ~completed[p],
           kind[c] # "none", queue' \in [Consumers -> Waiting],
           \A q \in Consumers \ {p} : queue'[q] = queue[q],
           ops[p] = Len(queue'[p]) + 1,
           \A i \in 1..Len(queue'[p]) : /\ queue'[p][i] \in Calls /\ kind[queue'[p][i]] # "none"
                                        /\ target[queue'[p][i]] = p,
           native' \in [Consumers -> {"Idle", "Starting", "Started", "ShuttingDown", "Shutdown"}],
           initiated' \in [Calls -> BOOLEAN], CatchQueuedAtMost(c),
           target[c] = p, UNCHANGED <<kind, target, caller, callerAcked, messageVars>>
    PROVE  Moves(p) /\ completed'[p] \in BOOLEAN /\ (kind[c] = "shutdown" => completed'[p])
<1>0. LifeTypes /\ CallTypes /\ MessageTypes /\ OpsOK(p) /\ LifeOK(p)
  BY DEF LifeInv, Shape
<1>1. Len(queue'[p]) \in Nat
  BY Placed
<1>2. /\ status' = [status EXCEPT ![p] = IF kind[c] = "start" /\ ok THEN "STARTED" ELSE "STOPPED"]
      /\ completed' = [completed EXCEPT ![p] = @ \/ Completes(c, ok)]
      /\ reply' = [reply EXCEPT ![c] = IF ok THEN "ok" ELSE "error"]
      /\ running' = [running EXCEPT ![p] = None]
      /\ ops' = [ops EXCEPT ![p] = IF @ = 0 THEN 0 ELSE @ - 1]
  BY DEF Finish, FinalizeQueue, CountedOff
<1>3. \/ kind[c] = "shutdown" /\ DropRef /\ AcksForgotten(p)
      \/ kind[c] = "start" /\ ok /\ AddRef /\ UNCHANGED <<outstanding, generation>>
      \/ kind[c] = "start" /\ ~ok /\ UNCHANGED <<consumerRef, timer, outstanding, generation>>
  BY <1>0 DEF Finish, CallTypes
<1>4. consumerRef' \in Int
  BY <1>0, <1>3 DEF LifeTypes, DropRef, AddRef
<1>5. MessageTypes'
  <2>1. outstanding' \in [Consumers -> Int] /\ generation' \in [Consumers -> Nat]
    <3>1. CASE AcksForgotten(p)
      <4>1. generation[p] + 1 \in Nat
        BY <1>0 DEF MessageTypes
      <4> QED BY <1>0, <3>1, <4>1 DEF MessageTypes, AcksForgotten
    <3>2. CASE UNCHANGED <<outstanding, generation>>
      BY <1>0, <3>2 DEF MessageTypes
    <3> QED BY <1>3, <3>1, <3>2
  <2> QED BY <1>0, <2>1 DEF MessageTypes
<1>6. completed' \in [Consumers -> BOOLEAN]
  BY <1>0, <1>2 DEF LifeTypes
<1>7. /\ status'[p] = IF kind[c] = "start" /\ ok THEN "STARTED" ELSE "STOPPED"
      /\ (completed'[p] <=> completed[p] \/ Completes(c, ok))
      /\ running'[p] = None /\ ops'[p] = Len(queue'[p])
  <2>1. completed'[p] = (completed[p] \/ Completes(c, ok))
    BY <1>0, <1>2, Zenon DEF LifeTypes
  <2>2. completed'[p] <=> completed[p] \/ Completes(c, ok)
    BY <2>1, Zenon
  <2>3. /\ status'[p] = IF kind[c] = "start" /\ ok THEN "STARTED" ELSE "STOPPED"
        /\ running'[p] = None /\ ops'[p] = Len(queue'[p])
    BY <1>0, <1>1, <1>2 DEF LifeTypes
  <2> QED BY <2>2, <2>3
<1>8. Shape'
  <2>1. LifeTypes'
    BY <1>0, <1>1, <1>2, <1>4, <1>6 DEF LifeTypes, Statuses
  <2>2. thrown' \in [Calls -> {"no", "due", "done"}]
    BY <1>0 DEF CallTypes, CatchQueuedAtMost
  <2>3. CallTypes'
    BY <1>0, <1>2, <2>2 DEF CallTypes
  <2> QED BY <1>5, <2>1, <2>3 DEF Shape
<1>9. OthersKept(p)
  BY <1>0, <1>2 DEF OthersKept, LifeTypes
<1>10. OpsOK(p)'
  BY <1>1, <1>7 DEF OpsOK
<1>11. /\ kind[c] = "start" /\ ok => status'[p] = "STARTED" /\ ~completed'[p]
       /\ ~(kind[c] = "start" /\ ok) => status'[p] = "STOPPED" /\ completed'[p]
  BY <1>0, <1>7 DEF Completes, CallTypes
<1>12. CountFollows(p)
  BY <1>3, <1>11 DEF CountFollows, Live
<1>13. LifeOK(p)'
  BY <1>7, <1>11 DEF LifeOK
<1>14. PhaseStep(p)
  <2>1. status[p] = "STOPPED" => completed[p]
    BY <1>0, <1>1 DEF LifeOK
  <2>2. kind[c] = "start" => status[p] = "STARTING" /\ ~completed[p]
    BY <1>0, <2>1 DEF LifeTypes, Statuses, Live
  <2>3. kind[c] = "shutdown" => status[p] \in {"STARTED", "STOPPING"} /\ ~completed[p]
    BY <1>0 DEF LifeOK, Live
  <2>4. kind[c] \in {"start", "shutdown"}
    BY <1>0 DEF CallTypes
  <2>5. CASE kind[c] = "start" /\ ok
    BY <1>11, <2>2, <2>5 DEF PhaseStep, Phase
  <2>6. CASE ~(kind[c] = "start" /\ ok)
    <3>1. Phase(p) \in {"starting", "working", "stopping"}
      BY <2>2, <2>3, <2>4 DEF Phase
    <3>2. Phase(p)' = "over"
      BY <1>11, <2>6 DEF Phase
    <3> QED BY <3>1, <3>2 DEF PhaseStep
  <2> QED BY <2>5, <2>6
<1>15. completed'[p] \in BOOLEAN /\ (kind[c] = "shutdown" => completed'[p])
  BY <1>6, <1>11
<1>16. ThrownKept(p)
  <2>1. completed[p] => completed'[p]
    BY <1>7
  <2>2. ASSUME NEW d \in Calls, d # c PROVE thrown'[d] = thrown[d]
    BY <1>0, <2>2 DEF CallTypes, CatchQueuedAtMost
  <2>3. \/ thrown'[c] = thrown[c]
        \/ thrown[c] = "no" /\ thrown'[c] = "due" /\ kind[c] = "shutdown"
    BY <1>0 DEF CallTypes, CatchQueuedAtMost
  <2> QED BY <1>15, <2>1, <2>2, <2>3 DEF ThrownKept
<1> QED BY <1>8, <1>9, <1>10, <1>12, <1>13, <1>14, <1>15, <1>16 DEF Moves

\* What is true when the head of the queue runs.
LEMMA HeadFacts ==
    ASSUME LifeInv, NEW p \in Consumers, NEW c \in Calls, HeadMayRun(p, c),
           queue' = [queue EXCEPT ![p] = Tail(@)]
    PROVE  /\ queue' \in [Consumers -> Waiting] /\ kind[c] # "none" /\ target[c] = p /\ running[p] = None
           /\ \A q \in Consumers \ {p} : queue'[q] = queue[q]
           /\ Len(queue'[p]) \in Nat /\ (~completed[p] => ops[p] = Len(queue'[p]) + 1)
           /\ \A i \in 1..Len(queue'[p]) : /\ queue'[p][i] \in Calls /\ kind[queue'[p][i]] # "none"
                                        /\ target[queue'[p][i]] = p
<1>0. LifeTypes /\ OpsOK(p) /\ LifeOK(p)
  BY DEF LifeInv, Shape
<1>1. queue[p] \in Waiting /\ queue[p] # <<>> /\ queue'[p] = Tail(queue[p]) /\ c = Head(queue[p])
  BY <1>0 DEF LifeTypes, HeadMayRun
<1>2. /\ Head(queue[p]) = queue[p][1] /\ 1 \in 1..Len(queue[p]) /\ Len(queue[p]) \in Nat \ {0}
      /\ Tail(queue[p]) \in Waiting /\ Len(Tail(queue[p])) = Len(queue[p]) - 1
      /\ \A i \in 1..Len(Tail(queue[p])) : /\ i + 1 \in 1..Len(queue[p])
                                           /\ Tail(queue[p])[i] = queue[p][i + 1]
  BY <1>1, HeadAndTail
<1>3. queue' \in [Consumers -> Waiting] /\ \A q \in Consumers \ {p} : queue'[q] = queue[q]
  BY <1>0, <1>1, <1>2 DEF LifeTypes
<1>4. kind[c] # "none" /\ target[c] = p /\ running[p] = None
  BY <1>0, <1>1, <1>2 DEF LifeOK, HeadMayRun
<1>5. Len(queue'[p]) \in Nat /\ (~completed[p] => ops[p] = Len(queue'[p]) + 1)
  <2>1. ~completed[p] => ops[p] = Len(queue[p])
    BY <1>0, <1>2, <1>4 DEF OpsOK
  <2>2. Len(queue'[p]) = Len(queue[p]) - 1
    BY <1>1, <1>2
  <2> QED BY <1>2, <2>1, <2>2
<1>6. \A i \in 1..Len(queue'[p]) : /\ queue'[p][i] \in Calls /\ kind[queue'[p][i]] # "none"
                                        /\ target[queue'[p][i]] = p
  <2>1. \A i \in 1..Len(queue[p]) : queue[p][i] \in Calls
    BY <1>1, Placed
  <2> QED BY <1>0, <1>1, <1>2, <2>1 DEF LifeOK
<1> QED BY <1>3, <1>4, <1>5, <1>6

\* The head of the queue is refused.
LEMMA RunRefusedMoves ==
    ASSUME LifeInv, NEW p \in Consumers, NEW c \in Calls, RunRefused(p, c)
    PROVE  Moves(p)
<1>0. LifeTypes /\ CallTypes /\ MessageTypes /\ OpsOK(p) /\ LifeOK(p)
  BY DEF LifeInv, Shape
<1>1. /\ HeadMayRun(p, c) /\ queue' = [queue EXCEPT ![p] = Tail(@)]
      /\ ops' = [ops EXCEPT ![p] = IF @ = 0 THEN 0 ELSE @ - 1]
      /\ reply' = [reply EXCEPT ![c] = "error"]
      /\ UNCHANGED <<status, completed, running, native, consumerRef, timer, kind, target,
                     initiated, caller, callerAcked, thrown, outstanding, generation, owner, gen,
                     ack, waits>>
  BY DEF RunRefused, CountedOff
<1>2. /\ queue' \in [Consumers -> Waiting] /\ running[p] = None
      /\ \A q \in Consumers \ {p} : queue'[q] = queue[q]
      /\ Len(queue'[p]) \in Nat /\ (~completed[p] => ops[p] = Len(queue'[p]) + 1)
      /\ \A i \in 1..Len(queue'[p]) : /\ queue'[p][i] \in Calls /\ kind[queue'[p][i]] # "none"
                                      /\ target[queue'[p][i]] = p
  BY <1>1, HeadFacts
<1>3. ops'[p] \in Nat /\ (~completed[p] => ops'[p] = Len(queue'[p]))
  BY <1>0, <1>1, <1>2 DEF LifeTypes
<1>4. Shape'
  BY <1>0, <1>1, <1>2, <1>3 DEF Shape, LifeTypes, CallTypes, MessageTypes
<1>5. OthersKept(p) /\ CountFollows(p) /\ OpsOK(p)'
  BY <1>0, <1>1, <1>2, <1>3 DEF OthersKept, CountFollows, OpsOK, Live, LifeTypes
<1>6. LifeOK(p)'
  BY <1>0, <1>1, <1>2, <1>3 DEF LifeOK
<1>7. PhaseStep(p) /\ ThrownKept(p)
  BY <1>1 DEF PhaseStep, Phase, ThrownKept
<1> QED BY <1>4, <1>5, <1>6, <1>7 DEF Moves

\* The head of the queue is handed to the native consumer.
LEMMA RunAcceptedMoves ==
    ASSUME LifeInv, NEW p \in Consumers, NEW c \in Calls, RunAccepted(p, c)
    PROVE  Moves(p)
<1>0. LifeTypes /\ CallTypes /\ MessageTypes /\ OpsOK(p) /\ LifeOK(p)
  BY DEF LifeInv, Shape
<1>1. /\ HeadMayRun(p, c) /\ queue' = [queue EXCEPT ![p] = Tail(@)]
      /\ running' = [running EXCEPT ![p] = c]
      /\ status' = [status EXCEPT ![p] = Under(kind[c])]
      /\ initiated' = [initiated EXCEPT ![c] = TRUE]
      /\ native' = [native EXCEPT ![p] = IF kind[c] = "start" THEN "Starting" ELSE "ShuttingDown"]
      /\ ~Refused(p, c)
      /\ UNCHANGED <<completed, ops, consumerRef, timer, kind, target, caller, callerAcked, reply,
                     thrown, outstanding, generation, owner, gen, ack, waits>>
  BY DEF RunAccepted
<1>2. /\ queue' \in [Consumers -> Waiting] /\ running[p] = None
      /\ kind[c] # "none" /\ target[c] = p
      /\ \A q \in Consumers \ {p} : queue'[q] = queue[q]
      /\ Len(queue'[p]) \in Nat /\ (~completed[p] => ops[p] = Len(queue'[p]) + 1)
      /\ \A i \in 1..Len(queue'[p]) : /\ queue'[p][i] \in Calls /\ kind[queue'[p][i]] # "none"
                                      /\ target[queue'[p][i]] = p
  BY <1>1, HeadFacts
<1>3. status'[p] = Under(kind[c]) /\ running'[p] = c /\ c # None
  BY <1>0, <1>1, NoneAssumption DEF LifeTypes
<1>4. Shape'
  <2>1. /\ status' \in [Consumers -> Statuses]
        /\ native' \in [Consumers -> {"Idle", "Starting", "Started", "ShuttingDown", "Shutdown"}]
    BY <1>0, <1>1 DEF LifeTypes, Under, Statuses
  <2>2. LifeTypes'
    BY <1>0, <1>1, <1>2, <2>1 DEF LifeTypes
  <2>3. CallTypes' /\ MessageTypes'
    BY <1>0, <1>1 DEF CallTypes, MessageTypes
  <2> QED BY <2>2, <2>3 DEF Shape
<1>5. OthersKept(p) /\ OpsOK(p)'
  BY <1>0, <1>1, <1>2, <1>3 DEF OthersKept, OpsOK, LifeTypes
<1>6. ~completed[p] /\ (Live(p)' <=> Live(p)) /\ status'[p] # "STOPPED"
  BY <1>0, <1>1, <1>3 DEF LifeOK, LifeTypes, Statuses, Live, Refused, Under
<1>7. LifeOK(p)'
  BY <1>0, <1>1, <1>2, <1>3, <1>6 DEF LifeOK
<1>8. PhaseStep(p)
  <2>1. status[p] = "STOPPED" => completed[p]
    BY <1>0, <1>2, <1>6 DEF LifeOK
  <2> QED BY <1>0, <1>1, <1>3, <1>6, <2>1
          DEF PhaseStep, Phase, LifeTypes, Statuses, Refused, Under
<1> QED BY <1>1, <1>4, <1>5, <1>6, <1>7, <1>8 DEF Moves, CountFollows, ThrownKept

\* The native consumer refuses the head of the queue.
LEMMA RunThrowsMoves ==
    ASSUME LifeInv, NEW p \in Consumers, NEW c \in Calls, RunThrows(p, c)
    PROVE  Moves(p) /\ kind[c] # "none" /\ (kind[c] = "shutdown" => completed'[p])
<1>0. LifeTypes /\ CallTypes /\ LifeOK(p)
  BY DEF LifeInv, Shape
<1>1. /\ HeadMayRun(p, c) /\ queue' = [queue EXCEPT ![p] = Tail(@)]
      /\ Finish(p, c, FALSE) /\ ~Refused(p, c)
      /\ UNCHANGED <<native, kind, target, caller, callerAcked, thrown, messageVars>>
  BY DEF RunThrows
<1>2. /\ native' \in [Consumers -> {"Idle", "Starting", "Started", "ShuttingDown", "Shutdown"}]
      /\ initiated' \in [Calls -> BOOLEAN]
  BY <1>0, <1>1 DEF RunThrows, LifeTypes, CallTypes
<1>3. /\ kind[c] = "shutdown" => Live(p)
      /\ kind[c] = "start" => ~Live(p) /\ ~completed[p]
  BY <1>0, <1>1 DEF LifeTypes, Statuses, Refused, Live
<1>5. ~completed[p]
  BY <1>0, <1>1 DEF LifeTypes, Statuses, Refused, LifeOK
<1>4. /\ queue' \in [Consumers -> Waiting] /\ kind[c] # "none" /\ target[c] = p
      /\ \A q \in Consumers \ {p} : queue'[q] = queue[q]
      /\ ops[p] = Len(queue'[p]) + 1
      /\ \A i \in 1..Len(queue'[p]) : /\ queue'[p][i] \in Calls /\ kind[queue'[p][i]] # "none"
                                      /\ target[queue'[p][i]] = p
  BY <1>1, <1>5, HeadFacts
<1>6. CatchQueuedAtMost(c)
  BY <1>1 DEF CatchQueuedAtMost
<1>7. Moves(p) /\ (kind[c] = "shutdown" => completed'[p])
  <2> PICK ok \in BOOLEAN : ok = FALSE
    OBVIOUS
  <2>1. Finish(p, c, ok)
    BY <1>1
  <2> QED BY <1>1, <1>2, <1>3, <1>4, <1>5, <1>6, <2>1, FinishMoves
<1> QED BY <1>4, <1>7

\* An operation that was handed to the native consumer ends.
LEMMA RunningEnds ==
    ASSUME LifeInv, NEW p \in Consumers, NEW ok \in BOOLEAN, running[p] # None,
           Finish(p, running[p], ok), CatchQueuedAtMost(running[p]),
           native' \in [Consumers -> {"Idle", "Starting", "Started", "ShuttingDown", "Shutdown"}],
           UNCHANGED <<queue, initiated, kind, target, caller, callerAcked, messageVars>>
    PROVE  /\ Moves(p) /\ running[p] \in Calls /\ kind[running[p]] # "none"
           /\ target[running[p]] = p /\ ~completed[p]
           /\ kind[running[p]] = "shutdown" => completed'[p]
<1> DEFINE c == running[p]
<1>0. LifeTypes /\ CallTypes /\ OpsOK(p) /\ LifeOK(p)
  BY DEF LifeInv, Shape
<1>1. /\ c \in Calls /\ kind[c] # "none" /\ target[c] = p /\ status[p] = Under(kind[c])
      /\ initiated' \in [Calls -> BOOLEAN]
  BY <1>0 DEF LifeTypes, LifeOK, CallTypes
<1>2. /\ queue[p] \in Waiting /\ Len(queue[p]) \in Nat
      /\ \A i \in 1..Len(queue[p]) : queue[p][i] \in Calls
  BY <1>0, Placed DEF LifeTypes
<1>3. ops[p] = Len(queue'[p]) + 1
  <2>1. ~completed[p]
    BY <1>0, <1>1 DEF LifeOK, Under
  <2> QED BY <1>0, <1>2, <2>1 DEF OpsOK
<1>4. /\ queue' \in [Consumers -> Waiting] /\ \A q \in Consumers \ {p} : queue'[q] = queue[q]
      /\ \A i \in 1..Len(queue'[p]) : /\ queue'[p][i] \in Calls /\ kind[queue'[p][i]] # "none"
                                      /\ target[queue'[p][i]] = p
  BY <1>0, <1>2 DEF LifeTypes, LifeOK
<1>5. /\ ~completed[p]
      /\ kind[c] = "shutdown" => Live(p)
      /\ kind[c] = "start" => ~Live(p)
  BY <1>0, <1>1 DEF LifeOK, Under, Live
<1>6. Finish(p, c, ok) /\ CatchQueuedAtMost(c)
  OBVIOUS
<1> HIDE DEF c
<1> SUFFICES Moves(p) /\ (kind[c] = "shutdown" => completed'[p])
  BY <1>1, <1>5 DEF c
<1> QED BY <1>1, <1>3, <1>4, <1>5, <1>6, FinishMoves

\* The count is exact as long as nobody changes what it counts.
LEMMA CountUntouched ==
    ASSUME KeepAlive, UNCHANGED <<status, consumerRef, timer, thrown>>
    PROVE  KeepAlive'
<1>1. /\ consumerRef' = consumerRef /\ Twice' = Twice
      /\ {p \in Consumers : Live(p)}' = {p \in Consumers : Live(p)}
  BY DEF Live, Twice
<1>2. timer' = timer
  OBVIOUS
<1>3. timer \in BOOLEAN /\ (timer <=> consumerRef > 0)
  BY Zenon DEF KeepAlive
<1>4. consumerRef' > 0 <=> consumerRef > 0
  BY <1>1
<1>5. timer' \in BOOLEAN /\ (timer' <=> consumerRef' > 0)
  <2>1. CASE timer = TRUE
    BY <1>2, <1>3, <1>4, <2>1, Zenon
  <2>2. CASE timer = FALSE
    BY <1>2, <1>3, <1>4, <2>2, Zenon
  <2> QED BY <1>3, <2>1, <2>2, Zenon
<1>6. consumerRef' = Cardinality({p \in Consumers : Live(p)}') - Cardinality(Twice')
  BY <1>1, Zenon DEF KeepAlive
<1> QED BY <1>5, <1>6, Zenon DEF KeepAlive

\* Messages, acks and the polls of a wait are nothing to the operations.
LEMMA LifeUntouched ==
    ASSUME LifeInv, MessageTypes', UNCHANGED <<status, completed, ops, queue, running>>,
           native' \in [Consumers -> {"Idle", "Starting", "Started", "ShuttingDown", "Shutdown"}],
           UNCHANGED <<moduleVars, callVars>>
    PROVE  LifeInv' /\ \A q \in Consumers : PhaseStep(q)
<1>1. Shape'
  BY DEF LifeInv, Shape, LifeTypes, CallTypes
<1>2. KeepAlive'
  BY CountUntouched DEF LifeInv
<1>3. ASSUME NEW q \in Consumers PROVE OpsOK(q)' /\ LifeOK(q)' /\ PhaseStep(q)
  <2>1. OpsOK(q) /\ LifeOK(q)
    BY DEF LifeInv
  <2>2. OpsOK(q)'
    BY <2>1 DEF OpsOK
  <2>3. LifeOK(q)'
    BY <2>1 DEF LifeOK
  <2>4. PhaseStep(q)
    BY DEF PhaseStep, Phase
  <2> QED BY <2>2, <2>3, <2>4
<1>4. \A c \in Calls : ThrownOK(c)'
  BY DEF LifeInv, ThrownOK
<1> QED BY <1>1, <1>2, <1>3, <1>4 DEF LifeInv

\* What the native consumer's return makes of its lifecycle.
LEMMA NativeReturnsTo ==
    ASSUME LifeInv, NEW p \in Consumers, NEW ok \in BOOLEAN, NativeReturns(p, ok)
    PROVE  /\ native' \in [Consumers -> {"Idle", "Starting", "Started", "ShuttingDown", "Shutdown"}]
           /\ native[p] # "Shutdown" /\ \A q \in Consumers \ {p} : native'[q] = native[q]
BY DEF LifeInv, Shape, LifeTypes, NativeReturns

\* The callback of a wait that ends has not been called before.
LEMMA WaitQueuesCatch ==
    ASSUME LifeInv, NEW p \in Consumers, WaitEnds(p)
    PROVE  CatchQueuedAtMost(running[p])
<1> PICK c : c = running[p]
  OBVIOUS
<1>1. /\ c \in Calls /\ kind[c] = "shutdown" /\ target[c] = p /\ status[p] = "STOPPING"
      /\ LifeOK(p) /\ ThrownOK(c)
  BY DEF WaitEnds, Draining, LifeInv, Shape, LifeTypes, LifeOK, Under
<1>2. ~completed[p]
  BY <1>1 DEF LifeOK
<1>3. thrown[c] = "no"
  BY <1>1, <1>2 DEF ThrownOK
<1> QED BY <1>1, <1>3 DEF WaitEnds, CatchQueuedAtMost

\* What the catch of a shutdown callback finds, and what it changes: the consumer is
\* over, and the catch only counts it off once more.
LEMMA CatchFacts ==
    ASSUME LifeInv, NEW c \in Calls, CatchRuns(c)
    PROVE  /\ target[c] \in Consumers /\ kind[c] = "shutdown" /\ completed[target[c]]
           /\ UNCHANGED <<status, completed, running, queue, native, initiated, kind, target,
                          caller, callerAcked, messageVars>>
           /\ ops' \in [Consumers -> Nat] /\ DropRef /\ AcksForgotten(target[c])
           /\ \A q \in Consumers \ {target[c]} : ops'[q] = ops[q]
           /\ reply' = [reply EXCEPT ![c] = "error"]
           /\ thrown[c] = "due" /\ thrown' = [thrown EXCEPT ![c] = "done"]
<1> PICK p : p = target[c]
  OBVIOUS
<1>1. LifeTypes /\ ThrownOK(c) /\ thrown[c] = "due"
  BY DEF LifeInv, Shape, CatchRuns
<1>2. p \in Consumers /\ kind[c] = "shutdown" /\ completed[p]
  BY <1>1 DEF ThrownOK
<1>3. status[p] = "STOPPED" /\ running[p] = None
  BY <1>2 DEF LifeInv, LifeOK, Under
<1>4. /\ status' = [status EXCEPT ![p] = "STOPPED"]
      /\ completed' = [completed EXCEPT ![p] = @ \/ Completes(c, FALSE)]
      /\ running' = [running EXCEPT ![p] = None]
      /\ ops' = [ops EXCEPT ![p] = IF @ = 0 THEN 0 ELSE @ - 1]
      /\ reply' = [reply EXCEPT ![c] = "error"]
      /\ DropRef /\ AcksForgotten(p)
  BY <1>2 DEF CatchRuns, Finish, FinalizeQueue, CountedOff
<1>5. status' = status /\ running' = running
  BY <1>1, <1>2, <1>3, <1>4 DEF LifeTypes
<1>6. completed' = completed
  <2>1. completed[p] = TRUE
    BY <1>1, <1>2 DEF LifeTypes
  <2> QED BY <1>1, <1>4, <2>1 DEF LifeTypes
<1>7. ops' \in [Consumers -> Nat] /\ \A q \in Consumers \ {p} : ops'[q] = ops[q]
  BY <1>1, <1>2, <1>4 DEF LifeTypes
<1> QED BY <1>1, <1>2, <1>4, <1>5, <1>6, <1>7 DEF CatchRuns

\* The catch of a shutdown callback keeps the invariant: the count goes down for good.
LEMMA CatchKeepsLife ==
    ASSUME LifeInv, NEW c \in Calls, CatchRuns(c), MessageTypes'
    PROVE  LifeInv' /\ \A q \in Consumers : PhaseStep(q)
<1>0. LifeTypes /\ CallTypes /\ KeepAlive
  BY DEF LifeInv, Shape
<1>1. /\ target[c] \in Consumers /\ kind[c] = "shutdown" /\ completed[target[c]]
      /\ UNCHANGED <<status, completed, running, queue, native, initiated, kind, target,
                     caller, callerAcked>>
      /\ ops' \in [Consumers -> Nat] /\ DropRef
      /\ \A q \in Consumers \ {target[c]} : ops'[q] = ops[q]
      /\ reply' = [reply EXCEPT ![c] = "error"]
      /\ thrown[c] = "due" /\ thrown' = [thrown EXCEPT ![c] = "done"]
  BY CatchFacts
<1>2. consumerRef' = consumerRef - 1
  BY <1>1, Zenon DEF DropRef
<1>3. Shape'
  <2>1. consumerRef' \in Int
    BY <1>0, <1>2 DEF LifeTypes
  <2>2. LifeTypes'
    BY <1>0, <1>1, <2>1 DEF LifeTypes
  <2>3. CallTypes'
    BY <1>0, <1>1 DEF CallTypes
  <2> QED BY <2>2, <2>3 DEF Shape
<1>4. KeepAlive'
  <2>1. Twice' = Twice \cup {c} /\ c \notin Twice
    BY <1>0, <1>1 DEF Twice, CallTypes
  <2>2. Cardinality(Twice') = Cardinality(Twice) + 1
    BY <2>1, CountsFinite, FS_AddElement
  <2>3. {q \in Consumers : Live(q)}' = {q \in Consumers : Live(q)}
    BY <1>1 DEF Live
  <2>4. consumerRef = Cardinality({q \in Consumers : Live(q)}) - Cardinality(Twice)
    BY <1>0, Zenon DEF KeepAlive
  <2> PICK a, b, d : /\ a = Cardinality({q \in Consumers : Live(q)}) /\ b = Cardinality(Twice)
                     /\ d = Cardinality(Twice')
    OBVIOUS
  <2>5. a \in Nat /\ b \in Nat /\ d = b + 1 /\ consumerRef = a - b
    BY <2>2, <2>4, CountsFinite
  <2>6. consumerRef' = a - d
    BY <1>2, <2>5
  <2>7. consumerRef' = Cardinality({q \in Consumers : Live(q)}') - Cardinality(Twice')
    BY <2>3, <2>6, Zenon
  <2>8. timer' \in BOOLEAN /\ (timer' <=> consumerRef' > 0)
    <3>1. timer \in BOOLEAN /\ (timer <=> consumerRef > 0) /\ consumerRef \in Int
      BY <1>0, Zenon DEF KeepAlive, LifeTypes
    <3> QED BY <1>1, <3>1, TimerFollows
  <2> QED BY <2>7, <2>8, Zenon DEF KeepAlive
<1>5. ASSUME NEW q \in Consumers PROVE OpsOK(q)' /\ LifeOK(q)' /\ PhaseStep(q)
  <2>1. OpsOK(q) /\ LifeOK(q)
    BY DEF LifeInv
  <2>2. OpsOK(q)'
    BY <1>1, <2>1 DEF OpsOK
  <2>3. LifeOK(q)'
    BY <1>1, <2>1 DEF LifeOK
  <2>4. PhaseStep(q)
    BY <1>1 DEF PhaseStep, Phase
  <2> QED BY <2>2, <2>3, <2>4
<1>6. ASSUME NEW d \in Calls PROVE ThrownOK(d)'
  BY <1>0, <1>1 DEF LifeInv, ThrownOK, CallTypes
<1> QED BY <1>3, <1>4, <1>5, <1>6 DEF LifeInv

\* The steps that leave messages and acks alone keep the invariant.
LEMMA OperationKeepsLife ==
    ASSUME LifeInv, NEW p \in Consumers,
           \/ \E c \in Calls : Start(p, c) \/ (\E m \in Callers : Shutdown(p, c, m)) \/ RunHead(p, c)
           \/ \E ok \in BOOLEAN : NativeReturns(p, ok)
           \/ WaitEnds(p) \/ WaitTimesOut(p)
    PROVE  LifeInv' /\ \A q \in Consumers : PhaseStep(q)
<1>0. LifeTypes /\ CallTypes /\ MessageTypes
  BY DEF LifeInv, Shape
<1>1. ASSUME NEW c \in Calls, Start(p, c) PROVE Moves(p)
  <2>1. StartOrShutdown(p, c, "start", None) /\ waits' \in [Messages -> Calls \cup {None}]
    BY <1>0, <1>1 DEF Start, MessageTypes
  <2> QED BY <2>1, StartOrShutdownMoves
<1>2. ASSUME NEW c \in Calls, NEW m \in Callers, Shutdown(p, c, m) PROVE Moves(p)
  <2>1. m \in Messages \cup {None}
    BY DEF Callers
  <2>2. StartOrShutdown(p, c, "shutdown", m) /\ waits' \in [Messages -> Calls \cup {None}]
    BY <1>0, <1>2, <2>1 DEF Shutdown, MessageTypes
  <2> QED BY <2>1, <2>2, StartOrShutdownMoves
<1>3. ASSUME NEW c \in Calls, RunHead(p, c) PROVE Moves(p)
  BY <1>3, RunRefusedMoves, RunAcceptedMoves, RunThrowsMoves DEF RunHead
<1>4. ASSUME NEW ok \in BOOLEAN, NativeReturns(p, ok)
      PROVE  LifeInv' /\ \A q \in Consumers : PhaseStep(q)
  <2>1. native' \in [Consumers -> {"Idle", "Starting", "Started", "ShuttingDown", "Shutdown"}]
    BY <1>4, NativeReturnsTo
  <2>2. /\ running[p] # None
        /\ UNCHANGED <<queue, initiated, kind, target, caller, callerAcked, thrown, messageVars>>
    BY <1>4 DEF NativeReturns
  <2>3. CASE kind[running[p]] = "shutdown" /\ ok
    <3>1. UNCHANGED <<status, completed, ops, running, countVars, moduleVars, reply>>
      BY <1>4, <2>3 DEF NativeReturns
    <3>2. MessageTypes'
      BY <1>0, <2>2, <3>1 DEF MessageTypes
    <3> QED BY <2>1, <2>2, <3>1, <3>2, LifeUntouched
  <2>4. CASE ~(kind[running[p]] = "shutdown" /\ ok)
    <3>1. Finish(p, running[p], ok)
      BY <1>4, <2>4 DEF NativeReturns
    <3> QED BY <2>1, <2>2, <3>1, RunningEnds, MovesKeep DEF CatchQueuedAtMost
  <2> QED BY <2>3, <2>4
<1>5. ASSUME NEW ok \in BOOLEAN, Draining(p), Finish(p, running[p], ok),
             CatchQueuedAtMost(running[p]), UNCHANGED <<queue, native, initiated, kind, target, caller, callerAcked, messageVars>>
      PROVE  Moves(p)
  <2>1. native' \in [Consumers -> {"Idle", "Starting", "Started", "ShuttingDown", "Shutdown"}]
    BY <1>0, <1>5 DEF LifeTypes
  <2>2. running[p] # None
    BY <1>5 DEF Draining
  <2> QED BY <1>5, <2>1, <2>2, RunningEnds
<1>6. CASE WaitEnds(p)
  BY <1>5, <1>6, MovesKeep, WaitQueuesCatch DEF WaitEnds
<1>7. CASE WaitTimesOut(p)
  BY <1>5, <1>7, MovesKeep DEF WaitTimesOut, CatchQueuedAtMost
<1> QED BY <1>1, <1>2, <1>3, <1>4, <1>6, <1>7, MovesKeep

-----------------------------------------------------------------------------
(* Messages and acks.                                                      *)

\* The messages outstandingAcks counts.
Counted(p) == {m \in Unacked(p) : gen[m] = generation[p]}

\* A message that was delivered has a consumer and one of its generations.
MessageOK(m) ==
    /\ ack[m] = "none" => owner[m] = None
    /\ ack[m] # "none" => owner[m] \in Consumers /\ gen[m] <= generation[owner[m]]

\* The first generation lasts until the consumer is over.
AckOK(p) ==
    /\ ~completed[p] => generation[p] = 0
    /\ outstanding[p] = Cardinality(Counted(p))

AckInv == (\A m \in Messages : MessageOK(m)) /\ \A p \in Consumers : AckOK(p)

\* No message has been delivered at first.
LEMMA AckInvInit == Init => AckInv
<1> SUFFICES ASSUME Init PROVE AckInv
  OBVIOUS
<1>1. \A m \in Messages : MessageOK(m)
  BY DEF Init, MessageOK
<1>2. ASSUME NEW p \in Consumers PROVE AckOK(p)
  <2>1. Counted(p) = {}
    BY DEF Init, Counted, Unacked
  <2>2. generation[p] = 0 /\ outstanding[p] = 0
    BY DEF Init
  <2> QED BY <2>1, <2>2, FS_EmptySet DEF AckOK
<1> QED BY <1>1, <1>2 DEF AckInv

\* The sets of messages are finite.
LEMMA MessagesFinite ==
    ASSUME NEW p \in Consumers
    PROVE  /\ IsFiniteSet(Counted(p)) /\ Cardinality(Counted(p)) \in Nat
           /\ IsFiniteSet(Unacked(p)) /\ Cardinality(Unacked(p)) \in Nat
<1>1. Counted(p) \subseteq Messages /\ Unacked(p) \subseteq Messages
  BY DEF Counted, Unacked
<1> QED BY <1>1, FiniteAssumption, FS_Subset, FS_CardinalityType

\* What a step that is about no message does to the acks of the consumer that moves.
Quiet(p) ==
    /\ UNCHANGED <<owner, gen, ack>> /\ \A q \in Consumers : completed[q] => completed'[q]
    /\ \/ UNCHANGED countVars
       \/ AcksForgotten(p) /\ completed'[p]

\* Such a step keeps the counts exact: a generation that ends has no successors.
LEMMA QuietKeeps ==
    ASSUME MessageTypes, AckInv, NEW p \in Consumers, Quiet(p)
    PROVE  AckInv'
<1>0. /\ owner \in [Messages -> Consumers \cup {None}] /\ gen \in [Messages -> Nat]
      /\ generation \in [Consumers -> Nat] /\ outstanding \in [Consumers -> Int]
  BY DEF MessageTypes
<1>1. UNCHANGED <<owner, gen, ack>> /\ \A q \in Consumers : completed[q] => completed'[q]
  BY DEF Quiet
<1>2. CASE UNCHANGED countVars
  BY <1>1, <1>2 DEF AckInv, MessageOK, AckOK, Counted, Unacked
<1>3. CASE AcksForgotten(p) /\ completed'[p]
  <2>1. /\ generation'[p] = generation[p] + 1 /\ outstanding'[p] = 0
        /\ \A q \in Consumers \ {p} : /\ generation'[q] = generation[q]
                                      /\ outstanding'[q] = outstanding[q]
    BY <1>0, <1>3 DEF AcksForgotten
  <2>2. ASSUME NEW m \in Messages PROVE MessageOK(m)'
    BY <1>0, <1>1, <2>1, NoneAssumption DEF AckInv, MessageOK
  <2>3. AckOK(p)'
    <3>1. Counted(p)' = {}
      <4> SUFFICES ASSUME NEW m \in Counted(p)' PROVE FALSE
        OBVIOUS
      <4>1. m \in Messages /\ owner[m] = p /\ ack[m] = "open" /\ gen[m] = generation[p] + 1
        BY <1>1, <2>1 DEF Counted, Unacked
      <4>2. gen[m] <= generation[p]
        BY <4>1 DEF AckInv, MessageOK
      <4> QED BY <1>0, <4>1, <4>2
    <3> QED BY <3>1, <1>3, <2>1, FS_EmptySet DEF AckOK
  <2>4. ASSUME NEW q \in Consumers \ {p} PROVE AckOK(q)'
    <3>1. Counted(q)' = Counted(q)
      BY <1>1, <2>1 DEF Counted, Unacked
    <3> QED BY <1>1, <2>1, <3>1 DEF AckInv, AckOK
  <2> QED BY <2>2, <2>3, <2>4 DEF AckInv
<1> QED BY <1>2, <1>3 DEF Quiet

\* A delivered message is counted.
LEMMA DeliverKeeps ==
    ASSUME MessageTypes, AckInv, NEW p \in Consumers, NEW m \in Messages, Deliver(p, m)
    PROVE  AckInv'
<1>0. /\ owner \in [Messages -> Consumers \cup {None}] /\ gen \in [Messages -> Nat]
      /\ ack \in [Messages -> {"none", "open", "acked"}]
      /\ generation \in [Consumers -> Nat] /\ outstanding \in [Consumers -> Int]
  BY DEF MessageTypes
<1>1. /\ ack[m] = "none" /\ ack'[m] = "open" /\ owner'[m] = p /\ gen'[m] = generation[p]
      /\ outstanding'[p] = outstanding[p] + 1 /\ owner[m] = None
      /\ \A n \in Messages \ {m} : ack'[n] = ack[n] /\ owner'[n] = owner[n] /\ gen'[n] = gen[n]
      /\ \A q \in Consumers \ {p} : outstanding'[q] = outstanding[q]
      /\ UNCHANGED <<completed, generation>>
  BY <1>0 DEF Deliver, AckInv, MessageOK
<1>2. \A n \in Messages : MessageOK(n)'
  BY <1>0, <1>1 DEF AckInv, MessageOK
<1>3. AckOK(p)'
  <2>1. Counted(p)' = Counted(p) \cup {m} /\ m \notin Counted(p)
    BY <1>1 DEF Counted, Unacked
  <2>2. Cardinality(Counted(p)') = Cardinality(Counted(p)) + 1
    BY <2>1, MessagesFinite, FS_AddElement
  <2> QED BY <1>1, <2>2 DEF AckInv, AckOK
<1>4. ASSUME NEW q \in Consumers \ {p} PROVE AckOK(q)'
  <2>1. Counted(q)' = Counted(q)
    BY <1>1, NoneAssumption DEF Counted, Unacked
  <2> QED BY <1>1, <2>1 DEF AckInv, AckOK
<1> QED BY <1>2, <1>3, <1>4 DEF AckInv

\* An ack is counted off when it is of the generation that still counts.
LEMMA AckDoneKeeps ==
    ASSUME MessageTypes, AckInv, NEW m \in Messages, AckDone(m)
    PROVE  AckInv'
<1>0. /\ owner \in [Messages -> Consumers \cup {None}] /\ gen \in [Messages -> Nat]
      /\ ack \in [Messages -> {"none", "open", "acked"}]
      /\ generation \in [Consumers -> Nat] /\ outstanding \in [Consumers -> Int]
  BY DEF MessageTypes
<1> PICK p \in Consumers : p = owner[m]
  BY <1>0 DEF AckDone, AckInv, MessageOK
<1>1. /\ ack[m] = "open" /\ ack'[m] = "acked" /\ p = owner[m]
      /\ outstanding'[p] = IF Counts(m) THEN outstanding[p] - 1 ELSE outstanding[p]
      /\ \A n \in Messages \ {m} : ack'[n] = ack[n]
      /\ \A q \in Consumers \ {p} : outstanding'[q] = outstanding[q]
      /\ UNCHANGED <<completed, generation, owner, gen>>
  BY <1>0 DEF AckDone, AckInv, MessageOK
<1>2. \A n \in Messages : MessageOK(n)'
  BY <1>0, <1>1 DEF AckInv, MessageOK
<1>3. AckOK(p)'
  <2>1. CASE Counts(m)
    <3>1. Counted(p)' = Counted(p) \ {m} /\ m \in Counted(p)
      BY <1>1, <2>1 DEF Counted, Unacked, Counts
    <3>2. Cardinality(Counted(p)') = Cardinality(Counted(p)) - 1
      BY <1>1, <3>1, MessagesFinite, FS_RemoveElement
    <3> QED BY <1>1, <2>1, <3>2 DEF AckInv, AckOK
  <2>2. CASE ~Counts(m)
    <3>1. Counted(p)' = Counted(p)
      BY <1>1, <2>2 DEF Counted, Unacked, Counts
    <3> QED BY <1>1, <2>2, <3>1 DEF AckInv, AckOK
  <2> QED BY <2>1, <2>2
<1>4. ASSUME NEW q \in Consumers \ {p} PROVE AckOK(q)'
  <2>1. Counted(q)' = Counted(q)
    BY <1>1 DEF Counted, Unacked
  <2> QED BY <1>1, <2>1 DEF AckInv, AckOK
<1> QED BY <1>2, <1>3, <1>4 DEF AckInv

-----------------------------------------------------------------------------
(* Calls and what they were told.                                          *)

\* A shutdown has waited for every handler but the one that called it, or for all but
\* one when that one has acked since.
Drained(c) ==
    \/ Unacked(target[c]) \subseteq {caller[c]}
    \/ /\ caller[c] # None /\ owner[caller[c]] = target[c]
       /\ ~callerAcked[c] /\ ack[caller[c]] = "acked"
       /\ Cardinality(Unacked(target[c])) = 1

CallOK(c) ==
    /\ caller[c] # None => ack[caller[c]] # "none"
    /\ caller[c] # None /\ callerAcked[c] => ack[caller[c]] = "acked"
    /\ kind[c] = "none" => reply[c] = "none"
    /\ kind[c] = "shutdown" /\ reply[c] = "ok" =>
         target[c] \in Consumers /\ native[target[c]] = "Shutdown" /\ Drained(c)

\* Time passes for messages: acks are not taken back, and a consumer whose native
\* consumer is shut down gets no more of them.
Ages ==
    /\ \A m \in Messages : /\ ack[m] = "acked" => ack'[m] = "acked"
                           /\ ack[m] # "none" => ack'[m] # "none"
                           /\ owner[m] # None => owner'[m] = owner[m]
    /\ \A q \in Consumers : native[q] = "Shutdown" => /\ native'[q] = "Shutdown"
                                                      /\ Unacked(q)' \subseteq Unacked(q)

\* A call that stays what it was, and is told at most an error or that it started.
CallKeeps(c) ==
    /\ kind'[c] = kind[c] /\ target'[c] = target[c]
    /\ caller'[c] = caller[c] /\ callerAcked'[c] = callerAcked[c]
    /\ reply'[c] # reply[c] => kind[c] # "none" /\ (kind[c] = "start" \/ reply'[c] = "error")

\* Such a call stays right.
LEMMA CallStaysRight ==
    ASSUME CallTypes, NEW c \in Calls, CallOK(c), Ages, CallKeeps(c)
    PROVE  CallOK(c)'
<1>1. kind[c] \in {"none", "start", "shutdown"} /\ caller[c] \in Messages \cup {None}
  BY DEF CallTypes
<1>2. /\ (caller[c] # None => ack[caller[c]] # "none")'
      /\ (caller[c] # None /\ callerAcked[c] => ack[caller[c]] = "acked")'
  BY <1>1 DEF CallOK, Ages, CallKeeps
<1>3. (kind[c] = "none" => reply[c] = "none")'
  BY DEF CallOK, CallKeeps
<1>4. ASSUME kind'[c] = "shutdown" /\ reply'[c] = "ok"
      PROVE  target'[c] \in Consumers /\ native'[target'[c]] = "Shutdown" /\ Drained(c)'
  <2> PICK q : q = target[c]
    OBVIOUS
  <2>1. /\ kind[c] = "shutdown" /\ reply[c] = "ok" /\ target'[c] = q /\ target[c] = q
        /\ caller'[c] = caller[c] /\ callerAcked'[c] = callerAcked[c]
    BY <1>4 DEF CallKeeps
  <2>2. q \in Consumers /\ native[q] = "Shutdown" /\ Drained(c)
    BY <2>1 DEF CallOK
  <2>3. native'[q] = "Shutdown" /\ Unacked(q)' \subseteq Unacked(q)
    BY <2>2 DEF Ages
  <2>4. Drained(c)'
    <3>1. CASE Unacked(q) \subseteq {caller[c]}
      <4>1. Unacked(q)' \subseteq {caller[c]}
        BY <2>3, <3>1
      <4>2. Unacked(target[c])' = Unacked(q)'
        BY <2>1 DEF Unacked
      <4> QED BY <2>1, <4>1, <4>2 DEF Drained
    <3>2. CASE /\ caller[c] # None /\ owner[caller[c]] = q
               /\ ~callerAcked[c] /\ ack[caller[c]] = "acked"
               /\ Cardinality(Unacked(q)) = 1
      <4>1. owner'[caller[c]] = q /\ ack'[caller[c]] = "acked"
        BY <1>1, <2>2, <3>2, NoneAssumption DEF Ages
      <4>2. IsFiniteSet(Unacked(q)) /\ IsFiniteSet(Unacked(q)') /\ Cardinality(Unacked(q)') \in Nat
        BY <2>2, <2>3, MessagesFinite, FS_Subset, FS_CardinalityType
      <4>3. Cardinality(Unacked(q)') <= 1
        BY <2>3, <3>2, <4>2, FS_Subset
      <4>4. Unacked(q)' = {} \/ Cardinality(Unacked(q)') = 1
        BY <4>2, <4>3, FS_EmptySet
      <4>5. Unacked(target[c])' = Unacked(q)'
        BY <2>1 DEF Unacked
      <4> QED BY <2>1, <3>2, <4>1, <4>4, <4>5 DEF Drained
    <3> QED BY <2>1, <2>2, <3>1, <3>2 DEF Drained
  <2> QED BY <2>1, <2>2, <2>3, <2>4
<1> QED BY <1>2, <1>3, <1>4 DEF CallOK

-----------------------------------------------------------------------------
(* The whole invariant.                                                    *)

Inv == LifeInv /\ AckInv /\ \A c \in Calls : CallOK(c)

\* Nothing has been called and no message been delivered at first.
LEMMA InvInit == Init => Inv
<1>1. Init => \A c \in Calls : CallOK(c)
  BY DEF Init, CallOK
<1> QED BY <1>1, LifeInvInit, AckInvInit DEF Inv

\* What a wait for acks knows: no generation but the first has ended.
LEMMA WaitFacts ==
    ASSUME Inv, NEW p \in Consumers, Draining(p)
    PROVE  /\ running[p] \in Calls /\ kind[running[p]] = "shutdown" /\ target[running[p]] = p
           /\ outstanding[p] = Cardinality(Unacked(p))
<1>1. LifeTypes /\ MessageTypes /\ LifeOK(p)
  BY DEF Inv, LifeInv, Shape
<1>2. /\ running[p] \in Calls /\ kind[running[p]] = "shutdown" /\ target[running[p]] = p
      /\ status[p] = "STOPPING"
  BY <1>1 DEF Draining, LifeTypes, LifeOK, Under
<1>3. generation[p] = 0 /\ outstanding[p] = Cardinality(Counted(p))
  BY <1>1, <1>2 DEF LifeOK, Inv, AckInv, AckOK
<1>4. Counted(p) = Unacked(p)
  <2>1. \A m \in Unacked(p) : gen[m] <= generation[owner[m]] /\ owner[m] = p /\ m \in Messages
    BY DEF Unacked, Inv, AckInv, MessageOK
  <2>2. \A m \in Unacked(p) : gen[m] = 0
    BY <1>1, <1>3, <2>1 DEF MessageTypes
  <2> QED BY <1>3, <2>2 DEF Counted
<1> QED BY <1>2, <1>3, <1>4

\* The end of an operation ends a generation only with the consumer.
LEMMA FinishIsQuiet ==
    ASSUME LifeTypes, CallTypes, NEW p \in Consumers, NEW c \in Calls, NEW ok \in BOOLEAN,
           kind[c] # "none", Finish(p, c, ok), UNCHANGED messageVars
    PROVE  Quiet(p) /\ reply' = [reply EXCEPT ![c] = IF ok THEN "ok" ELSE "error"]
<1>1. /\ completed \in [Consumers -> BOOLEAN]
      /\ completed' = [completed EXCEPT ![p] = @ \/ Completes(c, ok)]
  BY DEF Finish, LifeTypes
<1>2. completed'[p] = (completed[p] \/ Completes(c, ok))
  BY <1>1, Zenon
<1>3. completed'[p] <=> completed[p] \/ Completes(c, ok)
  BY <1>2, Zenon
<1>4. \A q \in Consumers \ {p} : completed'[q] = completed[q]
  BY <1>1
<1>5. \A q \in Consumers : completed[q] => completed'[q]
  BY <1>3, <1>4, Zenon
<1>6. kind[c] = "shutdown" => AcksForgotten(p) /\ completed'[p]
  BY <1>3 DEF Finish, Completes
<1>7. kind[c] # "shutdown" => UNCHANGED countVars
  BY DEF Finish, CallTypes
<1> QED BY <1>5, <1>6, <1>7 DEF Quiet, Finish

\* The steps that leave messages alone forget acks only with the consumer.
LEMMA OperationIsQuiet ==
    ASSUME Inv, NEW p \in Consumers,
           \/ \E c \in Calls : Start(p, c) \/ (\E m \in Callers : Shutdown(p, c, m)) \/ RunHead(p, c)
           \/ \E ok \in BOOLEAN : NativeReturns(p, ok)
           \/ WaitEnds(p) \/ WaitTimesOut(p)
    PROVE  Quiet(p) /\ Ages
<1>0. LifeTypes /\ CallTypes /\ LifeOK(p)
  BY DEF Inv, LifeInv, Shape
<1>1. ASSUME UNCHANGED <<owner, gen, ack>>,
             \A q \in Consumers : native[q] = "Shutdown" => native'[q] = "Shutdown"
      PROVE  Ages
  BY <1>1 DEF Ages, Unacked
<1>2. ASSUME NEW c \in Calls, NEW m, NEW method, StartOrShutdown(p, c, method, m)
      PROVE  Quiet(p) /\ Ages
  BY <1>1, <1>2 DEF StartOrShutdown, Quiet
<1>3. ASSUME NEW c \in Calls, RunRefused(p, c) PROVE Quiet(p) /\ Ages
  BY <1>1, <1>3 DEF RunRefused, Quiet
<1>4. ASSUME NEW c \in Calls, RunAccepted(p, c) PROVE Quiet(p) /\ Ages
  <2>1. native[p] # "Shutdown" /\ \A q \in Consumers \ {p} : native'[q] = native[q]
    BY <1>0, <1>4 DEF RunAccepted, LifeTypes
  <2> QED BY <1>1, <1>4, <2>1 DEF RunAccepted, Quiet
<1>5. ASSUME NEW c \in Calls, RunThrows(p, c) PROVE Quiet(p) /\ Ages
  <2>1. kind[c] # "none" /\ Finish(p, c, FALSE) /\ UNCHANGED <<native, messageVars>>
    BY <1>5, RunThrowsMoves DEF RunThrows, Inv
  <2> QED BY <1>0, <1>1, <2>1, FinishIsQuiet
<1>6. ASSUME NEW ok \in BOOLEAN, NativeReturns(p, ok) PROVE Quiet(p) /\ Ages
  <2>1. native[p] # "Shutdown" /\ \A q \in Consumers \ {p} : native'[q] = native[q]
    BY <1>6, NativeReturnsTo DEF Inv
  <2>2. running[p] \in Calls /\ kind[running[p]] # "none" /\ UNCHANGED messageVars
    BY <1>0, <1>6 DEF NativeReturns, LifeTypes, LifeOK
  <2>3. Ages
    BY <1>1, <2>1, <2>2
  <2>4. UNCHANGED <<completed, countVars>> \/ Finish(p, running[p], ok)
    BY <1>6 DEF NativeReturns
  <2>5. Quiet(p)
    BY <1>0, <2>2, <2>4, FinishIsQuiet DEF Quiet
  <2> QED BY <2>3, <2>5
<1>7. CASE WaitEnds(p) \/ WaitTimesOut(p)
  <2>1. Draining(p) /\ UNCHANGED <<native, messageVars>>
    BY <1>7 DEF WaitEnds, WaitTimesOut
  <2>2. running[p] \in Calls /\ kind[running[p]] # "none"
    BY <2>1, WaitFacts
  <2>3. Quiet(p)
    BY <1>0, <1>7, <2>1, <2>2, FinishIsQuiet DEF WaitEnds, WaitTimesOut
  <2> QED BY <1>1, <2>1, <2>3
<1> QED BY <1>2, <1>3, <1>4, <1>5, <1>6, <1>7 DEF Start, Shutdown, RunHead

\* Only a wait that ended tells a shutdown that all is well.
LEMMA OperationKeepsCalls ==
    ASSUME Inv, NEW p \in Consumers,
           \/ \E c \in Calls : Start(p, c) \/ (\E m \in Callers : Shutdown(p, c, m)) \/ RunHead(p, c)
           \/ \E ok \in BOOLEAN : NativeReturns(p, ok)
           \/ WaitEnds(p) \/ WaitTimesOut(p)
    PROVE  \A c \in Calls : CallOK(c)'
<1>0. LifeTypes /\ CallTypes /\ MessageTypes /\ LifeOK(p) /\ Ages /\ \A c \in Calls : CallOK(c)
  BY OperationIsQuiet DEF Inv, LifeInv, Shape
<1>1. ASSUME NEW c \in Calls, CallKeeps(c) PROVE CallOK(c)'
  BY <1>0, <1>1, CallStaysRight
<1>2. ASSUME NEW c \in Calls, NEW m \in Messages \cup {None}, NEW method \in {"start", "shutdown"},
             StartOrShutdown(p, c, method, m), m # None => ack[m] # "none"
      PROVE  \A d \in Calls : CallOK(d)'
  <2>1. /\ kind[c] = "none" /\ kind'[c] = method /\ caller'[c] = m /\ UNCHANGED ack
        /\ (m # None => ack[m] # "none")
        /\ (callerAcked'[c] <=> m \in Messages /\ ack[m] = "acked")
        /\ reply'[c] = reply[c] \/ reply'[c] = "error"
    BY <1>0, <1>2 DEF StartOrShutdown, Made, CallTypes
  <2>2. reply[c] = "none"
    BY <1>0, <2>1 DEF CallOK
  <2>3. CallOK(c)'
    BY <2>1, <2>2 DEF CallOK
  <2>4. ASSUME NEW d \in Calls \ {c} PROVE CallKeeps(d)
    BY <1>0, <1>2 DEF StartOrShutdown, Made, CallTypes, CallKeeps
  <2> QED BY <1>1, <2>3, <2>4
<1>3. ASSUME NEW c \in Calls, kind[c] # "none", UNCHANGED <<kind, target, caller, callerAcked>>,
             NEW answer \in {"ok", "error"}, reply' = [reply EXCEPT ![c] = answer],
             answer = "error" \/ kind[c] = "start"
      PROVE  \A d \in Calls : CallOK(d)'
  <2>1. \A d \in Calls : CallKeeps(d)
    BY <1>0, <1>3 DEF CallTypes, CallKeeps
  <2> QED BY <1>1, <2>1
<1>4. ASSUME UNCHANGED callVars
      PROVE  \A d \in Calls : CallOK(d)'
  BY <1>1, <1>4 DEF CallKeeps
<1>5. ASSUME NEW c \in Calls, RunHead(p, c) PROVE \A d \in Calls : CallOK(d)'
  <2>1. CASE RunRefused(p, c)
    <3>1. HeadMayRun(p, c) /\ queue' = [queue EXCEPT ![p] = Tail(@)]
      BY <2>1 DEF RunRefused
    <3>2. kind[c] # "none"
      BY <3>1, HeadFacts DEF Inv
    <3> QED BY <1>3, <2>1, <3>2 DEF RunRefused
  <2>2. CASE RunAccepted(p, c)
    <3>1. UNCHANGED <<kind, target, caller, callerAcked, reply>>
      BY <2>2 DEF RunAccepted
    <3> QED BY <1>1, <3>1 DEF CallKeeps
  <2>3. CASE RunThrows(p, c)
    <3>1. kind[c] # "none" /\ Finish(p, c, FALSE)
      BY <2>3, RunThrowsMoves DEF RunThrows, Inv
    <3>2. reply' = [reply EXCEPT ![c] = "error"]
      BY <3>1 DEF Finish
    <3> QED BY <1>3, <2>3, <3>1, <3>2 DEF RunThrows
  <2> QED BY <1>5, <2>1, <2>2, <2>3 DEF RunHead
<1>6. ASSUME NEW ok \in BOOLEAN, NativeReturns(p, ok) PROVE \A d \in Calls : CallOK(d)'
  <2> PICK c : c = running[p]
    OBVIOUS
  <2>1. c \in Calls /\ kind[c] # "none" /\ UNCHANGED <<kind, target, caller, callerAcked>>
    BY <1>0, <1>6 DEF NativeReturns, LifeTypes, LifeOK
  <2>2. CASE kind[c] = "shutdown" /\ ok
    BY <1>1, <1>6, <2>1, <2>2 DEF NativeReturns, CallKeeps
  <2>3. CASE ~(kind[c] = "shutdown" /\ ok)
    <3>1. reply' = [reply EXCEPT ![c] = IF ok THEN "ok" ELSE "error"]
      BY <1>6, <2>3 DEF NativeReturns, Finish
    <3>2. ~ok \/ kind[c] = "start"
      BY <1>0, <2>1, <2>3 DEF CallTypes
    <3> QED BY <1>3, <2>1, <3>1, <3>2
  <2> QED BY <2>2, <2>3
<1>7. CASE WaitEnds(p)
  <2> PICK c : c = running[p]
    OBVIOUS
  <2>1. /\ c \in Calls /\ kind[c] = "shutdown" /\ target[c] = p
        /\ outstanding[p] = Cardinality(Unacked(p))
    BY <1>7, WaitFacts DEF WaitEnds
  <2>2. /\ outstanding[p] <= Exempt(c) /\ reply' = [reply EXCEPT ![c] = "ok"]
        /\ native[p] = "Shutdown" /\ UNCHANGED <<kind, target, caller, callerAcked, native, messageVars>>
    BY <1>7 DEF WaitEnds, Finish, Draining
  <2>3. IsFiniteSet(Unacked(p)) /\ Cardinality(Unacked(p)) \in Nat
    BY MessagesFinite
  <2>4. Drained(c)
    <3>1. CASE Unacked(p) = {}
      BY <2>1, <3>1 DEF Drained
    <3>3. caller[c] \in Messages \cup {None} /\ ack \in [Messages -> {"none", "open", "acked"}]
      BY <1>0, <2>1 DEF CallTypes, MessageTypes
    <3>2. CASE Unacked(p) # {}
      <4>1. Cardinality(Unacked(p)) # 0
        BY <2>3, <3>2, FS_EmptySet
      <4>2. Exempt(c) = 1 /\ Cardinality(Unacked(p)) = 1
        BY <2>1, <2>2, <2>3, <4>1 DEF Exempt
      <4>3. caller[c] \in Messages /\ owner[caller[c]] = target[c] /\ ~callerAcked[c]
        BY <4>2 DEF Exempt
      <4>4. caller[c] # None /\ ack[caller[c]] # "none"
        BY <1>0, <2>1, <4>3, NoneAssumption DEF CallOK
      <4>5. CASE ack[caller[c]] = "acked"
        BY <2>1, <4>2, <4>3, <4>4, <4>5 DEF Drained
      <4>6. CASE ack[caller[c]] # "acked"
        <5>1. caller[c] \in Unacked(p)
          BY <2>1, <3>3, <4>3, <4>4, <4>6 DEF Unacked
        <5>2. {caller[c]} \subseteq Unacked(p) /\ Cardinality({caller[c]}) = 1
          BY <5>1, FS_Singleton
        <5>3. Unacked(p) = {caller[c]}
          BY <2>3, <4>2, <5>2, FS_Subset
        <5> QED BY <2>1, <5>3 DEF Drained
      <4> QED BY <4>5, <4>6
    <3> QED BY <3>1, <3>2
  <2>5. CallOK(c)'
    BY <1>0, <2>1, <2>2, <2>4 DEF CallOK, Drained, Unacked
  <2>6. ASSUME NEW d \in Calls \ {c} PROVE CallKeeps(d)
    BY <1>0, <2>1, <2>2 DEF CallTypes, CallKeeps
  <2> QED BY <1>1, <2>5, <2>6
<1>8. CASE WaitTimesOut(p)
  <2> PICK c : c = running[p]
    OBVIOUS
  <2>1. c \in Calls /\ kind[c] = "shutdown"
    BY <1>8, WaitFacts DEF WaitTimesOut
  <2>2. reply' = [reply EXCEPT ![c] = "error"] /\ UNCHANGED <<kind, target, caller, callerAcked>>
    BY <1>8 DEF WaitTimesOut, Finish
  <2> QED BY <1>3, <2>1, <2>2
<1>9. /\ None \in Messages \cup {None}
      /\ \A m \in Callers : m \in Messages \cup {None} /\ (m # None => ack[m] # "none")
  BY DEF Callers
<1> QED BY <1>2, <1>5, <1>6, <1>7, <1>8, <1>9 DEF Start, Shutdown

\* The invariant is inductive, and every consumer goes on in its one-shot life.
LEMMA InvNext ==
    ASSUME Inv, [Next]_vars
    PROVE  Inv' /\ \A q \in Consumers : PhaseStep(q)
<1>0. LifeInv /\ AckInv /\ LifeTypes /\ CallTypes /\ MessageTypes /\ \A c \in Calls : CallOK(c)
  BY DEF Inv, LifeInv, Shape
<1>1. ASSUME NEW p \in Consumers,
             \/ \E c \in Calls :
                  Start(p, c) \/ (\E m \in Callers : Shutdown(p, c, m)) \/ RunHead(p, c)
             \/ \E ok \in BOOLEAN : NativeReturns(p, ok)
             \/ WaitEnds(p) \/ WaitTimesOut(p)
      PROVE  Inv' /\ \A q \in Consumers : PhaseStep(q)
  <2>1. LifeInv' /\ \A q \in Consumers : PhaseStep(q)
    BY <1>0, <1>1, OperationKeepsLife
  <2>2. AckInv'
    BY <1>0, <1>1, OperationIsQuiet, QuietKeeps
  <2>3. \A c \in Calls : CallOK(c)'
    BY <1>1, OperationKeepsCalls
  <2> QED BY <2>1, <2>2, <2>3 DEF Inv
<1>2. ASSUME UNCHANGED <<opVars, moduleVars, callVars>>, MessageTypes', AckInv', Ages
      PROVE  Inv' /\ \A q \in Consumers : PhaseStep(q)
  <2>1. native' \in [Consumers -> {"Idle", "Starting", "Started", "ShuttingDown", "Shutdown"}]
    BY <1>0, <1>2 DEF LifeTypes
  <2>2. LifeInv' /\ \A q \in Consumers : PhaseStep(q)
    BY <1>0, <1>2, <2>1, LifeUntouched
  <2>3. \A c \in Calls : CallOK(c)'
    BY <1>0, <1>2, CallStaysRight DEF CallKeeps
  <2> QED BY <1>2, <2>2, <2>3 DEF Inv
<1>3. ASSUME NEW p \in Consumers, NEW m \in Messages, Deliver(p, m)
      PROVE  Inv' /\ \A q \in Consumers : PhaseStep(q)
  <2>1. AckInv' /\ UNCHANGED <<opVars, moduleVars, callVars>>
    BY <1>0, <1>3, DeliverKeeps DEF Deliver
  <2>2. MessageTypes'
    BY <1>0, <1>3 DEF MessageTypes, Deliver
  <2>3. Ages
    <3>1. /\ native[p] # "Shutdown" /\ ack[m] = "none" /\ owner[m] = None /\ owner'[m] = p
          /\ \A n \in Messages \ {m} : ack'[n] = ack[n] /\ owner'[n] = owner[n]
      BY <1>0, <1>3 DEF Deliver, MayDeliver, MessageTypes, AckInv, MessageOK
    <3> QED BY <2>1, <3>1 DEF Ages, Unacked
  <2> QED BY <1>2, <2>1, <2>2, <2>3
<1>4. ASSUME NEW m \in Messages, AckDone(m)
      PROVE  Inv' /\ \A q \in Consumers : PhaseStep(q)
  <2>1. AckInv' /\ UNCHANGED <<opVars, moduleVars, callVars>>
    BY <1>0, <1>4, AckDoneKeeps DEF AckDone
  <2>2. MessageTypes'
    <3>1. \A q \in Consumers : outstanding[q] \in Int /\ outstanding[q] - 1 \in Int
      BY <1>0 DEF MessageTypes
    <3>2. outstanding' \in [Consumers -> Int]
      BY <1>0, <1>4, <3>1 DEF MessageTypes, AckDone
    <3> QED BY <1>0, <1>4, <3>2 DEF MessageTypes, AckDone
  <2>3. Ages
    <3>1. /\ ack[m] = "open" /\ ack'[m] = "acked" /\ UNCHANGED owner
          /\ \A n \in Messages \ {m} : ack'[n] = ack[n]
      BY <1>0, <1>4 DEF AckDone, MessageTypes
    <3> QED BY <2>1, <3>1 DEF Ages, Unacked
  <2> QED BY <1>2, <2>1, <2>2, <2>3
<1>5. CASE UNCHANGED vars
  <2>1. MessageTypes' /\ AckInv' /\ Ages
    BY <1>0, <1>5 DEF MessageTypes, AckInv, MessageOK, AckOK, Counted, Ages, Unacked
  <2> QED BY <1>2, <1>5, <2>1
<1>6. ASSUME NEW c \in Calls, CatchRuns(c)
      PROVE  Inv' /\ \A q \in Consumers : PhaseStep(q)
  <2>1. /\ target[c] \in Consumers /\ kind[c] = "shutdown" /\ completed[target[c]]
        /\ UNCHANGED <<completed, native, kind, target, caller, callerAcked, messageVars>>
        /\ AcksForgotten(target[c]) /\ reply' = [reply EXCEPT ![c] = "error"]
    BY <1>0, <1>6, CatchFacts
  <2>2. MessageTypes'
    <3>1. generation[target[c]] + 1 \in Nat
      BY <1>0, <2>1 DEF MessageTypes
    <3> QED BY <1>0, <2>1, <3>1 DEF MessageTypes, AcksForgotten
  <2>3. LifeInv' /\ \A q \in Consumers : PhaseStep(q)
    BY <1>0, <1>6, <2>2, CatchKeepsLife
  <2>4. Quiet(target[c]) /\ Ages
    BY <2>1 DEF Quiet, Ages, Unacked
  <2>5. AckInv'
    BY <1>0, <2>1, <2>4, QuietKeeps
  <2>6. \A d \in Calls : CallKeeps(d)
    BY <1>0, <2>1 DEF CallKeeps, CallTypes
  <2>7. \A d \in Calls : CallOK(d)'
    BY <1>0, <2>4, <2>6, CallStaysRight
  <2> QED BY <2>3, <2>5, <2>7 DEF Inv
<1>7. CASE Next
  BY <1>1, <1>3, <1>4, <1>6, <1>7 DEF Next
<1> QED BY <1>5, <1>7

\* Hence the invariant holds always.
LEMMA InvAlways == SafetySpec => []Inv
BY InvInit, InvNext, PTL DEF SafetySpec

-----------------------------------------------------------------------------
(* Theorems.                                                               *)

\* Two truth values are equal when they are equivalent.
LEMMA SameTruth == ASSUME NEW a \in BOOLEAN, NEW b \in BOOLEAN, a <=> b PROVE a = b
BY Zenon

\* The invariant implies the properties that are told of single states.
LEMMA InvImplies == Inv => TypeOK /\ AcksExact /\ KeepAliveExact /\ ResolvedMeansDrained
<1> SUFFICES ASSUME Inv PROVE TypeOK /\ AcksExact /\ KeepAliveExact /\ ResolvedMeansDrained
  OBVIOUS
<1>0. LifeTypes /\ CallTypes /\ MessageTypes /\ KeepAlive
  BY DEF Inv, LifeInv, Shape
<1>1. AcksExact
  BY DEF Inv, AckInv, AckOK, Counted, AcksExact
<1>2. KeepAliveExact
  <2>1. consumerRef = Cardinality({p \in Consumers : status[p] \in {"STARTED", "STOPPING"}})
                      - Cardinality({c \in Calls : thrown[c] = "done"})
    BY <1>0, Zenon DEF KeepAlive, Live, Twice
  <2>2. timer \in BOOLEAN /\ (timer <=> consumerRef > 0)
    BY <1>0, Zenon DEF KeepAlive
  <2>3. (consumerRef > 0) \in BOOLEAN
    BY <1>0 DEF LifeTypes
  <2>4. timer = (consumerRef > 0)
    BY <2>2, <2>3, SameTruth
  <2> QED BY <2>1, <2>4, Zenon DEF KeepAliveExact
<1>3. ResolvedMeansDrained
  BY DEF Inv, CallOK, Drained, ResolvedMeansDrained
<1>4. TypeOK
  <2>2. outstanding \in [Consumers -> Nat]
    <3>1. \A p \in Consumers : outstanding[p] \in Nat
      BY MessagesFinite DEF Inv, AckInv, AckOK
    <3> QED BY <1>0, <3>1 DEF MessageTypes
  <2>3. timer \in BOOLEAN
    BY <1>0, Zenon DEF KeepAlive
  <2> HIDE DEF vars
  <2> QED BY <1>0, <2>2, <2>3, Zenon DEF TypeOK, LifeTypes, CallTypes, MessageTypes, Waiting
<1> QED BY <1>1, <1>2, <1>3, <1>4

\* Every variable keeps its type; in particular outstandingAcks never becomes negative.
THEOREM TypeCorrect == SafetySpec => []TypeOK
BY InvAlways, InvImplies, PTL

\* outstandingAcks counts the messages of the current generation that are not acked
\* (wrappedAck.done and cleanupShutdown of src/consumer.ts), however late an ack comes.
THEOREM AckCount == SafetySpec => []AcksExact
BY InvAlways, InvImplies, PTL

\* consumerRef counts the consumers that are started or stopping, less one for every
\* shutdown callback that threw, and the interval is set exactly while the count is above
\* zero: but for those callbacks no path of src/consumer.ts keeps the process alive for
\* nothing, or lets it end early.
THEOREM KeepAliveCount == SafetySpec => []KeepAliveExact
BY InvAlways, InvImplies, PTL

\* A shutdown that resolved has waited for every handler but the one that called it; when
\* that one acks after its call, one other may be left instead (waitForOutstandingAcks of
\* src/consumer.ts counts acks and does not tell whose they are).
THEOREM ShutdownDrains == SafetySpec => []ResolvedMeansDrained
BY InvAlways, InvImplies, PTL

\* A message besides the caller's own is what a wait that runs out waited for.
LEMMA TimeoutHasAnother ==
    ASSUME Inv, NEW p \in Consumers, WaitTimesOut(p)
    PROVE  Unacked(p) \ {caller[running[p]]} # {}
<1> PICK c : c = running[p]
  OBVIOUS
<1>1. /\ c \in Calls /\ target[c] = p /\ outstanding[p] = Cardinality(Unacked(p))
      /\ outstanding[p] > Exempt(c)
  BY WaitFacts DEF WaitTimesOut
<1>2. IsFiniteSet(Unacked(p)) /\ Cardinality(Unacked(p)) \in Nat
  BY MessagesFinite
<1>3. caller[c] # None /\ callerAcked[c] => ack[caller[c]] = "acked"
  BY <1>1 DEF Inv, CallOK
<1>4. caller[c] \in Messages \cup {None}
  BY <1>1 DEF Inv, LifeInv, Shape, CallTypes
<1> SUFFICES ASSUME Unacked(p) \subseteq {caller[c]} PROVE FALSE
  OBVIOUS
<1>5. Cardinality({caller[c]}) = 1 /\ IsFiniteSet({caller[c]})
  BY FS_Singleton
<1>6. Cardinality(Unacked(p)) <= 1
  BY <1>5, FS_Subset
<1>7. Exempt(c) \in {0, 1}
  BY DEF Exempt
<1>8. Exempt(c) = 0 /\ Cardinality(Unacked(p)) = 1
  BY <1>1, <1>2, <1>6, <1>7
<1>9. caller[c] \in Unacked(p)
  <2>1. Unacked(p) # {}
    BY <1>8, FS_EmptySet
  <2> QED BY <2>1
<1>10. caller[c] \in Messages /\ owner[caller[c]] = target[c] /\ ack[caller[c]] = "open"
  BY <1>1, <1>9 DEF Unacked
<1>11. ~callerAcked[c]
  BY <1>3, <1>10, NoneAssumption
<1> QED BY <1>8, <1>10, <1>11 DEF Exempt

\* A shutdown that times out has a handler to blame that did not call it: the exemption
\* of a caller that has not acked covers exactly the ack it cannot give.
THEOREM TimeoutBlames == SafetySpec => TimeoutBlamesAnother
<1>1. Inv /\ [Next]_vars =>
        [\A p \in Consumers : WaitTimesOut(p) => Unacked(p) \ {caller[running[p]]} # {}]_vars
  BY TimeoutHasAnother
<1> QED BY InvAlways, <1>1, PTL DEF SafetySpec, TimeoutBlamesAnother

\* Every consumer lives the one-shot life of the README.
THEOREM OneShot == SafetySpec => ImplementsOneShot
<1>1. Init => \A p \in Consumers : ShotOf(p)!Init
  BY DEF Init, ShotOf!Init, Phase
<1>2. Inv /\ [Next]_vars => [\A p \in Consumers : [ShotOf(p)!Next]_(Phase(p))]_vars
  BY InvNext DEF PhaseStep, ShotOf!Next, ShotOf!Start, ShotOf!Started, ShotOf!Stop, ShotOf!Over
<1> QED BY InvAlways, <1>1, <1>2, PTL DEF SafetySpec, ImplementsOneShot

-----------------------------------------------------------------------------
(* The class and the native consumer.                                      *)

\* An operation that runs is what the native consumer is at, a shutdown also while it
\* waits for acks; between operations a consumer that is not over has a native one that
\* is new or started, as its status says.
NativeOK(p) ==
    /\ running[p] # None =>
         native[p] \in IF kind[running[p]] = "start" THEN {"Starting"}
                       ELSE {"ShuttingDown", "Shutdown"}
    /\ running[p] = None /\ ~completed[p] => native[p] = IF Live(p) THEN "Started" ELSE "Idle"

NativeInv == \A p \in Consumers : NativeOK(p)

LEMMA NativeInvInit == Init => NativeInv
BY DEF Init, NativeInv, NativeOK, Live

\* An operation that ends leaves a consumer that is over, or started.
LEMMA NativeFinish ==
    ASSUME Inv, NEW p \in Consumers, NEW c \in Calls, NEW ok \in BOOLEAN, Finish(p, c, ok),
           kind[c] \in {"start", "shutdown"}, kind[c] = "start" /\ ok => native'[p] = "Started"
    PROVE  NativeOK(p)'
<1>1. /\ status' = [status EXCEPT ![p] = IF kind[c] = "start" /\ ok THEN "STARTED" ELSE "STOPPED"]
      /\ completed' = [completed EXCEPT ![p] = @ \/ Completes(c, ok)]
      /\ running' = [running EXCEPT ![p] = None]
  BY DEF Finish, FinalizeQueue
<1>2. /\ running'[p] = None
      /\ completed'[p] <=> completed[p] \/ Completes(c, ok)
      /\ status'[p] = IF kind[c] = "start" /\ ok THEN "STARTED" ELSE "STOPPED"
  BY <1>1 DEF Inv, LifeInv, Shape, LifeTypes
<1> QED BY <1>2 DEF NativeOK, Completes, Live

\* The other consumers are left alone.
LEMMA NativeOthers ==
    ASSUME Inv, NativeInv, NEW p \in Consumers, OthersKept(p), NativeOK(p)',
           \A q \in Consumers \ {p} : native'[q] = native[q]
    PROVE  NativeInv'
<1>1. ASSUME NEW q \in Consumers \ {p} PROVE NativeOK(q)'
  <2>1. running[q] # None => running[q] \in Calls /\ kind[running[q]] # "none"
    BY DEF Inv, LifeInv, Shape, LifeTypes, LifeOK
  <2> QED BY <2>1 DEF NativeInv, NativeOK, OthersKept, Live
<1> QED BY <1>1 DEF NativeInv

\* A call that is made changes the status of an idle consumer only from new to starting,
\* or from started to stopping.
LEMMA NativeCalls ==
    ASSUME Inv, NativeInv, NEW p \in Consumers, NEW c \in Calls,
           NEW method \in {"start", "shutdown"}, NEW m \in Messages \cup {None},
           StartOrShutdown(p, c, method, m), waits' \in [Messages -> Calls \cup {None}]
    PROVE  NativeInv'
<1>0. LifeTypes /\ CallTypes /\ LifeOK(p) /\ OpsOK(p) /\ NativeOK(p)
  BY DEF Inv, LifeInv, Shape, NativeInv
<1>1. OthersKept(p)
  BY StartOrShutdownMoves DEF Inv, Moves
<1>2. UNCHANGED <<completed, running, native>>
  BY DEF StartOrShutdown
<1>3. Live(p)' <=> Live(p)
  <2>1. CASE QueueBusy(p) \/ RefusedAtOnce(p, method)
    BY <1>0, <2>1 DEF StartOrShutdown, LifeTypes, Live
  <2>2. CASE ~QueueBusy(p) /\ ~RefusedAtOnce(p, method)
    <3>1. status' = [status EXCEPT ![p] = Under(method)]
      BY <2>2 DEF StartOrShutdown
    <3> QED BY <1>0, <2>2, <3>1 DEF LifeTypes, RefusedAtOnce, Under, Live, Statuses
  <2> QED BY <2>1, <2>2
<1>4. running[p] # None => running[p] \in Calls /\ kind'[running[p]] = kind[running[p]]
  BY <1>0, <1>1 DEF LifeTypes, LifeOK, OthersKept
<1>5. NativeOK(p)'
  BY <1>0, <1>2, <1>3, <1>4 DEF NativeOK
<1> QED BY <1>1, <1>2, <1>5, NativeOthers

\* The steps of the queue.
LEMMA NativeHead ==
    ASSUME Inv, NativeInv, NEW p \in Consumers, NEW c \in Calls, RunHead(p, c)
    PROVE  NativeInv'
<1>0. LifeTypes /\ CallTypes /\ LifeOK(p) /\ NativeOK(p)
  BY DEF Inv, LifeInv, Shape, NativeInv
<1>1. OthersKept(p)
  BY RunRefusedMoves, RunAcceptedMoves, RunThrowsMoves DEF RunHead, Moves, Inv
<1>2. CASE RunRefused(p, c)
  BY <1>0, <1>1, <1>2, NativeOthers DEF RunRefused, NativeOK, Live
<1>3. CASE RunAccepted(p, c)
  <2>1. running'[p] = c /\ kind' = kind /\ c # None
    BY <1>0, <1>3, NoneAssumption DEF RunAccepted, LifeTypes
  <2>2. /\ native'[p] = IF kind[c] = "start" THEN "Starting" ELSE "ShuttingDown"
        /\ \A q \in Consumers \ {p} : native'[q] = native[q]
    BY <1>0, <1>3 DEF RunAccepted, LifeTypes
  <2> QED BY <1>1, <2>1, <2>2, NativeOthers DEF NativeOK
<1>4. CASE RunThrows(p, c)
  <2>1. kind[c] \in {"start", "shutdown"} /\ Finish(p, c, FALSE)
    BY <1>0, <1>4, RunThrowsMoves DEF RunThrows, Inv, CallTypes
  <2>2. \A q \in Consumers \ {p} : native'[q] = native[q]
    BY <1>4 DEF RunThrows
  <2> QED BY <1>1, <2>1, <2>2, NativeFinish, NativeOthers
<1> QED BY <1>2, <1>3, <1>4 DEF RunHead

\* The native callbacks and the ends of a wait for acks.
LEMMA NativeEnds ==
    ASSUME Inv, NativeInv, NEW p \in Consumers,
           \/ \E ok \in BOOLEAN : NativeReturns(p, ok)
           \/ WaitEnds(p) \/ WaitTimesOut(p)
    PROVE  NativeInv'
<1> DEFINE c == running[p]
<1>0. LifeTypes /\ CallTypes /\ LifeOK(p) /\ NativeOK(p)
  BY DEF Inv, LifeInv, Shape, NativeInv
<1>1. c \in Calls /\ kind[c] \in {"start", "shutdown"} /\ c # None
  BY <1>0 DEF NativeReturns, WaitEnds, WaitTimesOut, Draining, LifeTypes, LifeOK, CallTypes
<1>2. ASSUME NEW ok \in BOOLEAN, Finish(p, c, ok),
             UNCHANGED <<queue, initiated, kind, target, caller, callerAcked, messageVars>>,
             CatchQueuedAtMost(c),
             native' \in [Consumers -> {"Idle", "Starting", "Started", "ShuttingDown", "Shutdown"}],
             \A q \in Consumers \ {p} : native'[q] = native[q],
             kind[c] = "start" /\ ok => native'[p] = "Started"
      PROVE  NativeInv'
  <2>1. OthersKept(p)
    BY <1>1, <1>2, RunningEnds DEF Moves, Inv
  <2> QED BY <1>1, <1>2, <2>1, NativeFinish, NativeOthers
<1>3. ASSUME NEW ok \in BOOLEAN, NativeReturns(p, ok) PROVE NativeInv'
  <2>1. /\ native' \in [Consumers -> {"Idle", "Starting", "Started", "ShuttingDown", "Shutdown"}]
        /\ \A q \in Consumers \ {p} : native'[q] = native[q]
    BY <1>3, NativeReturnsTo DEF Inv
  <2>2. CASE kind[c] = "shutdown" /\ ok
    <3>1. /\ UNCHANGED <<status, completed, ops, running, queue, kind, target>>
          /\ native'[p] = "Shutdown"
      BY <1>0, <1>3, <2>2 DEF NativeReturns, LifeTypes
    <3>2. OthersKept(p) /\ NativeOK(p)'
      BY <1>1, <2>2, <3>1 DEF OthersKept, NativeOK
    <3> QED BY <2>1, <3>2, NativeOthers
  <2>3. CASE ~(kind[c] = "shutdown" /\ ok)
    <3>1. /\ Finish(p, c, ok) /\ CatchQueuedAtMost(c)
          /\ UNCHANGED <<queue, initiated, kind, target, caller, callerAcked, messageVars>>
      BY <1>3, <2>3 DEF NativeReturns, CatchQueuedAtMost
    <3>2. kind[c] = "start" /\ ok => native'[p] = "Started"
      BY <1>0, <1>3 DEF NativeReturns, LifeTypes
    <3> QED BY <1>2, <2>1, <3>1, <3>2
  <2> QED BY <2>2, <2>3
<1>4. CASE WaitEnds(p) \/ WaitTimesOut(p)
  <2>1. PICK ok \in BOOLEAN : Finish(p, c, ok)
    BY <1>4 DEF WaitEnds, WaitTimesOut
  <2>2. /\ UNCHANGED <<queue, native, initiated, kind, target, caller, callerAcked, messageVars>>
        /\ kind[c] = "shutdown"
    BY <1>4 DEF WaitEnds, WaitTimesOut, Draining
  <2>3. native' \in [Consumers -> {"Idle", "Starting", "Started", "ShuttingDown", "Shutdown"}]
    BY <1>0, <2>2 DEF LifeTypes
  <2>4. CatchQueuedAtMost(c)
    BY <1>4, WaitQueuesCatch DEF WaitTimesOut, CatchQueuedAtMost, Inv
  <2> QED BY <1>2, <2>1, <2>2, <2>3, <2>4
<1> QED BY <1>3, <1>4

\* The class and its native consumer agree after every step.
LEMMA NativeInvNext == ASSUME Inv, NativeInv, [Next]_vars PROVE NativeInv'
<1>0. MessageTypes
  BY DEF Inv, LifeInv, Shape
<1>1. ASSUME NEW p \in Consumers, NEW c \in Calls, Start(p, c) PROVE NativeInv'
  <2>1. StartOrShutdown(p, c, "start", None) /\ waits' \in [Messages -> Calls \cup {None}]
    BY <1>0, <1>1 DEF Start, MessageTypes
  <2> QED BY <2>1, NativeCalls
<1>2. ASSUME NEW p \in Consumers, NEW c \in Calls, NEW m \in Callers, Shutdown(p, c, m)
      PROVE  NativeInv'
  <2>1. m \in Messages \cup {None}
    BY DEF Callers
  <2>2. StartOrShutdown(p, c, "shutdown", m) /\ waits' \in [Messages -> Calls \cup {None}]
    BY <1>0, <1>2, <2>1 DEF Shutdown, MessageTypes
  <2> QED BY <2>1, <2>2, NativeCalls
<1>3. CASE \/ \E p \in Consumers, m \in Messages : Deliver(p, m)
           \/ \E m \in Messages : AckDone(m)
           \/ UNCHANGED vars
  <2>1. UNCHANGED <<status, completed, running, native, kind>>
    BY <1>3 DEF Deliver, AckDone
  <2> QED BY <2>1 DEF NativeInv, NativeOK, Live
<1>4. ASSUME NEW c \in Calls, CatchRuns(c) PROVE NativeInv'
  <2>1. UNCHANGED <<status, completed, running, native, kind>>
    BY <1>4, CatchFacts DEF Inv
  <2> QED BY <2>1 DEF NativeInv, NativeOK, Live
<1> QED BY <1>1, <1>2, <1>3, <1>4, NativeHead, NativeEnds DEF Next

\* What the class asks of the native consumer it can always ask: core.start is called
\* only on a new one, core.shutdown only on a started one, and a consumer that is started
\* has a native one that is.
NativeInStep ==
    \A p \in Consumers :
        /\ status[p] = "STARTED" => native[p] = "Started"
        /\ \A c \in Calls : HeadMayRun(p, c) /\ ~Refused(p, c)
             => native[p] = IF kind[c] = "start" THEN "Idle" ELSE "Started"

\* The checks of src/consumer.ts are at least as strict as those of Start and Shutdown of
\* lib/push_consumer.cpp, whatever overlaps, is refused, fails or times out: neither throws
\* because of the state it finds.
THEOREM NativeAgrees == SafetySpec => []NativeInStep
<1>1. ASSUME Inv, NativeInv, NEW p \in Consumers
      PROVE  /\ status[p] = "STARTED" => native[p] = "Started"
             /\ \A c \in Calls : HeadMayRun(p, c) /\ ~Refused(p, c)
                  => native[p] = IF kind[c] = "start" THEN "Idle" ELSE "Started"
  <2>0. NativeOK(p) /\ LifeOK(p) /\ status[p] \in Statuses
    BY <1>1 DEF NativeInv, Inv, LifeInv, Shape, LifeTypes
  <2>1. status[p] = "STARTED" => native[p] = "Started"
    BY <2>0 DEF NativeOK, LifeOK, Under, Live
  <2>2. ASSUME NEW c \in Calls, HeadMayRun(p, c), ~Refused(p, c)
        PROVE  native[p] = IF kind[c] = "start" THEN "Idle" ELSE "Started"
    <3>1. running[p] = None
      BY <2>2 DEF HeadMayRun
    <3>2. ~completed[p] /\ (Live(p) <=> kind[c] # "start")
      BY <2>0, <2>2 DEF Refused, LifeOK, Live, Statuses
    <3> QED BY <2>0, <3>1, <3>2 DEF NativeOK
  <2> QED BY <2>1, <2>2
<1>2. Inv /\ NativeInv => NativeInStep
  BY <1>1 DEF NativeInStep
<1> QED BY InvAlways, NativeInvInit, NativeInvNext, <1>2, PTL DEF SafetySpec
=============================================================================
