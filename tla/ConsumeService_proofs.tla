----------------------- MODULE ConsumeService_proofs -----------------------
(***************************************************************************)
(* Proofs about ConsumeService, for every value of its constants.  The     *)
(* invariant has four parts: types; which states the threads can be in     *)
(* together (StateInv); every place an offset can wait - the broker, the   *)
(* table, a thread's copy, a request, a pull - holds a safe one            *)
(* (OffsetInv); and what lies before the next pull of a process queue is   *)
(* cached or dealt with (CacheInv), from which follows that what           *)
(* removeMessage returns is safe.  CarryInv is added for EachCachedOnce.   *)
(***************************************************************************)
EXTENDS ConsumeService, FiniteSetTheorems, WellFoundedInduction, TLAPS

\* The order of the offsets.
LessThan == {ss \in Nat \X Nat : ss[1] < ss[2]}

\* It is well-founded.
LEMMA LessThanWellFounded == IsWellFoundedOn(LessThan, Nat)
<1>1. OpToRel(<, Nat) = LessThan
  BY DEF OpToRel, LessThan
<1> QED BY <1>1, NatLessThanWellFounded

\* A set of offsets that is not empty has a least one: what Remaining chooses.
LEMMA LeastOf ==
    ASSUME NEW S \in SUBSET Nat, S # {}
    PROVE  Least(S) \in S /\ \A n \in S : Least(S) <= n
<1>1. PICK m \in S : \A n \in S : ~(<<n, m>> \in LessThan)
  BY WFMin, LessThanWellFounded
<1>2. ASSUME NEW n \in S PROVE m <= n
  <2>1. <<n, m>> \in Nat \X Nat
    OBVIOUS
  <2>2. <<n, m>>[1] = n /\ <<n, m>>[2] = m
    OBVIOUS
  <2>3. ~(n < m)
    BY <1>1, <2>1, <2>2, Zenon DEF LessThan
  <2> QED BY <2>3
<1> QED BY <1>2 DEF Least

\* The greatest offset after a batch is put is the batch's last.
LEMMA GreatestOfBatch ==
    ASSUME NEW next \in Nat, NEW end \in Nat, next < end,
           NEW highest \in Nat, highest = 0 \/ highest < next
    PROVE  Greatest((next..(end - 1)) \cup {highest}) = end - 1
<1> DEFINE S == (next..(end - 1)) \cup {highest}
<1>1. end - 1 \in S /\ \A n \in S : n <= end - 1
  OBVIOUS
<1>2. \A m \in S : (\A n \in S : n <= m) => m = end - 1
  BY <1>1
<1> HIDE DEF S
<1>3. Greatest(S) \in S /\ \A n \in S : n <= Greatest(S)
  BY <1>1 DEF Greatest
<1> QED BY <1>2, <1>3 DEF S

-----------------------------------------------------------------------------
\* The pull request of q goes round.
Pulling(q) == pull[q].pc \in {"queued", "sent"}

\* The states in which the threads can be together.
StateInv ==
    /\ ~Serving => \A r \in requests : r.pc = "queued"
    /\ state = "down" => /\ requests = {} /\ rebalance.pc = "rest" /\ ~owned
                         /\ \A q \in Queues : pull[q].pc = "none"
    /\ rebalance.pc \in {"fetched", "put"} => rebalance.off # Absent
    /\ Serving /\ owned /\ current \notin dropped => Pulling(current)

\* Every offset on its way, wherever it waits, is safe.
OffsetInv ==
    /\ Safe(broker) /\ Safe(table) /\ Safe(rebalance.off) /\ Safe(timer.off)
    /\ \A r \in requests : Safe(r.off)
    /\ \A q \in Queues : Safe(pull[q].off)

\* What lies before the next pull is in the cache or dealt with.
Covered(q) == \A m \in Messages : m < pull[q].next =>
                m \in tree[q] \cup settled \cup skipped \/ m < least

\* What a process queue may hold, given its pull request.
Cached(q) ==
    /\ Pulling(q) =>
         /\ Covered(q)
         /\ \A m \in tree[q] : m < pull[q].next
         /\ top[q] = 0 \/ top[q] < pull[q].next
    /\ pull[q].pc \notin {"none", "queued", "sent"} => Safe(pull[q].next)
    /\ Serving /\ q \notin dropped /\ ~Pulling(q) =>
         pull[q].pc = "none" /\ \A r \in requests : r.q # q

CacheInv == \A q \in Queues : Cached(q)

\* What removeMessage returns for a queue that pulls is an offset.
LEMMA RemainingType ==
    ASSUME TypeOK, CacheInv, NEW q \in Queues, NEW msgs, Pulling(q)
    PROVE  Remaining(q, msgs) \in Offsets \cup {Absent}
<1> USE BoundAssumption DEF Messages, Offsets, Absent
<1>1. CASE tree[q] = {}
  BY <1>1 DEF Remaining
<1>2. CASE tree[q] # {} /\ tree[q] \ msgs = {}
  <2>1. PICK m \in tree[q] : m \in Messages /\ m < pull[q].next
    BY <1>2 DEF TypeOK, CacheInv, Cached
  <2>2. top[q] \in Nat /\ pull[q].next \in 0..Last /\ top[q] + 1 <= pull[q].next
    BY <2>1 DEF TypeOK, CacheInv, Cached, Pulls
  <2> QED BY <1>2, <2>2 DEF Remaining
<1>3. CASE tree[q] \ msgs # {}
  <2>1. tree[q] \ msgs \in SUBSET Nat /\ tree[q] \ msgs \in SUBSET Messages
    BY DEF TypeOK
  <2>2. Least(tree[q] \ msgs) \in tree[q] \ msgs
    BY <1>3, <2>1, LeastOf
  <2> QED BY <1>3, <2>1, <2>2 DEF Remaining
<1> QED BY <1>1, <1>2, <1>3

\* What removeMessage returns is safe once the messages removed are settled.
LEMMA RemainingSafe ==
    ASSUME TypeOK, CacheInv, NEW q \in Queues, Pulling(q),
           NEW done \in SUBSET Messages, settled' = settled \cup done,
           skipped' = skipped, least' = least
    PROVE  \A m \in Messages : m < Remaining(q, done) =>
             m \in settled' \cup skipped' \/ m < least'
<1> USE BoundAssumption DEF Messages, Offsets, Absent
<1> SUFFICES ASSUME NEW m \in Messages, m < Remaining(q, done)
             PROVE  m \in settled' \cup skipped' \/ m < least'
  OBVIOUS
<1>0. /\ \A n \in Messages : n < pull[q].next =>
           n \in tree[q] \cup settled \cup skipped \/ n < least
      /\ \A n \in tree[q] : n \in Messages /\ n < pull[q].next
      /\ pull[q].next \in 0..Last /\ top[q] \in 0..Last
      /\ top[q] = 0 \/ top[q] < pull[q].next
  BY DEF TypeOK, CacheInv, Cached, Covered, Pulls
<1>1. CASE tree[q] = {}
  BY <1>1 DEF Remaining
<1>2. CASE tree[q] # {} /\ tree[q] \ done = {}
  <2>1. m <= top[q]
    BY <1>0, <1>2 DEF Remaining
  <2>2. m < pull[q].next
    BY <1>0, <1>2, <2>1
  <2> QED BY <1>0, <1>2, <2>2
<1>3. CASE tree[q] \ done # {}
  <2>1. tree[q] \ done \in SUBSET Nat
    BY <1>0
  <2>2. /\ Least(tree[q] \ done) \in tree[q] \ done
        /\ \A n \in tree[q] \ done : Least(tree[q] \ done) <= n
    BY <1>3, <2>1, LeastOf
  <2>3. m < Least(tree[q] \ done)
    BY <1>3 DEF Remaining
  <2>4. m < pull[q].next /\ m \notin tree[q] \ done
    BY <1>0, <2>1, <2>2, <2>3
  <2> QED BY <1>0, <2>4
<1> QED BY <1>1, <1>2, <1>3

\* A request whose listener runs has a process queue that is dropped or pulls.
LEMMA ListeningPulls ==
    ASSUME TypeOK, StateInv, CacheInv, NEW r \in requests, r.pc = "listening"
    PROVE  r.q \in Queues /\ (r.q \notin dropped => Pulling(r.q))
BY DEF TypeOK, StateInv, CacheInv, Cached, Requests, Serving

-----------------------------------------------------------------------------
\* The initial state has the types.
LEMMA TypeInit == Init => TypeOK
<1> SUFFICES ASSUME Init PROVE TypeOK
  OBVIOUS
<1> USE BoundAssumption DEF Init, Offsets, Messages, Queues, Absent
<1>1. NoPull \in Pulls /\ pull \in [Queues -> Pulls]
  BY DEF NoPull, Pulls
<1>2. Resting \in Threads /\ rebalance \in Threads /\ timer \in Threads
  BY DEF Resting, Threads
<1>3. tree \in [Queues -> SUBSET Messages] /\ top \in [Queues -> Offsets]
  OBVIOUS
<1>4. broker \in Offsets /\ least \in Offsets /\ current \in Queues
  OBVIOUS
<1>5. state \in {"up", "stopping", "leaving", "stopped", "down"} /\ faults \in 0..MaxFaults
  OBVIOUS
<1> HIDE DEF Messages, Queues
<1>6. requests \in SUBSET Requests /\ dropped \in SUBSET Queues
  OBVIOUS
<1> QED BY <1>1, <1>2, <1>3, <1>4, <1>5, <1>6 DEF TypeOK

\* A request that moves on is a request again.
LEMMA RequestMoves ==
    ASSUME NEW r \in Requests, NEW off \in Offsets \cup {Absent},
           NEW pc \in {"queued", "listening", "removed", "checked"}
    PROVE  /\ [r EXCEPT !.pc = pc] \in Requests
           /\ [r EXCEPT !.pc = pc, !.off = off] \in Requests
BY DEF Requests

\* So is a batch that is submitted, for the first time or again.
LEMMA RequestsNew ==
    ASSUME NEW q \in Queues, NEW msgs \in SUBSET Messages, NEW round \in Nat
    PROVE  NewRequest(q, msgs, round) \in Requests
BY DEF Requests, NewRequest, Absent

\* The types of a request's fields.
LEMMA RequestFields ==
    ASSUME NEW r \in Requests
    PROVE  /\ r.q \in Queues /\ r.msgs \in SUBSET Messages /\ r.round \in Nat
           /\ r.off \in Offsets \cup {Absent}
BY DEF Requests

\* What a pull request is set to is a pull request.
LEMMA PullMoves ==
    ASSUME pull \in [Queues -> Pulls], NEW q \in Queues, NEW next \in Offsets,
           NEW off \in Offsets \cup {Absent},
           NEW pc \in {"none", "queued", "sent", "repair", "repairSend", "remove",
                       "removeSend"}
    PROVE  /\ SetPull(q, pc, next, off) => pull' \in [Queues -> Pulls]
           /\ [pull EXCEPT ![q] = NoPull] \in [Queues -> Pulls]
           /\ pull[q].next \in Offsets /\ pull[q].off \in Offsets \cup {Absent}
<1>1. [pc |-> pc, next |-> next, off |-> off] \in Pulls
  BY DEF Pulls
<1>2. NoPull \in Pulls
  BY BoundAssumption DEF Pulls, NoPull, Offsets, Absent
<1>3. pull[q] \in Pulls
  OBVIOUS
<1>4. pull[q].next \in Offsets /\ pull[q].off \in Offsets \cup {Absent}
  BY <1>3 DEF Pulls
<1> QED BY <1>1, <1>2, <1>4 DEF SetPull

\* What the steps of the consume requests can change of the types.
LEMMA RequestTypes ==
    ASSUME TypeOK, StateInv, CacheInv, RequestNext
    PROVE  TypeOK'
<1> USE DEF TypeOK, fateVars, stateVars, queueVars, threadVars, Replace
<1> PICK r \in requests :
      \/ StartRequest(r) \/ ReturnSuccess(r) \/ ReturnLater(r)
      \/ \E failed \in SUBSET r.msgs : SendBack(r, failed)
      \/ CheckDropped(r) \/ Commit(r)
  BY DEF RequestNext
<1>0. /\ r \in Requests /\ r.q \in Queues /\ r.msgs \in SUBSET Messages
      /\ r.round \in Nat /\ r.off \in Offsets \cup {Absent}
  BY RequestFields
<1>1. CASE StartRequest(r)
  <2>1. [r EXCEPT !.pc = "listening"] \in Requests
    BY <1>0, RequestMoves
  <2> QED BY <1>1, <2>1 DEF StartRequest
<1>2. ASSUME NEW done \in SUBSET Messages, NEW again \in SUBSET Requests,
             Remove(r, done, again), r.pc = "listening", r.q \notin dropped
      PROVE  /\ tree' \in [Queues -> SUBSET Messages]
             /\ requests' \in SUBSET Requests
  <2>1. Remaining(r.q, done) \in Offsets \cup {Absent}
    BY <1>2, ListeningPulls, RemainingType
  <2>2. [r EXCEPT !.pc = "removed", !.off = Remaining(r.q, done)] \in Requests
    BY <1>0, <2>1, RequestMoves
  <2>3. requests' \in SUBSET Requests
    BY <1>2, <2>2 DEF Remove
  <2>4. tree' \in [Queues -> SUBSET Messages]
    BY <1>0, <1>2 DEF Remove
  <2> QED BY <2>3, <2>4
<1>3. CASE ReturnSuccess(r)
  <2>1. tree' \in [Queues -> SUBSET Messages] /\ requests' \in SUBSET Requests
    BY <1>0, <1>2, <1>3 DEF ReturnSuccess
  <2>2. settled' \in SUBSET Messages
    BY <1>0, <1>3 DEF ReturnSuccess
  <2> QED BY <1>3, <2>1, <2>2 DEF ReturnSuccess
<1>4. CASE ReturnLater(r)
  BY <1>4 DEF ReturnLater
<1>5. ASSUME NEW failed \in SUBSET r.msgs, SendBack(r, failed)
      PROVE  TypeOK'
  <2>1. NewRequest(r.q, failed, r.round + 1) \in Requests
    BY <1>0, RequestsNew
  <2>2. tree' \in [Queues -> SUBSET Messages] /\ requests' \in SUBSET Requests
    <3>1. CASE failed = {}
      BY <1>0, <1>2, <1>5, <3>1 DEF SendBack
    <3>2. CASE failed # {}
      BY <1>0, <1>2, <1>5, <2>1, <3>2 DEF SendBack
    <3> QED BY <3>1, <3>2
  <2>3. settled' \in SUBSET Messages
    BY <1>0, <1>5 DEF SendBack
  <2>4. faults' \in 0..MaxFaults
    BY <1>5, BoundAssumption DEF SendBack, Fault
  <2> QED BY <1>5, <2>2, <2>3, <2>4 DEF SendBack
<1>6. CASE CheckDropped(r)
  <2>1. [r EXCEPT !.pc = "checked"] \in Requests
    BY <1>0, RequestMoves
  <2> QED BY <1>6, <2>1 DEF CheckDropped
<1>7. CASE Commit(r)
  <2>1. table' \in Offsets \cup {Absent}
    BY <1>0, <1>7 DEF Commit, UpdateOffset
  <2> QED BY <1>7, <2>1 DEF Commit
<1> QED BY <1>1, <1>3, <1>4, <1>5, <1>6, <1>7

\* The offset sent is one of the broker's, or there is none to send.
LEMMA SendTypes ==
    ASSUME broker \in Offsets, faults \in 0..MaxFaults, NEW off \in Offsets \cup {Absent},
           Send(off)
    PROVE  broker' \in Offsets /\ faults' \in 0..MaxFaults
BY BoundAssumption DEF Send, Fault, Offsets, Absent

\* The same for the steps of the pull requests and of the repair.
LEMMA PullTypes ==
    ASSUME TypeOK, StateInv, CacheInv, NEW q \in Queues,
           PullNext(q) \/ PullFails(q) \/ RepairStart(q)
    PROVE  TypeOK'
<1> USE DEF TypeOK, fateVars, stateVars, queueVars, threadVars
<1>0. /\ pull[q].next \in Offsets /\ pull[q].off \in Offsets \cup {Absent}
      /\ Last \in Offsets /\ Absent \in Offsets \cup {Absent}
  BY PullMoves, BoundAssumption DEF Offsets
<1>s. /\ \A pc \in {"none", "queued", "sent", "repair", "repairSend", "remove",
                    "removeSend"} :
           \A next \in Offsets : \A off \in Offsets \cup {Absent} :
             SetPull(q, pc, next, off) => pull' \in [Queues -> Pulls]
      /\ [pull EXCEPT ![q] = NoPull] \in [Queues -> Pulls]
  BY <1>0, PullMoves
<1>b. Stored(q) => broker' \in Offsets
  BY <1>0 DEF Stored
<1>1. CASE PullMessage(q)
  <2>1. pull' \in [Queues -> Pulls]
    BY <1>0, <1>1, <1>s DEF PullMessage
  <2> QED BY <1>1, <2>1 DEF PullMessage
<1>2. CASE PullFound(q)
  <2> USE DEF Offsets, Messages
  <2>1. PICK end \in Offsets :
          /\ end > pull[q].next /\ end - pull[q].next <= BatchSize
          /\ PutMessage(q, pull[q].next..(end - 1))
          /\ requests' = requests \cup {NewRequest(q, pull[q].next..(end - 1), 0)}
          /\ PullAgain(q, end)
    BY <1>2 DEF PullFound
  <2> DEFINE batch == pull[q].next..(end - 1)
  <2>2. Greatest(batch \cup {top[q]}) = end - 1
    <3>1. /\ pull[q].next \in Nat /\ end \in Nat /\ pull[q].next < end
          /\ top[q] \in Nat /\ (top[q] = 0 \/ top[q] < pull[q].next)
      BY <1>0, <1>2, <2>1, BoundAssumption DEF PullFound, CacheInv, Cached, Pulling
    <3> QED BY <3>1, GreatestOfBatch
  <2>3. batch \in SUBSET Messages /\ end - 1 \in Offsets
    BY <1>0, <2>1, BoundAssumption
  <2> HIDE DEF batch, Offsets, Messages
  <2>4. top' = [top EXCEPT ![q] = end - 1] /\ top' \in [Queues -> Offsets]
    <3>1. top' = [top EXCEPT ![q] = Greatest(batch \cup {top[q]})]
      BY <2>1 DEF PutMessage, batch
    <3> QED BY <2>2, <2>3, <3>1
  <2>5. NewRequest(q, batch, 0) \in Requests
    BY <2>3, RequestsNew
  <2>6. requests' \in SUBSET Requests
    BY <2>1, <2>5 DEF batch
  <2>7. tree' = [tree EXCEPT ![q] = @ \cup batch]
    BY <2>1 DEF PutMessage, batch
  <2>8. tree' \in [Queues -> SUBSET Messages]
    BY <2>3, <2>7
  <2>9. pull' \in [Queues -> Pulls]
    BY <1>0, <1>s, <2>1 DEF PullAgain
  <2> QED BY <1>2, <1>b, <2>4, <2>6, <2>8, <2>9 DEF PullFound
<1>3. CASE PullEmpty(q)
  <2>1. pull' \in [Queues -> Pulls]
    BY <1>0, <1>3, <1>s DEF PullEmpty, PullAgain
  <2>2. table' \in Offsets \cup {Absent}
    BY <1>0, <1>3 DEF PullEmpty, UpdateOffset
  <2> QED BY <1>3, <1>b, <2>1, <2>2 DEF PullEmpty
<1>4. CASE PullIllegal(q)
  <2>1. pull' \in [Queues -> Pulls]
    BY <1>0, <1>4, <1>s DEF PullIllegal
  <2> QED BY <1>4, <1>b, <2>1 DEF PullIllegal
<1>5. CASE Repair(q)
  <2>1. pull' \in [Queues -> Pulls]
    BY <1>5, <1>s DEF Repair
  <2>2. table' \in Offsets \cup {Absent}
    BY <1>0, <1>5 DEF Repair, UpdateOffset
  <2>3. dropped' \in SUBSET Queues /\ broker' \in Offsets /\ owned' \in BOOLEAN
    BY <1>0, <1>5 DEF Repair
  <2> QED BY <1>5, <2>1, <2>2, <2>3 DEF Repair
<1>6. CASE RepairSend(q)
  <2>1. pull' \in [Queues -> Pulls]
    BY <1>0, <1>6, <1>s DEF RepairSend
  <2>2. broker' \in Offsets /\ faults' \in 0..MaxFaults
    BY <1>0, <1>6, SendTypes DEF RepairSend
  <2> QED BY <1>6, <2>1, <2>2 DEF RepairSend
<1>7. CASE RemoveQueue(q)
  <2>1. pull' \in [Queues -> Pulls] /\ dropped' \in SUBSET Queues
    BY <1>0, <1>7, <1>s DEF RemoveQueue
  <2> QED BY <1>7, <2>1 DEF RemoveQueue
<1>8. CASE RemoveSend(q)
  <2>1. broker' \in Offsets /\ faults' \in 0..MaxFaults
    BY <1>0, <1>8, SendTypes DEF RemoveSend
  <2> QED BY <1>8, <1>s, <2>1 DEF RemoveSend, RemoveOffset
<1>9. CASE PullFails(q)
  <2>1. pull' \in [Queues -> Pulls] /\ broker' \in Offsets
    BY <1>0, <1>9, <1>b, <1>s DEF PullFails, PullAgain
  <2>2. faults' \in 0..MaxFaults
    BY <1>9, BoundAssumption DEF PullFails, Fault
  <2> QED BY <1>9, <2>1, <2>2 DEF PullFails
<1>10. CASE RepairStart(q)
  <2>1. pull' \in [Queues -> Pulls] /\ table' \in Offsets \cup {Absent}
    BY <1>0, <1>10, <1>s DEF RepairStart, UpdateOffset
  <2>2. faults' \in 0..MaxFaults
    BY <1>10, BoundAssumption DEF RepairStart, Fault
  <2> QED BY <1>10, <2>1, <2>2 DEF RepairStart
<1> QED BY <1>1, <1>2, <1>3, <1>4, <1>5, <1>6, <1>7, <1>8, <1>9, <1>10 DEF PullNext

\* A thread that starts to send or to put has an offset, or none.
LEMMA ThreadMoves ==
    ASSUME NEW pc \in {"rest", "send", "fetched", "put", "listed", "missed", "erase"},
           NEW off \in Offsets \cup {Absent}
    PROVE  [pc |-> pc, off |-> off] \in Threads /\ Resting \in Threads
BY DEF Threads, Resting

\* The same for rebalancing, the timer, the shutdown, a crash and other members.
LEMMA OtherTypes ==
    ASSUME TypeOK, StateInv,
           \/ Elsewhere \/ DropQueue \/ StopService \/ Crash \/ Restart
           \/ RebalanceNext \/ TimerNext \/ StopNext
    PROVE  TypeOK'
<1> USE DEF TypeOK, fateVars, stateVars, queueVars, threadVars
<1>0. /\ Absent \in Offsets \cup {Absent} /\ Last \in Offsets /\ 0 \in Offsets
      /\ 1 \in Queues /\ NoPull \in Pulls /\ Resting \in Threads
      /\ table \in Offsets \cup {Absent} /\ broker \in Offsets \cup {Absent}
      /\ rebalance.off \in Offsets \cup {Absent} /\ timer.off \in Offsets \cup {Absent}
  <2>1. Last \in Offsets /\ 0 \in Offsets /\ 1 \in Queues
    BY BoundAssumption DEF Offsets, Queues
  <2>2. NoPull \in Pulls /\ Resting \in Threads
    BY <2>1 DEF NoPull, Pulls, Resting, Threads
  <2> QED BY <2>1, <2>2 DEF Threads
<1>f. Fault => faults' \in 0..MaxFaults
  BY BoundAssumption DEF Fault
<1>1. CASE Elsewhere
  BY <1>1, <1>f DEF Elsewhere
<1>2. CASE DropQueue
  <2>1. rebalance' \in Threads
    BY <1>2, <1>0, ThreadMoves DEF DropQueue
  <2> QED BY <1>2, <1>f, <2>1 DEF DropQueue
<1>3. CASE TimerCopy
  <2>1. timer' \in Threads
    BY <1>3, <1>0, ThreadMoves DEF TimerCopy
  <2> QED BY <1>3, <1>f, <2>1 DEF TimerCopy
<1>4. CASE StopService
  BY <1>4 DEF StopService
<1>g. ASSUME NEW how \in {"stopped", "down"}, Forget(how)
      PROVE  /\ state' = how /\ current' \in Queues /\ owned' \in BOOLEAN
             /\ table' \in Offsets \cup {Absent} /\ dropped' \in SUBSET Queues
             /\ tree' \in [Queues -> SUBSET Messages] /\ top' \in [Queues -> Offsets]
             /\ pull' \in [Queues -> Pulls] /\ requests' \in SUBSET Requests
             /\ rebalance' \in Threads /\ timer' \in Threads
  BY <1>0, <1>g DEF Forget
<1>5. CASE Crash
  BY <1>5, <1>f, <1>g DEF Crash
<1>6. CASE Restart
  BY <1>6 DEF Restart
<1>7. CASE DropSend
  <2>1. broker' \in Offsets /\ faults' \in 0..MaxFaults
    BY <1>0, <1>7, SendTypes DEF DropSend
  <2> QED BY <1>0, <1>7, <2>1 DEF DropSend, RemoveOffset
<1>8. CASE AddQueue
  <2>1. rebalance' \in Threads
    <3>1. /\ [pc |-> "fetched", off |-> broker] \in Threads
          /\ [pc |-> "put", off |-> Last] \in Threads
      BY <1>0, ThreadMoves
    <3> QED BY <1>8, <3>1 DEF AddQueue
  <2>2. skipped' \in SUBSET Messages /\ faults' \in 0..MaxFaults
    BY <1>8, <1>f DEF AddQueue
  <2> QED BY <1>8, <2>1, <2>2 DEF AddQueue, RemoveOffset
<1>9. ASSUME NEW q \in Queues, PutQueue(q)
      PROVE  TypeOK'
  <2>0. rebalance.off \in Offsets
    BY <1>0, <1>9 DEF PutQueue, StateInv
  <2>1. pull' \in [Queues -> Pulls]
    BY <1>0, <1>9, <2>0, PullMoves DEF PutQueue, PullAgain
  <2>2. rebalance' \in Threads
    BY <1>0, <1>9 DEF PutQueue
  <2>3. tree' \in [Queues -> SUBSET Messages] /\ top' \in [Queues -> Offsets]
    BY <1>0, <1>9 DEF PutQueue
  <2> QED BY <1>9, <2>1, <2>2, <2>3 DEF PutQueue
<1>10. CASE TimerPersist
  <2>1. broker' \in Offsets /\ faults' \in 0..MaxFaults
    BY <1>0, <1>10, SendTypes DEF TimerPersist
  <2> QED BY <1>10, <2>1 DEF TimerPersist
<1>11. CASE TimerSend
  <2>1. broker' \in Offsets /\ faults' \in 0..MaxFaults
    BY <1>0, <1>11, SendTypes DEF TimerSend
  <2> QED BY <1>0, <1>11, <2>1 DEF TimerSend
<1>12. CASE TimerList
  <2>1. timer' \in Threads
    BY <1>12, <1>0, ThreadMoves DEF TimerList
  <2> QED BY <1>12, <1>f, <2>1 DEF TimerList
<1>13. CASE TimerErase
  BY <1>0, <1>13 DEF TimerErase, RemoveOffset
<1>14. CASE PersistAtStop
  <2>1. broker' \in Offsets /\ faults' \in 0..MaxFaults
    BY <1>0, <1>14, SendTypes DEF PersistAtStop
  <2>2. table' \in Offsets \cup {Absent}
    BY <1>0, <1>14 DEF PersistAtStop
  <2> QED BY <1>14, <2>1, <2>2 DEF PersistAtStop
<1>15. CASE LeaveGroup
  BY <1>15, <1>g DEF LeaveGroup
<1>16. CASE LeaveShared
  BY <1>16 DEF LeaveShared
<1>17. CASE TableGetsOffset
  <2>1. [rebalance EXCEPT !.pc = "put"] \in Threads
    BY DEF Threads
  <2> QED BY <1>0, <1>17, <2>1 DEF TableGetsOffset, UpdateOffset
<1> QED BY <1>1, <1>2, <1>3, <1>4, <1>5, <1>6, <1>7, <1>8, <1>9, <1>10, <1>11, <1>12,
           <1>13, <1>14, <1>15, <1>16, <1>17 DEF RebalanceNext, TimerNext, StopNext

-----------------------------------------------------------------------------
\* The states of the threads stay consistent: steps of the consume requests.
LEMMA RequestStates ==
    ASSUME TypeOK, StateInv, CacheInv, RequestNext
    PROVE  StateInv'
<1> USE DEF StateInv, Serving, Pulling, fateVars, stateVars, queueVars, threadVars
<1>1. PICK r \in requests :
        \/ StartRequest(r) \/ ReturnSuccess(r) \/ ReturnLater(r)
        \/ \E failed \in SUBSET r.msgs : SendBack(r, failed)
        \/ CheckDropped(r) \/ Commit(r)
  BY DEF RequestNext
<1>2. Serving
  BY <1>1 DEF StartRequest, ReturnSuccess, ReturnLater, SendBack, CheckDropped, Commit
<1>3. /\ UNCHANGED <<state, current, owned, dropped, rebalance>> /\ pull' = pull
  BY <1>1 DEF StartRequest, ReturnSuccess, ReturnLater, SendBack, CheckDropped, Commit
<1> QED BY <1>2, <1>3

\* Steps of the pull requests.
LEMMA PullStates ==
    ASSUME TypeOK, StateInv, CacheInv, NEW q \in Queues,
           PullNext(q) \/ PullFails(q) \/ RepairStart(q)
    PROVE  StateInv'
<1> USE DEF fateVars, stateVars, queueVars, threadVars
<1>0. state # "down"
  BY DEF StateInv, PullNext, PullFails, RepairStart, PullMessage, PullFound, PullEmpty,
         PullIllegal, Repair, RepairSend, RemoveQueue, RemoveSend
<1>1. state' = state /\ current' = current /\ rebalance' = rebalance
  BY DEF PullNext, PullFails, RepairStart, PullMessage, PullFound, PullEmpty,
         PullIllegal, Repair, RepairSend, RemoveQueue, RemoveSend
<1>2. \A r \in requests' : r \in requests \/ r.pc = "queued"
  <2>1. CASE PullFound(q)
    <3>1. PICK msgs : requests' = requests \cup {NewRequest(q, msgs, 0)}
      BY <2>1 DEF PullFound
    <3>2. NewRequest(q, msgs, 0).pc = "queued"
      BY DEF NewRequest
    <3> QED BY <3>1, <3>2
  <2>2. CASE ~PullFound(q)
    BY <2>2 DEF PullNext, PullFails, RepairStart, PullMessage, PullEmpty,
         PullIllegal, Repair, RepairSend, RemoveQueue, RemoveSend
  <2> QED BY <2>1, <2>2
<1>3. \E new : pull' = [pull EXCEPT ![q] = new]
  BY DEF PullNext, PullFails, RepairStart, PullMessage, PullFound, PullEmpty,
         PullIllegal, Repair, RepairSend, RemoveQueue, RemoveSend, SetPull, PullAgain
<1>4. ASSUME Serving, owned', current \notin dropped'
      PROVE  pull'[current].pc \in {"queued", "sent"}
  <2>1. owned /\ current \notin dropped
    BY <1>4 DEF PullNext, PullFails, RepairStart, PullMessage, PullFound, PullEmpty,
         PullIllegal, Repair, RepairSend, RemoveQueue, RemoveSend
  <2>2. pull[current].pc \in {"queued", "sent"}
    BY <1>4, <2>1 DEF StateInv, Pulling
  <2>3. CASE q # current
    BY <1>3, <2>2, <2>3 DEF TypeOK
  <2>4. CASE q = current
    <3>1. \/ PullMessage(q) \/ PullFound(q) \/ PullEmpty(q) \/ PullFails(q)
          \/ PullIllegal(q)
      BY <2>2, <2>4 DEF PullNext, Repair, RepairSend, RemoveQueue, RemoveSend, RepairStart
    <3>2. ~PullIllegal(q)
      BY <1>4, <2>4 DEF PullIllegal
    <3>3. \E pc \in {"queued", "sent"} : \E next, off : SetPull(q, pc, next, off)
      BY <1>4, <2>1, <2>4, <3>1, <3>2
         DEF PullMessage, PullFound, PullEmpty, PullFails, PullAgain, Serving
    <3> QED BY <2>4, <3>3 DEF SetPull, TypeOK
  <2> QED BY <2>3, <2>4
<1> QED BY <1>0, <1>1, <1>2, <1>4 DEF StateInv, Serving, Pulling

\* The other steps.
LEMMA OtherStates ==
    ASSUME TypeOK, StateInv,
           \/ Elsewhere \/ DropQueue \/ StopService \/ Crash \/ Restart
           \/ RebalanceNext \/ TimerNext \/ StopNext
    PROVE  StateInv'
<1> USE DEF StateInv, Serving, Pulling, fateVars, stateVars, queueVars, threadVars
<1>1. CASE Elsewhere
  BY <1>1 DEF Elsewhere
<1>2. CASE DropQueue
  BY <1>2 DEF DropQueue
<1>3. CASE LeaveShared
  BY <1>3 DEF LeaveShared
<1>4. CASE StopService
  BY <1>4 DEF StopService
<1>g. ASSUME NEW how \in {"stopped", "down"}, Forget(how) PROVE StateInv'
  BY <1>g DEF Forget, Resting, NoPull
<1>5. CASE Crash \/ LeaveGroup
  BY <1>5, <1>g DEF Crash, LeaveGroup
<1>6. CASE Restart
  BY <1>6 DEF Restart
<1>7. CASE DropSend
  BY <1>7 DEF DropSend, Resting
<1>8. CASE AddQueue
  <2>1. broker # Absent /\ Last # Absent
    BY BoundAssumption DEF TypeOK, Offsets, Absent
  <2>2. rebalance' = rebalance \/ rebalance'.off # Absent
    BY <1>8, <2>1 DEF AddQueue
  <2> QED BY <1>8, <2>2 DEF AddQueue, Running
<1>12. CASE TableGetsOffset
  <2>1. rebalance'.off = rebalance.off
    BY <1>12 DEF TableGetsOffset, TypeOK, Threads
  <2> QED BY <1>12, <2>1 DEF TableGetsOffset
<1>9. ASSUME NEW q \in Queues, PutQueue(q) PROVE StateInv'
  <2>1. pull'[q].pc = "queued" /\ rebalance'.pc = "rest" /\ current' = q
    BY <1>9 DEF PutQueue, PullAgain, SetPull, Resting, TypeOK
  <2>2. state # "down"
    BY <1>9 DEF PutQueue
  <2> QED BY <1>9, <2>1, <2>2 DEF PutQueue
<1>10. CASE TimerPersist \/ TimerList \/ TimerCopy \/ TimerSend \/ TimerErase
  BY <1>10 DEF TimerPersist, TimerList, TimerCopy, TimerSend, TimerErase
<1>11. CASE PersistAtStop
  BY <1>11 DEF PersistAtStop
<1> QED BY <1>1, <1>2, <1>3, <1>4, <1>5, <1>6, <1>7, <1>8, <1>9, <1>10, <1>11, <1>12
        DEF RebalanceNext, TimerNext, StopNext

-----------------------------------------------------------------------------
\* Safe(off)' for an offset that is given.
SafeAfter(off) == \A m \in Messages :
    m < off => m \in settled' \cup skipped' \/ m < least'

\* An offset once safe stays safe.
LEMMA SafeStays ==
    ASSUME settled \subseteq settled', skipped \subseteq skipped', least' = least
    PROVE  \A off : Safe(off) => SafeAfter(off)
BY DEF Safe, SafeAfter

\* No offset at all is safe, and so is 0, and the first message the broker has.
LEMMA SafeStart == Safe(Absent) /\ Safe(0) /\ Safe(least) /\ SafeAfter(Absent)
BY DEF Safe, SafeAfter, Absent, Messages

\* What a send makes the group's offset to be.
LEMMA SendSafe ==
    ASSUME SafeAfter(broker), NEW off, SafeAfter(off), Send(off)
    PROVE  SafeAfter(broker')
BY DEF Send

\* The same for the increase-only update of the offset table, and the other one.
LEMMA UpdateSafe ==
    ASSUME SafeAfter(table), NEW off, SafeAfter(off), NEW increaseOnly,
           UpdateOffset(off, increaseOnly)
    PROVE  SafeAfter(table')
BY DEF UpdateOffset

\* The parts of OffsetInv'.
LEMMA OffsetParts ==
    ASSUME SafeAfter(broker'), SafeAfter(table'), SafeAfter(rebalance'.off),
           SafeAfter(timer'.off), \A r \in requests' : SafeAfter(r.off),
           \A q \in Queues : SafeAfter(pull'[q].off)
    PROVE  OffsetInv'
BY DEF OffsetInv, Safe, SafeAfter

\* What is settled, skipped or deleted stays so.
LEMMA FateStays ==
    ASSUME Next
    PROVE  settled \subseteq settled' /\ skipped \subseteq skipped' /\ least' = least
<1> USE DEF fateVars
<1>1. CASE Elsewhere \/ DropQueue \/ StopService \/ Crash \/ Restart
  BY <1>1 DEF Elsewhere, DropQueue, StopService, Crash, Restart
<1>2. CASE RequestNext
  BY <1>2 DEF RequestNext, StartRequest, ReturnSuccess, ReturnLater, SendBack, CheckDropped,
              Commit
<1>3. CASE RebalanceNext \/ TimerNext \/ StopNext
  BY <1>3 DEF RebalanceNext, TimerNext, StopNext, DropSend, AddQueue, TableGetsOffset, PutQueue,
              TimerPersist, TimerList, TimerCopy, TimerSend, TimerErase, PersistAtStop,
              LeaveGroup, LeaveShared
<1>4. ASSUME NEW q \in Queues, PullNext(q) \/ PullFails(q) \/ RepairStart(q)
      PROVE  fateVars' = fateVars
  BY <1>4 DEF PullNext, PullFails, RepairStart, PullMessage, PullFound, PullEmpty,
              PullIllegal, Repair, RepairSend, RemoveQueue, RemoveSend
<1> QED BY <1>1, <1>2, <1>3, <1>4 DEF Next

\* The offsets stay safe: steps of the consume requests.
LEMMA RequestOffsets ==
    ASSUME TypeOK, StateInv, CacheInv, OffsetInv, Next, RequestNext
    PROVE  OffsetInv'
<1> USE DEF fateVars, stateVars, queueVars, threadVars
<1>0. PICK r \in requests :
        \/ StartRequest(r) \/ ReturnSuccess(r) \/ ReturnLater(r)
        \/ \E failed \in SUBSET r.msgs : SendBack(r, failed)
        \/ CheckDropped(r) \/ Commit(r)
  BY DEF RequestNext
<1>f. r \in Requests /\ r.msgs \in SUBSET Messages
  BY RequestFields DEF TypeOK
<1>s. \A off : Safe(off) => SafeAfter(off)
  BY FateStays, SafeStays
<1>1. broker' = broker /\ rebalance' = rebalance /\ timer' = timer /\ pull' = pull
  BY <1>0 DEF StartRequest, ReturnSuccess, ReturnLater, SendBack, CheckDropped, Commit
<1>2. SafeAfter(table')
  <2>1. CASE Commit(r)
    BY <1>s, <2>1, UpdateSafe DEF Commit, OffsetInv
  <2>2. CASE table' = table
    BY <1>s, <2>2 DEF OffsetInv
  <2> QED BY <1>0, <2>1, <2>2 DEF StartRequest, ReturnSuccess, ReturnLater, SendBack,
                                  CheckDropped
<1>3. ASSUME NEW done \in SUBSET Messages, settled' = settled \cup done, skipped' = skipped,
             least' = least, r.pc = "listening", r.q \notin dropped
      PROVE  SafeAfter(Remaining(r.q, done))
  BY <1>3, ListeningPulls, RemainingSafe DEF SafeAfter
<1>4. ASSUME NEW pc PROVE [r EXCEPT !.pc = pc].off = r.off
  BY <1>f DEF Requests
<1>5. ASSUME NEW off PROVE [r EXCEPT !.pc = "removed", !.off = off].off = off
  BY <1>f DEF Requests
<1>6. \A s \in requests' : SafeAfter(s.off)
  <2>1. \A s \in requests : SafeAfter(s.off)
    BY <1>s DEF OffsetInv
  <2>2. CASE StartRequest(r)
    BY <1>4, <2>1, <2>2 DEF StartRequest, Replace
  <2>3. CASE ReturnSuccess(r)
    <3>1. CASE r.q \in dropped
      BY <2>1, <2>3, <3>1 DEF ReturnSuccess, Replace
    <3>2. CASE r.q \notin dropped
      <4>1. SafeAfter(Remaining(r.q, r.msgs))
        BY <1>3, <1>f, <2>3, <3>2 DEF ReturnSuccess
      <4>2. requests' = (requests \ {r})
              \cup {[r EXCEPT !.pc = "removed", !.off = Remaining(r.q, r.msgs)]}
        BY <2>3, <3>2 DEF ReturnSuccess, Remove, Replace
      <4> QED BY <1>5, <2>1, <4>1, <4>2
    <3> QED BY <3>1, <3>2
  <2>4. CASE ReturnLater(r)
    BY <2>1, <2>4 DEF ReturnLater, Replace
  <2>5. ASSUME NEW failed \in SUBSET r.msgs, SendBack(r, failed)
        PROVE  \A s \in requests' : SafeAfter(s.off)
    <3>1. SafeAfter(Remaining(r.q, r.msgs \ failed))
      BY <1>3, <1>f, <2>5 DEF SendBack
    <3>2. SafeAfter(NewRequest(r.q, failed, r.round + 1).off)
      BY SafeStart DEF NewRequest
    <3> QED BY <1>5, <2>1, <2>5, <3>1, <3>2 DEF SendBack, Remove, Replace
  <2>6. CASE CheckDropped(r)
    BY <1>4, <2>1, <2>6 DEF CheckDropped, Replace
  <2>7. CASE Commit(r)
    BY <2>1, <2>7 DEF Commit, Replace
  <2> QED BY <1>0, <2>2, <2>3, <2>4, <2>5, <2>6, <2>7
<1> QED BY <1>1, <1>2, <1>6, <1>s, OffsetParts DEF OffsetInv

\* The steps of the pull requests and of the repair.
LEMMA PullOffsets ==
    ASSUME TypeOK, StateInv, CacheInv, OffsetInv, Next, NEW q \in Queues,
           PullNext(q) \/ PullFails(q) \/ RepairStart(q)
    PROVE  OffsetInv'
<1> USE DEF fateVars, stateVars, queueVars, threadVars
<1>0. /\ SafeAfter(broker) /\ SafeAfter(table) /\ SafeAfter(rebalance.off)
      /\ SafeAfter(timer.off) /\ SafeAfter(Absent) /\ SafeAfter(least)
      /\ \A r \in requests : SafeAfter(r.off)
      /\ \A p \in Queues : SafeAfter(pull[p].off)
      /\ pull[q].pc \notin {"none", "queued", "sent"} => SafeAfter(pull[q].next)
  BY FateStays, SafeStays, SafeStart DEF OffsetInv, CacheInv, Cached
<1>1. rebalance' = rebalance /\ timer' = timer
  BY DEF PullNext, PullFails, RepairStart, PullMessage, PullFound, PullEmpty,
         PullIllegal, Repair, RepairSend, RemoveQueue, RemoveSend
<1>2. \A r \in requests' : SafeAfter(r.off)
  <2>1. CASE PullFound(q)
    <3>1. PICK msgs : requests' = requests \cup {NewRequest(q, msgs, 0)}
      BY <2>1 DEF PullFound
    <3>2. NewRequest(q, msgs, 0).off = Absent
      BY DEF NewRequest
    <3> QED BY <1>0, <3>1, <3>2
  <2>2. CASE ~PullFound(q)
    BY <1>0, <2>2 DEF PullNext, PullFails, RepairStart, PullMessage, PullEmpty,
         PullIllegal, Repair, RepairSend, RemoveQueue, RemoveSend
  <2> QED BY <2>1, <2>2
<1>p. ASSUME NEW pc, NEW next, NEW off, SafeAfter(off), SetPull(q, pc, next, off)
      PROVE  \A p \in Queues : SafeAfter(pull'[p].off)
  BY <1>0, <1>p DEF SetPull, TypeOK
<1>n. ASSUME pull' = [pull EXCEPT ![q] = NoPull]
      PROVE  \A p \in Queues : SafeAfter(pull'[p].off)
  BY <1>0, <1>n DEF NoPull, TypeOK
<1>b. Stored(q) => SafeAfter(broker')
  BY <1>0 DEF Stored
<1>3. CASE PullMessage(q)
  <2>1. \A p \in Queues : SafeAfter(pull'[p].off)
    BY <1>0, <1>3, <1>n, <1>p DEF PullMessage
  <2> QED BY <1>0, <1>1, <1>2, <1>3, <2>1, OffsetParts DEF PullMessage
<1>4. CASE PullFound(q)
  <2>1. \A p \in Queues : SafeAfter(pull'[p].off)
    BY <1>0, <1>4, <1>p DEF PullFound, PullAgain
  <2> QED BY <1>0, <1>1, <1>2, <1>4, <1>b, <2>1, OffsetParts DEF PullFound
<1>5. CASE PullEmpty(q)
  <2>1. \A p \in Queues : SafeAfter(pull'[p].off)
    BY <1>0, <1>5, <1>p DEF PullEmpty, PullAgain
  <2>2. CASE tree[q] = {}
    <3>1. SafeAfter(Last)
      BY <1>5, <2>2 DEF PullEmpty, CacheInv, Cached, Covered, Pulling, SafeAfter, fateVars
    <3>2. SafeAfter(table')
      BY <1>0, <1>5, <2>2, <3>1, UpdateSafe DEF PullEmpty
    <3> QED BY <1>0, <1>1, <1>2, <1>5, <1>b, <2>1, <3>2, OffsetParts DEF PullEmpty
  <2>3. CASE tree[q] # {}
    BY <1>0, <1>1, <1>2, <1>5, <1>b, <2>1, <2>3, OffsetParts DEF PullEmpty
  <2> QED BY <2>2, <2>3
<1>6. CASE PullIllegal(q)
  <2>1. \A p \in Queues : SafeAfter(pull'[p].off)
    BY <1>0, <1>6, <1>p DEF PullIllegal
  <2> QED BY <1>0, <1>1, <1>2, <1>6, <1>b, <2>1, OffsetParts DEF PullIllegal
<1>7. CASE Repair(q)
  <2>1. SafeAfter(broker') /\ SafeAfter(table')
    BY <1>0, <1>7, UpdateSafe DEF Repair
  <2> QED BY <1>0, <1>1, <1>2, <1>7, <1>n, <2>1, OffsetParts DEF Repair
<1>8. CASE RepairSend(q)
  <2>1. SafeAfter(broker') /\ \A p \in Queues : SafeAfter(pull'[p].off)
    BY <1>0, <1>8, <1>p, SendSafe DEF RepairSend
  <2> QED BY <1>0, <1>1, <1>2, <1>8, <2>1, OffsetParts DEF RepairSend
<1>9. CASE RemoveQueue(q)
  <2>1. \A p \in Queues : SafeAfter(pull'[p].off)
    BY <1>0, <1>9, <1>n, <1>p DEF RemoveQueue
  <2> QED BY <1>0, <1>1, <1>2, <1>9, <2>1, OffsetParts DEF RemoveQueue
<1>10. CASE RemoveSend(q)
  <2>1. SafeAfter(broker') /\ SafeAfter(table')
    BY <1>0, <1>10, SendSafe DEF RemoveSend, RemoveOffset
  <2> QED BY <1>0, <1>1, <1>2, <1>10, <1>n, <2>1, OffsetParts DEF RemoveSend
<1>11. CASE PullFails(q)
  <2>1. SafeAfter(broker') /\ \A p \in Queues : SafeAfter(pull'[p].off)
    BY <1>0, <1>11, <1>b, <1>p DEF PullFails, PullAgain
  <2> QED BY <1>0, <1>1, <1>2, <1>11, <2>1, OffsetParts DEF PullFails
<1>12. CASE RepairStart(q)
  <2>1. SafeAfter(table') /\ \A p \in Queues : SafeAfter(pull'[p].off)
    BY <1>0, <1>12, <1>p, UpdateSafe DEF RepairStart
  <2> QED BY <1>0, <1>1, <1>2, <1>12, <2>1, OffsetParts DEF RepairStart
<1> QED BY <1>3, <1>4, <1>5, <1>6, <1>7, <1>8, <1>9, <1>10, <1>11, <1>12 DEF PullNext

\* The other steps.
LEMMA OtherOffsets ==
    ASSUME TypeOK, StateInv, CacheInv, OffsetInv, Next,
           \/ Elsewhere \/ DropQueue \/ StopService \/ Crash \/ Restart
           \/ RebalanceNext \/ TimerNext \/ StopNext
    PROVE  OffsetInv'
<1> USE DEF fateVars, stateVars, queueVars, threadVars
<1>0. /\ SafeAfter(broker) /\ SafeAfter(table) /\ SafeAfter(rebalance.off)
      /\ SafeAfter(timer.off) /\ SafeAfter(Absent)
      /\ \A r \in requests : SafeAfter(r.off)
      /\ \A p \in Queues : SafeAfter(pull[p].off)
  BY FateStays, SafeStays, SafeStart DEF OffsetInv
<1>r. SafeAfter(Resting.off)
  BY <1>0 DEF Resting
<1>1. CASE Elsewhere
  <2>1. SafeAfter(broker')
    BY <1>1 DEF Elsewhere, Safe, SafeAfter
  <2> QED BY <1>0, <1>1, <2>1, OffsetParts DEF Elsewhere
<1>2. CASE DropQueue
  BY <1>0, <1>2, OffsetParts DEF DropQueue
<1>3. CASE TimerCopy
  BY <1>0, <1>3, <1>r, OffsetParts DEF TimerCopy
<1>4. CASE StopService \/ Restart
  BY <1>0, <1>4, OffsetParts DEF StopService, Restart
<1>5. ASSUME NEW how \in {"stopped", "down"}, Forget(how), broker' = broker
      PROVE  OffsetInv'
  <2>1. \A q \in Queues : SafeAfter(pull'[q].off)
    BY <1>0, <1>5 DEF Forget, NoPull
  <2> QED BY <1>0, <1>5, <1>r, <2>1, OffsetParts DEF Forget
<1>6. CASE Crash \/ LeaveGroup
  BY <1>5, <1>6 DEF Crash, LeaveGroup
<1>7. CASE DropSend
  <2>1. SafeAfter(broker')
    BY <1>0, <1>7, SendSafe DEF DropSend
  <2> QED BY <1>0, <1>7, <1>r, <2>1, OffsetParts DEF DropSend, RemoveOffset
<1>8. CASE AddQueue
  <2>1. SafeAfter(rebalance'.off)
    <3>1. CASE skipped' = skipped \cup (Messages \ settled) /\ rebalance'.off = Last
      BY <1>8, <3>1 DEF AddQueue, SafeAfter
    <3> QED BY <1>0, <1>8, <3>1 DEF AddQueue
  <2> QED BY <1>0, <1>8, <2>1, OffsetParts DEF AddQueue, RemoveOffset
<1>9. ASSUME NEW q \in Queues, PutQueue(q) PROVE OffsetInv'
  <2>2. \A p \in Queues : SafeAfter(pull'[p].off)
    BY <1>0, <1>9 DEF PutQueue, PullAgain, SetPull, TypeOK
  <2> QED BY <1>0, <1>9, <1>r, <2>2, OffsetParts DEF PutQueue
<1>10. CASE TimerPersist
  <2>1. SafeAfter(broker')
    BY <1>0, <1>10, SendSafe DEF TimerPersist
  <2> QED BY <1>0, <1>10, <2>1, OffsetParts DEF TimerPersist
<1>11. CASE TimerSend
  <2>1. SafeAfter(broker')
    BY <1>0, <1>11, SendSafe DEF TimerSend
  <2> QED BY <1>0, <1>11, <1>r, <2>1, OffsetParts DEF TimerSend
<1>12. CASE TimerList
  BY <1>0, <1>12, OffsetParts DEF TimerList
<1>13. CASE TimerErase
  BY <1>0, <1>13, <1>r, OffsetParts DEF TimerErase, RemoveOffset
<1>14. CASE PersistAtStop
  <2>1. SafeAfter(broker') /\ SafeAfter(table')
    BY <1>0, <1>14, SendSafe DEF PersistAtStop
  <2> QED BY <1>0, <1>14, <2>1, OffsetParts DEF PersistAtStop
<1>15. CASE LeaveShared
  BY <1>0, <1>15, OffsetParts DEF LeaveShared
<1>16. CASE TableGetsOffset
  <2>1. rebalance'.off = rebalance.off
    BY <1>16 DEF TableGetsOffset, TypeOK, Threads
  <2>2. SafeAfter(table')
    BY <1>0, <1>16, UpdateSafe DEF TableGetsOffset
  <2> QED BY <1>0, <1>16, <2>1, <2>2, OffsetParts DEF TableGetsOffset
<1> QED BY <1>1, <1>2, <1>3, <1>4, <1>6, <1>7, <1>8, <1>9, <1>10, <1>11, <1>12, <1>13,
           <1>14, <1>15, <1>16 DEF RebalanceNext, TimerNext, StopNext

-----------------------------------------------------------------------------
\* The caches stay covered: steps of the consume requests.
LEMMA RequestCaches ==
    ASSUME TypeOK, StateInv, CacheInv, Next, RequestNext
    PROVE  CacheInv'
<1> USE DEF fateVars, stateVars, queueVars, threadVars
<1>0. PICK r \in requests :
        \/ StartRequest(r) \/ ReturnSuccess(r) \/ ReturnLater(r)
        \/ \E failed \in SUBSET r.msgs : SendBack(r, failed)
        \/ CheckDropped(r) \/ Commit(r)
  BY DEF RequestNext
<1>f. r \in Requests /\ r.q \in Queues
  BY RequestFields DEF TypeOK
<1>1. /\ pull' = pull /\ top' = top /\ state' = state /\ dropped' = dropped
      /\ least' = least /\ skipped' = skipped
  BY <1>0 DEF StartRequest, ReturnSuccess, ReturnLater, SendBack, CheckDropped, Commit
<1>2. ASSUME NEW done, NEW again, Remove(r, done, again),
             settled' = settled \cup done
      PROVE  \A q \in Queues : /\ tree'[q] \subseteq tree[q]
                               /\ tree[q] \subseteq tree'[q] \cup settled'
  BY <1>2 DEF Remove, TypeOK
<1>3. \A q \in Queues : /\ tree'[q] \subseteq tree[q]
                        /\ tree[q] \subseteq tree'[q] \cup settled'
                        /\ settled \subseteq settled'
  <2>1. CASE ReturnSuccess(r)
    BY <1>2, <2>1 DEF ReturnSuccess
  <2>2. ASSUME NEW failed \in SUBSET r.msgs, SendBack(r, failed)
        PROVE  \A q \in Queues : /\ tree'[q] \subseteq tree[q]
                                 /\ tree[q] \subseteq tree'[q] \cup settled'
                                 /\ settled \subseteq settled'
    BY <1>2, <2>2 DEF SendBack
  <2>3. CASE StartRequest(r) \/ ReturnLater(r) \/ CheckDropped(r) \/ Commit(r)
    BY <2>3 DEF StartRequest, ReturnLater, CheckDropped, Commit
  <2> QED BY <1>0, <2>1, <2>2, <2>3
<1>4. \A s \in requests' : s \in requests \/ s.q = r.q
  <2>0. ASSUME NEW pc, NEW off
        PROVE  /\ [r EXCEPT !.pc = pc].q = r.q
               /\ [r EXCEPT !.pc = pc, !.off = off].q = r.q
    BY <1>f DEF Requests
  <2>1. ASSUME NEW msgs, NEW round PROVE NewRequest(r.q, msgs, round).q = r.q
    BY DEF NewRequest
  <2>2. ASSUME NEW done, NEW again, Remove(r, done, again)
        PROVE  \A s \in requests' : s \in requests \/ s.q = r.q \/ s \in again
    <3>1. [r EXCEPT !.pc = "removed", !.off = Remaining(r.q, done)].q = r.q
      BY <2>0
    <3> QED BY <2>2, <3>1 DEF Remove, Replace
  <2>3. CASE StartRequest(r)
    BY <2>0, <2>3 DEF StartRequest, Replace
  <2>4. CASE ReturnSuccess(r)
    <3>1. CASE r.q \in dropped
      BY <2>4, <3>1 DEF ReturnSuccess, Replace
    <3>2. CASE r.q \notin dropped
      BY <2>2, <2>4, <3>2 DEF ReturnSuccess
    <3> QED BY <3>1, <3>2
  <2>5. ASSUME NEW failed \in SUBSET r.msgs, SendBack(r, failed)
        PROVE  \A s \in requests' : s \in requests \/ s.q = r.q
    <3>1. CASE failed = {}
      BY <2>2, <2>5, <3>1 DEF SendBack
    <3>2. CASE failed # {}
      BY <2>1, <2>2, <2>5, <3>2 DEF SendBack
    <3> QED BY <3>1, <3>2
  <2>6. CASE CheckDropped(r)
    BY <2>0, <2>6 DEF CheckDropped, Replace
  <2>7. CASE ReturnLater(r) \/ Commit(r)
    BY <2>7 DEF ReturnLater, Commit, Replace
  <2> QED BY <1>0, <2>3, <2>4, <2>5, <2>6, <2>7
<1>5. ASSUME NEW q \in Queues PROVE Cached(q)'
  <2>1. Cached(q)
    BY DEF CacheInv
  <2>2. Pulling(q) => Covered(q)'
    BY <1>1, <1>3, <2>1 DEF Cached, Covered
  <2>3. Pulling(q) => \A m \in tree'[q] : m < pull[q].next
    BY <1>3, <2>1 DEF Cached
  <2>4. pull'[q].pc \notin {"none", "queued", "sent"} => Safe(pull[q].next)'
    BY <1>1, <1>3, <2>1 DEF Cached, Safe
  <2>5. Serving /\ q \notin dropped /\ ~Pulling(q) =>
          pull[q].pc = "none" /\ \A s \in requests' : s.q # q
    BY <1>4, <2>1 DEF Cached
  <2> QED BY <1>1, <2>1, <2>2, <2>3, <2>4, <2>5 DEF Cached, Pulling, Serving
<1> QED BY <1>5 DEF CacheInv

\* The steps of the pull requests and of the repair.
LEMMA PullCaches ==
    ASSUME TypeOK, StateInv, CacheInv, Next, NEW q \in Queues,
           PullNext(q) \/ PullFails(q) \/ RepairStart(q)
    PROVE  CacheInv'
<1> USE DEF fateVars, stateVars, queueVars, threadVars
<1>1. UNCHANGED <<state, fateVars>> /\ dropped \subseteq dropped'
  BY DEF PullNext, PullFails, RepairStart, PullMessage, PullFound, PullEmpty,
         PullIllegal, Repair, RepairSend, RemoveQueue, RemoveSend
<1>2. \A s \in requests' : s \in requests \/ s.q = q
  <2>1. CASE PullFound(q)
    <3>1. PICK msgs : requests' = requests \cup {NewRequest(q, msgs, 0)}
      BY <2>1 DEF PullFound
    <3> QED BY <2>1, <3>1 DEF NewRequest
  <2>2. CASE ~PullFound(q)
    BY <2>2 DEF PullNext, PullFails, RepairStart, PullMessage, PullEmpty,
         PullIllegal, Repair, RepairSend, RemoveQueue, RemoveSend
  <2> QED BY <2>1, <2>2
<1>3. PICK new : pull' = [pull EXCEPT ![q] = new]
  <2>1. CASE PullFound(q)
    <3>1. PICK end \in Offsets : PullAgain(q, end)
      BY <2>1 DEF PullFound
    <3> QED BY <3>1 DEF PullAgain, SetPull
  <2>2. CASE ~PullFound(q)
    BY <2>2 DEF PullNext, PullFails, RepairStart, PullMessage, PullEmpty, PullIllegal,
         Repair, RepairSend, RemoveQueue, RemoveSend, SetPull, PullAgain
  <2> QED BY <2>1, <2>2
<1>q. pull'[q] = new
  BY <1>3 DEF TypeOK
<1>4. ASSUME NEW p \in Queues, p # q PROVE Cached(p)'
  <2>1. pull'[p] = pull[p]
    BY <1>3, <1>4 DEF TypeOK
  <2>2. tree'[p] = tree[p] /\ top'[p] = top[p]
    <3>1. CASE PullFound(q)
      BY <1>4, <3>1 DEF PullFound, PutMessage, TypeOK
    <3>2. CASE ~PullFound(q)
      BY <3>2 DEF PullNext, PullFails, RepairStart, PullMessage, PullEmpty,
         PullIllegal, Repair, RepairSend, RemoveQueue, RemoveSend
    <3> QED BY <3>1, <3>2
  <2>3. Cached(p)
    BY DEF CacheInv
  <2>4. Serving /\ p \notin dropped' /\ ~Pulling(p) =>
          pull[p].pc = "none" /\ \A s \in requests' : s.q # p
    BY <1>1, <1>2, <1>4, <2>3 DEF Cached
  <2>5. Covered(p) => Covered(p)'
    BY <1>1, <2>1, <2>2 DEF Covered
  <2>6. Safe(pull[p].next) => Safe(pull[p].next)'
    BY <1>1, <2>1 DEF Safe
  <2> QED BY <1>1, <2>1, <2>2, <2>3, <2>4, <2>5, <2>6 DEF Cached, Pulling, Serving
<1>5. Cached(q)
  BY DEF CacheInv
<1>n. ASSUME new.pc = "none", q \in dropped' \/ ~Serving PROVE Cached(q)'
  BY <1>1, <1>n, <1>q DEF Cached, Pulling, Serving
<1>s. ASSUME new.pc \notin {"none", "queued", "sent"}, q \in dropped' \/ ~Serving,
             Safe(new.next)
      PROVE  Cached(q)'
  BY <1>1, <1>s, <1>q DEF Cached, Pulling, Serving, Safe
<1>p. ASSUME Pulling(q), new.pc \in {"queued", "sent"}, new.next = pull[q].next,
             UNCHANGED queueVars
      PROVE  Cached(q)'
  <2>1. Covered(q)'
    BY <1>1, <1>5, <1>p, <1>q DEF Cached, Covered
  <2> QED BY <1>5, <1>p, <1>q, <2>1 DEF Cached, Pulling
<1>d. pull[q].pc \notin {"none", "queued", "sent"} =>
        (q \in dropped' \/ ~Serving) /\ Safe(pull[q].next)
  BY <1>1, <1>5 DEF Cached, Pulling
<1>x. ASSUME NEW pc, NEW next, NEW off, SetPull(q, pc, next, off)
      PROVE  new.pc = pc /\ new.next = next
  BY <1>q, <1>x DEF SetPull, TypeOK
<1>y. pull' = [pull EXCEPT ![q] = NoPull] => new.pc = "none"
  BY <1>q DEF NoPull, TypeOK
<1>6. ASSUME PullMessage(q) PROVE Cached(q)'
  <2>1. CASE pull' = [pull EXCEPT ![q] = NoPull]
    <3>1. q \in dropped' \/ ~Serving \/ new.pc = "sent"
      BY <1>1, <1>6, <1>x DEF PullMessage, Serving
    <3> QED BY <1>n, <1>y, <2>1, <3>1
  <2>2. CASE pull' # [pull EXCEPT ![q] = NoPull]
    BY <1>6, <1>p, <1>x, <2>2 DEF PullMessage, Pulling
  <2> QED BY <2>1, <2>2
<1>7. ASSUME PullFound(q) PROVE Cached(q)'
  <2> USE DEF Offsets, Messages
  <2>1. PICK end \in Offsets :
          /\ end > pull[q].next /\ end - pull[q].next <= BatchSize
          /\ PutMessage(q, pull[q].next..(end - 1))
          /\ PullAgain(q, end)
    BY <1>7 DEF PullFound
  <2>2. /\ pull[q].next \in Nat /\ end \in Nat /\ pull[q].next < end
        /\ top[q] \in Nat /\ (top[q] = 0 \/ top[q] < pull[q].next)
    <3>1. pull[q].next \in Offsets
      BY DEF TypeOK, Pulls
    <3> QED BY <1>5, <1>7, <2>1, <3>1, BoundAssumption
            DEF PullFound, Cached, Pulling, TypeOK
  <2>3. Greatest((pull[q].next..(end - 1)) \cup {top[q]}) = end - 1
    BY <2>2, GreatestOfBatch
  <2>4. top'[q] = end - 1 /\ tree'[q] = tree[q] \cup (pull[q].next..(end - 1))
    BY <2>1, <2>3 DEF PutMessage, TypeOK
  <2>5. new.pc = "queued" /\ new.next = end
    BY <1>x, <2>1 DEF PullAgain
  <2>6. Covered(q)'
    <3>1. Covered(q)
      BY <1>5, <1>7 DEF PullFound, Cached, Pulling
    <3>2. ASSUME NEW m \in Messages, m < end
          PROVE  m \in tree'[q] \cup settled \cup skipped \/ m < least
      BY <2>2, <2>4, <3>1, <3>2, BoundAssumption DEF Covered
    <3> QED BY <1>1, <1>q, <2>5, <3>2 DEF Covered
  <2>7. \A m \in tree'[q] : m < end
    <3>1. \A m \in tree[q] : m \in Int /\ m < pull[q].next
      BY <1>5, <1>7, BoundAssumption DEF PullFound, Cached, Pulling, TypeOK
    <3> QED BY <2>2, <2>4, <3>1
  <2>8. top'[q] < end
    BY <2>2, <2>4
  <2> QED BY <1>q, <2>5, <2>6, <2>7, <2>8 DEF Cached, Pulling
<1>8. ASSUME PullEmpty(q) PROVE Cached(q)'
  BY <1>8, <1>p, <1>x DEF PullEmpty, PullAgain, Pulling
<1>9. ASSUME PullIllegal(q) PROVE Cached(q)'
  <2>1. Safe(least) /\ q \in dropped'
    BY <1>9, SafeStart DEF PullIllegal
  <2> QED BY <1>9, <1>s, <1>x, <2>1 DEF PullIllegal
<1>10. ASSUME Repair(q) PROVE Cached(q)'
  BY <1>10, <1>d, <1>n, <1>y DEF Repair
<1>11. ASSUME RepairSend(q) PROVE Cached(q)'
  BY <1>11, <1>d, <1>s, <1>x DEF RepairSend
<1>12. ASSUME RemoveQueue(q) PROVE Cached(q)'
  <2>1. CASE owned
    BY <1>12, <1>d, <1>s, <1>x, <2>1 DEF RemoveQueue
  <2>2. CASE ~owned
    BY <1>12, <1>d, <1>n, <1>y, <2>2 DEF RemoveQueue
  <2> QED BY <2>1, <2>2
<1>13. ASSUME RemoveSend(q) PROVE Cached(q)'
  BY <1>13, <1>d, <1>n, <1>y DEF RemoveSend
<1>14. ASSUME PullFails(q) PROVE Cached(q)'
  BY <1>14, <1>p, <1>x DEF PullFails, PullAgain, Pulling
<1>15. ASSUME RepairStart(q) PROVE Cached(q)'
  BY <1>15, <1>d, <1>s, <1>x DEF RepairStart
<1>16. Cached(q)'
  BY <1>6, <1>7, <1>8, <1>9, <1>10, <1>11, <1>12, <1>13, <1>14, <1>15 DEF PullNext
<1> QED BY <1>4, <1>16 DEF CacheInv

\* The other steps.
LEMMA OtherCaches ==
    ASSUME TypeOK, StateInv, OffsetInv, CacheInv, Next,
           \/ Elsewhere \/ DropQueue \/ StopService \/ Crash \/ Restart
           \/ RebalanceNext \/ TimerNext \/ StopNext
    PROVE  CacheInv'
<1> USE DEF fateVars, stateVars, queueVars, threadVars
<1>1. settled \subseteq settled' /\ skipped \subseteq skipped' /\ least' = least
  BY FateStays
<1>2. ASSUME NEW q \in Queues, pull'[q] = pull[q], tree'[q] = tree[q], top'[q] = top[q],
             \/ UNCHANGED <<state, requests>> /\ (q \in dropped => q \in dropped')
             \/ Serving' => Serving /\ UNCHANGED <<requests, dropped>>
             \/ state = "down" /\ UNCHANGED requests
      PROVE  Cached(q)'
  <2>1. Cached(q)
    BY DEF CacheInv
  <2>2. Covered(q) => Covered(q)'
    BY <1>1, <1>2 DEF Covered
  <2>3. Safe(pull[q].next) => Safe(pull[q].next)'
    BY <1>1, <1>2 DEF Safe
  <2>4. (Serving /\ q \notin dropped /\ ~Pulling(q))' =>
          pull[q].pc = "none" /\ \A r \in requests' : r.q # q
    BY <1>2, <2>1 DEF Cached, Serving, Pulling, StateInv
  <2> QED BY <1>2, <2>1, <2>2, <2>3, <2>4 DEF Cached, Pulling
<1>3. CASE Elsewhere
  BY <1>2, <1>3 DEF Elsewhere, CacheInv
<1>4. CASE DropQueue
  BY <1>2, <1>4 DEF DropQueue, CacheInv
<1>5. CASE LeaveShared
  BY <1>2, <1>5 DEF LeaveShared, CacheInv, Serving
<1>6. CASE StopService
  BY <1>2, <1>6 DEF StopService, CacheInv, Serving
<1>7. CASE Restart
  BY <1>2, <1>7 DEF Restart, CacheInv
<1>8. ASSUME NEW how \in {"stopped", "down"}, Forget(how) PROVE CacheInv'
  <2>1. \A q \in Queues : pull'[q].pc = "none"
    BY <1>8 DEF Forget, NoPull
  <2> QED BY <1>8, <2>1 DEF Forget, CacheInv, Cached, Pulling, Serving
<1>9. CASE Crash \/ LeaveGroup
  BY <1>8, <1>9 DEF Crash, LeaveGroup
<1>10. CASE DropSend
  BY <1>2, <1>10 DEF DropSend, CacheInv
<1>11. CASE AddQueue \/ TableGetsOffset
  BY <1>2, <1>11 DEF AddQueue, TableGetsOffset, CacheInv
<1>12. ASSUME NEW q \in Queues, PutQueue(q) PROVE CacheInv'
  <2>1. ASSUME NEW p \in Queues, p # q PROVE Cached(p)'
    <3>1. pull'[p] = pull[p] /\ tree'[p] = tree[p] /\ top'[p] = top[p]
      BY <1>12, <2>1 DEF PutQueue, PullAgain, SetPull, TypeOK
    <3>2. state' = state /\ requests' = requests /\ (p \in dropped => p \in dropped')
      BY <1>12, <2>1 DEF PutQueue
    <3> QED BY <1>2, <3>1, <3>2
  <2>2. Cached(q)'
    <3>1. /\ tree'[q] = {} /\ top'[q] = 0
          /\ pull'[q].pc = "queued" /\ pull'[q].next = rebalance.off
      BY <1>12 DEF PutQueue, PullAgain, SetPull, TypeOK
    <3>2. Covered(q)'
      BY <1>1, <3>1 DEF Covered, OffsetInv, Safe
    <3> QED BY <3>1, <3>2 DEF Cached, Pulling
  <2> QED BY <2>1, <2>2 DEF CacheInv
<1>13. CASE TimerPersist \/ TimerList \/ TimerCopy \/ TimerSend \/ TimerErase
  BY <1>2, <1>13 DEF TimerPersist, TimerList, TimerCopy, TimerSend, TimerErase, CacheInv
<1>14. CASE PersistAtStop
  BY <1>2, <1>14 DEF PersistAtStop, CacheInv, Serving
<1> QED BY <1>3, <1>4, <1>5, <1>6, <1>7, <1>9, <1>10, <1>11, <1>12, <1>13, <1>14
        DEF RebalanceNext, TimerNext, StopNext

-----------------------------------------------------------------------------
\* What the theorems rest on: it holds at first and every step preserves it.
Inv == TypeOK /\ StateInv /\ OffsetInv /\ CacheInv

\* It holds at first.
LEMMA InvInit == Init => Inv
<1> SUFFICES ASSUME Init PROVE Inv
  OBVIOUS
<1>1. TypeOK
  BY TypeInit
<1>2. \A q \in Queues : pull[q] = NoPull
  BY DEF Init
<1>3. StateInv
  BY <1>2 DEF Init, StateInv, Serving, Resting, NoPull
<1>4. OffsetInv
  BY <1>2, SafeStart DEF Init, OffsetInv, Resting, NoPull
<1>5. CacheInv
  BY <1>2 DEF Init, CacheInv, Cached, Pulling, NoPull
<1> QED BY <1>1, <1>3, <1>4, <1>5 DEF Inv

\* Every step preserves it.
LEMMA InvStep == Inv /\ [Next]_vars => Inv'
<1> SUFFICES ASSUME Inv, [Next]_vars PROVE Inv'
  OBVIOUS
<1> USE DEF Inv
<1>1. CASE UNCHANGED vars
  BY <1>1 DEF vars, fateVars, stateVars, queueVars, threadVars, TypeOK, StateInv,
              OffsetInv, CacheInv, Cached, Covered, Safe, Pulling, Serving
<1>2. CASE Next /\ RequestNext
  BY <1>2, RequestTypes, RequestStates, RequestOffsets, RequestCaches
<1>3. ASSUME Next, NEW q \in Queues, PullNext(q) \/ PullFails(q) \/ RepairStart(q)
      PROVE  Inv'
  BY <1>3, PullTypes, PullStates, PullOffsets, PullCaches
<1>4. CASE /\ Next
           /\ \/ Elsewhere \/ DropQueue \/ StopService \/ Crash \/ Restart
              \/ RebalanceNext \/ TimerNext \/ StopNext
  BY <1>4, OtherTypes, OtherStates, OtherOffsets, OtherCaches
<1> QED BY <1>1, <1>2, <1>3, <1>4 DEF Next

\* So it always holds.
LEMMA InvAlways == Spec => []Inv
BY InvInit, InvStep, PTL DEF Spec

\* Every variable has its type in every state: an offset in the table, in a thread,
\* in a request or at the broker is an offset of the message queue, or Absent.
THEOREM TypeCorrect == Spec => []TypeOK
<1>1. Inv => TypeOK
  BY DEF Inv
<1> QED BY <1>1, InvAlways, PTL

\* At-least-once delivery, for queues, batches and faults without a bound on their
\* number: no interleaving of the consume requests, the pulls, the repairs,
\* rebalancing, the timer, shutdowns, crashes and lost calls brings the group's
\* offset, or the table's entry, past a message that nobody dealt with.
THEOREM OffsetsSafe == Spec => []OffsetSafe
<1>1. Inv => OffsetSafe
  BY DEF Inv, OffsetInv, OffsetSafe
<1> QED BY <1>1, InvAlways, PTL

\* Where the threads are: a round of the timer never meets one of rebalancing, and neither
\* one that adds the process queue, nor one that did not see it, meets an allocated one; a
\* process queue of the table that is dropped is about to be taken out of it, by
\* rebalancing or by a repair of its own.
ThreadInv ==
    /\ rebalance.pc \in {"rest", "send", "fetched", "put"}
    /\ timer.pc \in {"rest", "listed", "missed", "send", "erase"}
    /\ rebalance.pc = "rest" \/ timer.pc = "rest"
    /\ rebalance.pc \in {"fetched", "put"} \/ timer.pc \in {"missed", "erase"} => ~owned
    /\ owned /\ current \in dropped =>
         \/ rebalance.pc = "send"
         \/ pull[current].pc \in {"repair", "repairSend", "remove"}

LEMMA ThreadInvInit == Init => ThreadInv
BY DEF Init, ThreadInv, Resting

\* The steps of a pull request: what drops a queue of the table is its own repair.
LEMMA PullThreads ==
    ASSUME TypeOK, ThreadInv, NEW q \in Queues, PullNext(q) \/ PullFails(q) \/ RepairStart(q)
    PROVE  ThreadInv'
<1> USE DEF fateVars, stateVars, queueVars, threadVars
<1>1. current' = current /\ rebalance' = rebalance /\ timer' = timer
  BY DEF PullNext, PullFails, RepairStart, PullMessage, PullFound, PullEmpty,
         PullIllegal, Repair, RepairSend, RemoveQueue, RemoveSend
<1>2. \E new : pull' = [pull EXCEPT ![q] = new]
  BY DEF PullNext, PullFails, RepairStart, PullMessage, PullFound, PullEmpty,
         PullIllegal, Repair, RepairSend, RemoveQueue, RemoveSend, SetPull, PullAgain
<1>3. q # current => pull'[current] = pull[current]
  BY <1>2 DEF TypeOK
<1>4. ASSUME owned', current \in dropped', rebalance.pc # "send"
      PROVE  pull'[current].pc \in {"repair", "repairSend", "remove"}
  <2>1. ~Repair(q) /\ ~RemoveQueue(q) /\ owned
    BY <1>4 DEF PullNext, PullFails, RepairStart, PullMessage, PullFound, PullEmpty,
         PullIllegal, Repair, RepairSend, RemoveQueue, RemoveSend
  <2>2. CASE PullIllegal(q)
    <3>1. pull'[q].pc = "repair"
      BY <2>2 DEF PullIllegal, SetPull, TypeOK
    <3>2. q # current => current \in dropped
      BY <1>4, <2>2 DEF PullIllegal
    <3> QED BY <1>3, <1>4, <2>1, <3>1, <3>2 DEF ThreadInv
  <2>3. CASE ~PullIllegal(q)
    <3>1. dropped' = dropped
      BY <2>1, <2>3 DEF PullNext, PullFails, RepairStart, PullMessage, PullFound, PullEmpty,
                        RepairSend, RemoveSend
    <3>2. pull[current].pc \in {"repair", "repairSend", "remove"}
      BY <1>4, <2>1, <3>1 DEF ThreadInv
    <3>3. CASE q = current
      <4>1. RepairStart(q) \/ RepairSend(q)
        BY <2>1, <2>3, <3>2, <3>3 DEF PullNext, PullFails, PullMessage, PullFound, PullEmpty,
                                      RemoveSend
      <4>2. \E pc \in {"repairSend", "remove"} : \E next, off : SetPull(q, pc, next, off)
        BY <4>1 DEF RepairStart, RepairSend
      <4> QED BY <3>3, <4>2 DEF SetPull, TypeOK
    <3> QED BY <1>3, <3>2, <3>3
  <2> QED BY <2>2, <2>3
<1>5. owned' => owned
  BY DEF PullNext, PullFails, RepairStart, PullMessage, PullFound, PullEmpty,
         PullIllegal, Repair, RepairSend, RemoveQueue, RemoveSend
<1> QED BY <1>1, <1>4, <1>5 DEF ThreadInv

\* The other steps.
LEMMA OtherThreads ==
    ASSUME TypeOK, ThreadInv,
           \/ Elsewhere \/ DropQueue \/ StopService \/ Crash \/ Restart
           \/ RequestNext \/ RebalanceNext \/ TimerNext \/ StopNext
    PROVE  ThreadInv'
<1> USE DEF fateVars, stateVars, queueVars, threadVars
<1>1. CASE Elsewhere \/ DropQueue \/ StopService \/ Restart
  BY <1>1 DEF Elsewhere, DropQueue, StopService, Restart, ConsumersUnlocked, ThreadInv
<1>2. ASSUME NEW how \in {"stopped", "down"}, Forget(how) PROVE ThreadInv'
  BY <1>2 DEF Forget, Resting, ThreadInv
<1>3. CASE RequestNext
  <2>1. UNCHANGED <<current, owned, dropped, pull, rebalance, timer>>
    BY <1>3 DEF RequestNext, StartRequest, ReturnSuccess, ReturnLater, SendBack, CheckDropped,
                Commit
  <2> QED BY <2>1 DEF ThreadInv
<1>4. CASE DropSend
  BY <1>4 DEF DropSend, Resting, ThreadInv
<1>5. CASE AddQueue
  <2>1. rebalance'.pc \in {"rest", "fetched", "put"} /\ timer'.pc = "rest"
    BY <1>5 DEF AddQueue, ConsumersUnlocked
  <2> QED BY <1>5, <2>1 DEF AddQueue, ThreadInv
<1>6. ASSUME NEW q \in Queues, PutQueue(q) PROVE ThreadInv'
  BY <1>6 DEF PutQueue, Resting, ThreadInv
<1>7. CASE TimerPersist \/ TimerSend \/ TimerErase \/ PersistAtStop
  BY <1>7 DEF TimerPersist, TimerSend, TimerErase, PersistAtStop, Resting, ThreadInv
<1>8. CASE TimerList
  <2>1. /\ timer'.pc = IF owned THEN "listed" ELSE "missed"
        /\ rebalance'.pc = "rest" /\ UNCHANGED <<current, owned, dropped, pull>>
    BY <1>8 DEF TimerList, ConsumersUnlocked
  <2> QED BY <1>8, <2>1 DEF TimerList, ThreadInv
<1>9. CASE TimerCopy
  <2>1. timer'.pc \in {"rest", "send"} \/ (timer'.pc = "erase" /\ timer.pc = "missed")
    BY <1>9 DEF TimerCopy, Resting
  <2>2. timer.pc # "rest" /\ UNCHANGED <<current, owned, dropped, pull, rebalance>>
    BY <1>9 DEF TimerCopy
  <2> QED BY <2>1, <2>2 DEF ThreadInv
<1>10. CASE LeaveShared
  BY <1>10 DEF LeaveShared, ConsumersUnlocked, ThreadInv
<1>11. CASE TableGetsOffset
  <2>1. rebalance'.pc = "put"
    BY <1>11 DEF TableGetsOffset, TypeOK, Threads
  <2> QED BY <1>11, <2>1 DEF TableGetsOffset, ThreadInv
<1> QED BY <1>1, <1>2, <1>3, <1>4, <1>5, <1>6, <1>7, <1>8, <1>9, <1>10, <1>11
        DEF Crash, LeaveGroup, RebalanceNext, TimerNext, StopNext

LEMMA ThreadAlways == Spec => []ThreadInv
<1>1. Inv /\ ThreadInv /\ [Next]_vars => ThreadInv'
  <2> SUFFICES ASSUME Inv, ThreadInv, [Next]_vars PROVE ThreadInv'
    OBVIOUS
  <2>1. CASE UNCHANGED vars
    BY <2>1 DEF vars, stateVars, queueVars, threadVars, ThreadInv
  <2>2. CASE Next
    BY <2>2, PullThreads, OtherThreads DEF Inv, Next
  <2> QED BY <2>1, <2>2
<1> QED BY <1>1, ThreadInvInit, InvAlways, PTL DEF Spec

\* One step of a consumer whose process queue is and stays live keeps the table.
LEMMA TableStep ==
    ASSUME Inv, ThreadInv, [Next]_vars, Live, Live', current = current',
           \A q \in Queues : pull[q].pc \in {"none", "queued", "sent"}
    PROVE  table' >= table
<1> USE DEF fateVars, stateVars, queueVars, threadVars
<1>0. /\ table \in Int
      /\ \A off \in Offsets \cup {Absent} : UpdateOffset(off, TRUE) => table' >= table
  BY BoundAssumption DEF Inv, TypeOK, Offsets, Absent, UpdateOffset
<1>1. CASE UNCHANGED vars
  BY <1>0, <1>1 DEF vars
<1>2. CASE Elsewhere \/ DropQueue \/ StopService \/ Crash \/ Restart
  BY <1>0, <1>2 DEF Elsewhere, DropQueue, StopService, Crash, Restart, Forget, Live
<1>3. CASE RequestNext
  <2>1. PICK r \in requests :
          \/ StartRequest(r) \/ ReturnSuccess(r) \/ ReturnLater(r)
          \/ \E failed \in SUBSET r.msgs : SendBack(r, failed)
          \/ CheckDropped(r) \/ Commit(r)
    BY <1>3 DEF RequestNext
  <2>2. CASE Commit(r)
    <3>1. r.off \in Offsets \cup {Absent} /\ UpdateOffset(r.off, TRUE)
      BY <2>2, RequestFields DEF Inv, TypeOK, Commit
    <3> QED BY <1>0, <3>1
  <2>3. CASE ~Commit(r)
    <3>1. table' = table
      BY <2>1, <2>3 DEF StartRequest, ReturnSuccess, ReturnLater, SendBack, CheckDropped
    <3> QED BY <1>0, <3>1
  <2> QED BY <2>2, <2>3
<1>4. CASE RebalanceNext
  <2>1. ~DropSend /\ ~AddQueue /\ ~TableGetsOffset
    BY DEF DropSend, AddQueue, TableGetsOffset, Live, ThreadInv
  <2>2. \A q \in Queues : ~PutQueue(q)
    BY DEF PutQueue, Unused, Live
  <2> QED BY <1>4, <2>1, <2>2 DEF RebalanceNext
<1>5. CASE TimerNext \/ StopNext
  <2>1. ~TimerErase /\ ~StopNext
    BY DEF TimerErase, ThreadInv, Live, StopNext, PersistAtStop, LeaveGroup, LeaveShared
  <2> QED BY <1>0, <1>5, <2>1 DEF TimerNext, TimerPersist, TimerList, TimerCopy, TimerSend
<1>6. ASSUME NEW q \in Queues, PullNext(q) \/ PullFails(q) \/ RepairStart(q)
      PROVE  table' >= table
  <2>1. CASE PullEmpty(q)
    <3>1. CASE tree[q] = {}
      <4>1. Last \in Offsets
        BY BoundAssumption DEF Offsets
      <4>2. UpdateOffset(Last, TRUE)
        BY <2>1, <3>1 DEF PullEmpty
      <4> QED BY <1>0, <4>1, <4>2
    <3>2. CASE tree[q] # {}
      <4>1. table' = table
        BY <2>1, <3>2 DEF PullEmpty
      <4> QED BY <1>0, <4>1
    <3> QED BY <3>1, <3>2
  <2>2. CASE PullMessage(q) \/ PullFound(q) \/ PullIllegal(q) \/ PullFails(q)
    <3>1. table' = table
      BY <2>2 DEF PullMessage, PullFound, PullIllegal, PullFails
    <3> QED BY <1>0, <3>1
  <2>3. ~Repair(q) /\ ~RepairSend(q) /\ ~RemoveQueue(q) /\ ~RemoveSend(q) /\ ~RepairStart(q)
    BY DEF Repair, RepairSend, RemoveQueue, RemoveSend, RepairStart
  <2> QED BY <1>6, <2>1, <2>2, <2>3 DEF PullNext
<1> QED BY <1>1, <1>2, <1>3, <1>4, <1>5, <1>6 DEF Next

\* The offset of a live process queue never goes back in the table, and is never erased
\* from it, while no repair is due: whichever of the requests that removed their messages
\* in one order commits in another, and whatever rebalancing, the timer or a dropped
\* queue's requests do.
THEOREM TableKeeps == Spec => TableKept
<1>1. Inv /\ ThreadInv /\ [Next]_vars =>
        [/\ Live /\ Live' /\ current = current'
         /\ \A q \in Queues : pull[q].pc \in {"none", "queued", "sent"}
         => table' >= table]_vars
  BY TableStep
<1> QED BY <1>1, InvAlways, ThreadAlways, PTL DEF Spec, TableKept

-----------------------------------------------------------------------------
\* They carry what the cache of q holds, each message once, all before the next pull.
Carries(q) ==
    /\ \A r \in Carrying(q) : \A m \in r.msgs : m < pull[q].next
    /\ \A r, s \in Carrying(q) : \A m \in r.msgs \cap s.msgs : r = s
    /\ \A m \in tree[q] : \E r \in Carrying(q) : m \in r.msgs

CarryInv == \A q \in Queues : Serving /\ q \notin dropped /\ Pulling(q) => Carries(q)

\* Steps of the consume requests.
LEMMA RequestCarries ==
    ASSUME TypeOK, StateInv, CacheInv, CarryInv, RequestNext
    PROVE  CarryInv'
<1> USE DEF fateVars, stateVars, queueVars, threadVars
<1>0. PICK r \in requests :
        \/ StartRequest(r) \/ ReturnSuccess(r) \/ ReturnLater(r)
        \/ \E failed \in SUBSET r.msgs : SendBack(r, failed)
        \/ CheckDropped(r) \/ Commit(r)
  BY DEF RequestNext
<1>f. r \in Requests /\ r.q \in Queues
  BY RequestFields DEF TypeOK
<1>1. pull' = pull /\ state' = state /\ dropped' = dropped
  BY <1>0 DEF StartRequest, ReturnSuccess, ReturnLater, SendBack, CheckDropped, Commit
<1> SUFFICES ASSUME NEW q \in Queues, Serving, q \notin dropped, Pulling(q)
             PROVE  Carries(q)'
  BY <1>1 DEF CarryInv, Serving, Pulling
<1>2. Carries(q)
  BY DEF CarryInv
<1>m. ASSUME NEW pc, NEW off
      PROVE  /\ [r EXCEPT !.pc = pc].q = r.q /\ [r EXCEPT !.pc = pc].msgs = r.msgs
             /\ [r EXCEPT !.pc = pc].pc = pc
             /\ [r EXCEPT !.pc = pc, !.off = off].q = r.q
             /\ [r EXCEPT !.pc = pc, !.off = off].pc = pc
  BY <1>f DEF Requests
<1>3. ASSUME Carrying(q)' = Carrying(q), tree'[q] = tree[q] PROVE Carries(q)'
  BY <1>1, <1>2, <1>3 DEF Carries
<1>4. CASE StartRequest(r)
  <2>1. tree'[q] = tree[q]
    BY <1>4 DEF StartRequest
  <2>2. CASE r.q # q \/ r.q \in dropped
    <3>1. r.q # q
      BY <2>2
    <3>2. /\ requests \ {r} \subseteq requests'
          /\ \A s \in requests' : s \in requests \ {r} \/ s.q = r.q
      <4>1. CASE r.q \in dropped
        BY <1>4, <4>1 DEF StartRequest, Replace
      <4>2. CASE r.q \notin dropped
        <5>1. [r EXCEPT !.pc = "listening"].q = r.q
          BY <1>m
        <5> QED BY <1>4, <4>2, <5>1 DEF StartRequest, Replace
      <4> QED BY <4>1, <4>2
    <3>3. Carrying(q)' = Carrying(q)
      BY <3>1, <3>2 DEF Carrying
    <3> QED BY <1>3, <2>1, <3>3
  <2>3. CASE r.q = q
    <3> DEFINE s == [r EXCEPT !.pc = "listening"]
    <3>1. s.q = q /\ s.msgs = r.msgs /\ s.pc = "listening"
      BY <1>m, <2>3
    <3>2. requests' = (requests \ {r}) \cup {s}
      BY <1>4, <2>3 DEF StartRequest, Replace
    <3> HIDE DEF s
    <3>3. r \in Carrying(q)
      BY <1>4, <2>3 DEF Carrying, StartRequest
    <3>4. Carrying(q)' = (Carrying(q) \ {r}) \cup {s}
      BY <3>1, <3>2 DEF Carrying
    <3> QED BY <1>1, <1>2, <2>1, <3>1, <3>3, <3>4 DEF Carries
  <2> QED BY <2>2, <2>3
<1>5. CASE r.pc \in {"removed", "checked"} /\ (CheckDropped(r) \/ Commit(r))
  <2>1. tree'[q] = tree[q]
    BY <1>5 DEF CheckDropped, Commit
  <2> DEFINE s == [r EXCEPT !.pc = "checked"]
  <2>2. s.pc = "checked"
    BY <1>m
  <2>3. requests' = requests \ {r} \/ requests' = (requests \ {r}) \cup {s}
    <3>1. CASE CheckDropped(r)
      BY <3>1 DEF CheckDropped, Replace
    <3>2. CASE Commit(r)
      BY <3>2 DEF Commit, Replace
    <3> QED BY <1>5, <3>1, <3>2
  <2> HIDE DEF s
  <2>4. Carrying(q)' = Carrying(q)
    BY <1>5, <2>2, <2>3 DEF Carrying
  <2> QED BY <1>3, <2>1, <2>4
<1>6. CASE r.q \in dropped /\ (ReturnSuccess(r) \/ ReturnLater(r))
  <2>1. tree'[q] = tree[q] /\ requests' = requests \ {r}
    BY <1>6 DEF ReturnSuccess, ReturnLater, Replace
  <2>2. Carrying(q)' = Carrying(q)
    BY <1>6, <2>1 DEF Carrying
  <2> QED BY <1>3, <2>1, <2>2
<1>7. ASSUME NEW done, NEW again, Remove(r, done, again), r.pc = "listening",
             r.q \notin dropped, \A s \in again : s.q = r.q /\ s.pc = "queued",
             \A s \in again : s.msgs = r.msgs \ done,
             \A s, t \in again : s = t, r.msgs \subseteq done \/ again # {}
      PROVE  Carries(q)'
  <2> DEFINE left == [r EXCEPT !.pc = "removed", !.off = Remaining(r.q, done)]
  <2>1. left.pc = "removed"
    BY <1>m
  <2>2. requests' = (requests \ {r}) \cup ({left} \cup again)
    BY <1>7 DEF Remove, Replace
  <2> HIDE DEF left
  <2>3. CASE r.q # q
    <3>1. Carrying(q)' = Carrying(q)
      BY <1>7, <2>1, <2>2, <2>3 DEF Carrying
    <3>2. tree'[q] = tree[q]
      BY <1>7, <2>3 DEF Remove, TypeOK
    <3> QED BY <1>3, <3>1, <3>2
  <2>4. CASE r.q = q
    <3>1. Carrying(q)' = (Carrying(q) \ {r}) \cup again
      BY <1>7, <2>1, <2>2, <2>4 DEF Carrying
    <3>2. r \in Carrying(q) /\ tree'[q] = tree[q] \ done
      BY <1>7, <2>4 DEF Carrying, Remove, TypeOK
    <3>3. \A s \in Carrying(q)' : \A m \in s.msgs : m < pull'[q].next
      BY <1>1, <1>2, <1>7, <3>1, <3>2 DEF Carries
    <3>4. \A s, t \in Carrying(q)' : \A m \in s.msgs \cap t.msgs : s = t
      BY <1>2, <1>7, <3>1, <3>2 DEF Carries
    <3>5. \A m \in tree'[q] : \E s \in Carrying(q)' : m \in s.msgs
      BY <1>2, <1>7, <3>1, <3>2 DEF Carries
    <3> QED BY <3>3, <3>4, <3>5 DEF Carries
  <2> QED BY <2>3, <2>4
<1>8. CASE r.q \notin dropped /\ ReturnSuccess(r)
  BY <1>7, <1>8 DEF ReturnSuccess
<1>9. ASSUME NEW failed \in SUBSET r.msgs, SendBack(r, failed) PROVE Carries(q)'
  <2>1. CASE failed = {}
    BY <1>7, <1>9, <2>1 DEF SendBack
  <2>2. CASE failed # {}
    <3> DEFINE s == NewRequest(r.q, failed, r.round + 1)
    <3>1. s.q = r.q /\ s.pc = "queued" /\ s.msgs = failed
      BY DEF NewRequest
    <3>2. Remove(r, r.msgs \ failed, {s}) /\ r.pc = "listening" /\ r.q \notin dropped
      BY <1>9, <2>2 DEF SendBack
    <3> HIDE DEF s
    <3>3. failed = r.msgs \ (r.msgs \ failed)
      OBVIOUS
    <3> QED BY <1>7, <3>1, <3>2, <3>3
  <2> QED BY <2>1, <2>2
<1> QED BY <1>0, <1>4, <1>5, <1>6, <1>8, <1>9 DEF ReturnLater, CheckDropped, Commit

\* The steps of the pull requests and of the repair.
LEMMA PullCarries ==
    ASSUME TypeOK, StateInv, CacheInv, CarryInv, NEW q \in Queues,
           PullNext(q) \/ PullFails(q) \/ RepairStart(q)
    PROVE  CarryInv'
<1> USE DEF fateVars, stateVars, queueVars, threadVars
<1>0. state' = state /\ dropped \subseteq dropped'
  BY DEF PullNext, PullFails, RepairStart, PullMessage, PullFound, PullEmpty,
         PullIllegal, Repair, RepairSend, RemoveQueue, RemoveSend
<1>3. PICK new : pull' = [pull EXCEPT ![q] = new]
  <2>1. CASE PullFound(q)
    <3>1. PICK end \in Offsets : PullAgain(q, end)
      BY <2>1 DEF PullFound
    <3> QED BY <3>1 DEF PullAgain, SetPull
  <2>2. CASE ~PullFound(q)
    BY <2>2 DEF PullNext, PullFails, RepairStart, PullMessage, PullEmpty, PullIllegal,
         Repair, RepairSend, RemoveQueue, RemoveSend, SetPull, PullAgain
  <2> QED BY <2>1, <2>2
<1>1. CASE PullFound(q)
  <2>1. PICK end \in Offsets :
          /\ end > pull[q].next
          /\ PutMessage(q, pull[q].next..(end - 1))
          /\ requests' = requests \cup {NewRequest(q, pull[q].next..(end - 1), 0)}
          /\ PullAgain(q, end)
    BY <1>1 DEF PullFound
  <2> DEFINE s == NewRequest(q, pull[q].next..(end - 1), 0)
             batch == pull[q].next..(end - 1)
  <2>2. s.q = q /\ s.pc = "queued" /\ s.msgs = batch
    BY DEF NewRequest
  <2>3. requests' = requests \cup {s}
    BY <2>1
  <2>4. pull'[q].next = end
    BY <2>1 DEF PullAgain, SetPull, TypeOK
  <2>5. \A p \in Queues : tree'[p] = IF p = q THEN tree[q] \cup batch ELSE tree[p]
    BY <2>1 DEF PutMessage, TypeOK
  <2>6. dropped' = dropped
    BY <1>1 DEF PullFound
  <2> HIDE DEF s
  <2>7. ASSUME NEW p \in Queues, p # q, Carries(p) PROVE Carries(p)'
    <3>1. Carrying(p)' = Carrying(p)
      BY <2>2, <2>3, <2>7 DEF Carrying
    <3>2. pull'[p] = pull[p] /\ tree'[p] = tree[p]
      BY <1>3, <2>5, <2>7 DEF TypeOK
    <3> QED BY <2>7, <3>1, <3>2 DEF Carries
  <2>8. ASSUME Carries(q) PROVE Carries(q)'
    <3>1. Carrying(q)' = Carrying(q) \cup {s}
      BY <2>2, <2>3 DEF Carrying
    <3>2. /\ pull[q].next \in Int /\ end \in Int
          /\ \A r \in Carrying(q) : \A m \in r.msgs : m \in Int /\ m < pull[q].next
      <4>1. pull[q].next \in Offsets
        BY DEF TypeOK, Pulls
      <4>2. \A r \in Carrying(q) : r.msgs \in SUBSET Messages
        BY RequestFields DEF TypeOK, Carrying
      <4> QED BY <2>8, <4>1, <4>2, BoundAssumption DEF Carries, Offsets, Messages
    <3>3. \A m \in batch : m >= pull[q].next /\ m < end
      BY <3>2
    <3> HIDE DEF batch
    <3>4. \A r \in Carrying(q)' : \A m \in r.msgs : m < pull'[q].next
      BY <2>1, <2>2, <2>4, <3>1, <3>2, <3>3
    <3>5. \A r \in Carrying(q) : r.msgs \cap s.msgs = {}
      BY <2>2, <3>2, <3>3
    <3>6. \A r, t \in Carrying(q)' : \A m \in r.msgs \cap t.msgs : r = t
      BY <2>8, <3>1, <3>5 DEF Carries
    <3>7. \A m \in tree'[q] : \E r \in Carrying(q)' : m \in r.msgs
      BY <2>2, <2>5, <2>8, <3>1 DEF Carries
    <3> QED BY <3>4, <3>6, <3>7 DEF Carries
  <2>9. ASSUME NEW p \in Queues, Serving', p \notin dropped', Pulling(p)'
        PROVE  Carries(p)'
    <3>1. Serving /\ p \notin dropped
      BY <1>0, <2>6, <2>9 DEF Serving
    <3>2. Pulling(p)
      BY <1>1, <1>3, <2>9 DEF Pulling, PullFound, TypeOK
    <3>3. Carries(p)
      BY <3>1, <3>2 DEF CarryInv
    <3> QED BY <2>7, <2>8, <3>3
  <2> QED BY <2>9 DEF CarryInv
<1>2. CASE ~PullFound(q)
  <2>1. UNCHANGED <<tree, requests>>
    BY <1>2 DEF PullNext, PullFails, RepairStart, PullMessage, PullEmpty, PullIllegal,
         Repair, RepairSend, RemoveQueue, RemoveSend
  <2>2. pull'[q].pc \in {"queued", "sent"} =>
          pull[q].pc \in {"queued", "sent"} /\ pull'[q].next = pull[q].next
    <3>1. ASSUME NEW pc, NEW next, NEW off, SetPull(q, pc, next, off)
          PROVE  pull'[q].pc = pc /\ pull'[q].next = next
      BY <3>1 DEF SetPull, TypeOK
    <3>2. pull' = [pull EXCEPT ![q] = NoPull] => pull'[q].pc = "none"
      BY DEF NoPull, TypeOK
    <3>3. CASE PullMessage(q)
      BY <3>1, <3>2, <3>3 DEF PullMessage
    <3>4. CASE PullEmpty(q) \/ PullFails(q)
      BY <3>1, <3>4 DEF PullEmpty, PullFails, PullAgain
    <3>5. CASE RepairStart(q) \/ PullIllegal(q) \/ RepairSend(q)
      BY <3>1, <3>5 DEF RepairStart, PullIllegal, RepairSend
    <3>6. CASE Repair(q) \/ RemoveQueue(q) \/ RemoveSend(q)
      BY <3>1, <3>2, <3>6 DEF Repair, RemoveQueue, RemoveSend
    <3> QED BY <1>2, <3>3, <3>4, <3>5, <3>6 DEF PullNext
  <2>3. ASSUME NEW p \in Queues, Serving', p \notin dropped', Pulling(p)'
        PROVE  Carries(p)'
    <3>1. Pulling(p) /\ pull'[p].next = pull[p].next
      BY <1>3, <2>2, <2>3 DEF Pulling, TypeOK
    <3>2. Carries(p)
      BY <1>0, <2>3, <3>1 DEF CarryInv, Serving
    <3> QED BY <2>1, <3>1, <3>2 DEF Carries, Carrying
  <2> QED BY <2>3 DEF CarryInv
<1> QED BY <1>1, <1>2

\* The other steps.
LEMMA OtherCarries ==
    ASSUME TypeOK, StateInv, CarryInv,
           \/ Elsewhere \/ DropQueue \/ StopService \/ Crash \/ Restart
           \/ RebalanceNext \/ TimerNext \/ StopNext
    PROVE  CarryInv'
<1> USE DEF fateVars, stateVars, queueVars, threadVars
<1>1. ASSUME Serving' => Serving /\ UNCHANGED requests,
             UNCHANGED <<tree, pull>>, dropped \subseteq dropped'
      PROVE  CarryInv'
  BY <1>1 DEF CarryInv, Carries, Carrying, Pulling
<1>2. CASE Elsewhere \/ DropQueue \/ StopService \/ DropSend \/ AddQueue \/ TableGetsOffset
  BY <1>1, <1>2 DEF Elsewhere, DropQueue, StopService, DropSend, AddQueue, TableGetsOffset,
                    Serving
<1>3. ASSUME \A q \in Queues : pull'[q].pc = "none" PROVE CarryInv'
  BY <1>3 DEF CarryInv, Pulling
<1>4. ASSUME NEW how \in {"stopped", "down"}, Forget(how) PROVE CarryInv'
  <2>1. \A q \in Queues : pull'[q].pc = "none"
    BY <1>4 DEF Forget, NoPull
  <2> QED BY <1>3, <2>1
<1>5. CASE Crash \/ LeaveGroup
  BY <1>4, <1>5 DEF Crash, LeaveGroup
<1>6. CASE Restart
  BY <1>3, <1>6 DEF Restart, StateInv
<1>7. ASSUME NEW q \in Queues, PutQueue(q) PROVE CarryInv'
  <2>1. Carries(q)'
    <3>1. Carrying(q)' = {}
      BY <1>7 DEF PutQueue, Unused, Carrying
    <3>2. tree'[q] = {}
      BY <1>7 DEF PutQueue, TypeOK
    <3> QED BY <3>1, <3>2 DEF Carries
  <2>2. ASSUME NEW p \in Queues, p # q, Serving', p \notin dropped', Pulling(p)'
        PROVE  Carries(p)'
    <3>1. pull'[p] = pull[p] /\ tree'[p] = tree[p] /\ requests' = requests
      BY <1>7, <2>2 DEF PutQueue, PullAgain, SetPull, TypeOK
    <3>2. Carries(p)
      BY <1>7, <2>2, <3>1 DEF CarryInv, PutQueue, Serving, Pulling
    <3> QED BY <3>1, <3>2 DEF Carries, Carrying
  <2> QED BY <2>1, <2>2 DEF CarryInv
<1>8. CASE TimerNext
  BY <1>1, <1>8 DEF TimerNext, TimerPersist, TimerList, TimerCopy, TimerSend, TimerErase, Serving
<1>9. CASE PersistAtStop \/ LeaveShared
  BY <1>1, <1>9 DEF PersistAtStop, LeaveShared, Serving
<1> QED BY <1>2, <1>5, <1>6, <1>7, <1>8, <1>9 DEF RebalanceNext, StopNext

\* Carrying is preserved with the rest of the invariant.
LEMMA CarryAlways == Spec => []CarryInv
<1>1. Init => CarryInv
  <2>1. Init => \A q \in Queues : pull[q] = NoPull
    BY DEF Init
  <2> QED BY <2>1 DEF CarryInv, Pulling, NoPull
<1>2. Inv /\ CarryInv /\ [Next]_vars => CarryInv'
  <2> SUFFICES ASSUME Inv, CarryInv, [Next]_vars PROVE CarryInv'
    OBVIOUS
  <2>1. CASE UNCHANGED vars
    BY <2>1 DEF vars, fateVars, stateVars, queueVars, threadVars, CarryInv, Carries,
                Carrying, Pulling, Serving
  <2>2. CASE Next
    BY <2>2, RequestCarries, PullCarries, OtherCarries DEF Inv, Next
  <2> QED BY <2>1, <2>2
<1> QED BY <1>1, <1>2, InvAlways, PTL DEF Spec

\* No message in the cache of a live process queue is stranded, and none is in two
\* requests that will offer it, for any number of queues, messages and faults.
THEOREM CachedOnce == Spec => []EachCachedOnce
<1>1. ASSUME Inv, CarryInv PROVE EachCachedOnce
  <2> SUFFICES ASSUME Live, NEW m \in tree[current]
               PROVE  Cardinality({r \in Carrying(current) : m \in r.msgs}) = 1
    BY DEF EachCachedOnce
  <2>1. Carries(current)
    BY <1>1 DEF Live, Inv, TypeOK, StateInv, Serving, CarryInv
  <2>2. PICK r \in Carrying(current) : m \in r.msgs
    BY <2>1 DEF Carries
  <2>3. {s \in Carrying(current) : m \in s.msgs} = {r}
    BY <2>1, <2>2 DEF Carries
  <2> QED BY <2>3, FS_Singleton
<1> QED BY <1>1, InvAlways, CarryAlways, PTL

-----------------------------------------------------------------------------
(* Nothing is lost, and nothing waits for nobody.                          *)

\* What a live process queue has pulled so far, up to the next pull, was accepted, sent
\* back, skipped or deleted, or a request carries it that will offer it.
PulledIsCarried ==
    Live => \A m \in Messages : m < pull[current].next =>
              \/ m \in settled \cup skipped \/ m < least
              \/ \E r \in Carrying(current) : m \in r.msgs

\* The pull loop of a live process queue (pullMessage, and the callbacks of
\* AsyncPullCallback) never breaks: its pull request is queued or sent; and when flow
\* control holds it back, a request that carries what fills the cache is queued or at
\* the listener.
PullLoopGoesOn ==
    Live => /\ pull[current].pc \in {"queued", "sent"}
            /\ CacheIsFull(current) => \E r \in Carrying(current) : r.msgs \cap tree[current] # {}

\* The parts of a live consumer as the invariant knows them.
LEMMA LiveFacts ==
    ASSUME Inv, CarryInv, Live
    PROVE  current \in Queues /\ Pulling(current) /\ Covered(current) /\ Carries(current)
BY DEF Live, Inv, TypeOK, StateInv, CacheInv, Cached, Serving, CarryInv

\* No message is lost between the broker and the listener, whichever batches return, fail
\* to be sent back, or are repaired around.
THEOREM NoneLost == Spec => []PulledIsCarried
<1>1. ASSUME Inv, CarryInv PROVE PulledIsCarried
  BY <1>1, LiveFacts DEF PulledIsCarried, Covered, Carries
<1> QED BY <1>1, InvAlways, CarryAlways, PTL

\* Flow control cannot stop a live process queue for good, whatever the threshold is.
THEOREM FlowControl == Spec => []PullLoopGoesOn
<1>1. ASSUME Inv, CarryInv PROVE PullLoopGoesOn
  <2> SUFFICES ASSUME Live, CacheIsFull(current)
               PROVE  \E r \in Carrying(current) : r.msgs \cap tree[current] # {}
    BY <1>1, LiveFacts DEF PullLoopGoesOn, Pulling
  <2>1. tree[current] # {}
    BY BoundAssumption, FS_EmptySet DEF CacheIsFull
  <2>2. PICK m \in tree[current] : TRUE
    BY <2>1
  <2>3. PICK r \in Carrying(current) : m \in r.msgs
    BY <1>1, LiveFacts DEF Carries
  <2> QED BY <2>3
<1> QED BY <1>1, InvAlways, CarryAlways, PTL

\* Who may step, told by the guards of the actions; ENABLED is out of the provers' reach.
RequestsMayStep == \E r \in requests : r.pc # "queued" \/ Serving
PullMayStep(q) ==
    \/ /\ pull[q].pc = "queued" /\ ~InRepair
       /\ Serving /\ q \notin dropped => ~CacheIsFull(q)
    \/ pull[q].pc = "repair" /\ ~InRepair
    \/ pull[q].pc \in {"sent", "repairSend", "remove", "removeSend"}
\* In the program there is always another process queue to make.
RebalanceMayStep ==
    \/ rebalance.pc \in {"send", "fetched"}
    \/ TableUnlocked /\ rebalance.pc = "put"
    \/ TableUnlocked /\ ConsumersUnlocked /\ Running /\ ~owned
TimerMayStep == timer.pc \in {"listed", "missed", "send", "erase"}
StopMayStep ==
    \/ TableUnlocked /\ state = "stopping" /\ \A r \in requests : r.pc = "queued"
    \/ state = "leaving" /\ ConsumersUnlocked /\ ~InRepair

SomebodyMayStep ==
    \/ RequestsMayStep \/ RebalanceMayStep \/ TimerMayStep \/ StopMayStep
    \/ \E q \in Queues : PullMayStep(q)

\* Whoever is in a repair, or holds the table of process queues, may go on.
LEMMA RepairMayStep ==
    InRepair \/ ~TableUnlocked => \E q \in Queues : PullMayStep(q)
BY DEF InRepair, TableUnlocked, PullMayStep

\* The work of the consumer never waits for itself: the pull service, the repairs, the
\* requests, rebalancing, the timer and the shutdown, with the lock of the table, flow
\* control and the one thread of the pull service between them, always leave somebody who
\* may step while the consumer is up or shuts down.
THEOREM SomebodyMoves == Spec => [](state \in {"up", "stopping", "leaving"} => SomebodyMayStep)
<1>1. ASSUME Inv, CarryInv, ThreadInv, PullLoopGoesOn, state \in {"up", "stopping", "leaving"}
      PROVE  SomebodyMayStep
  <2> SUFFICES ASSUME ~InRepair, TableUnlocked PROVE SomebodyMayStep
    BY RepairMayStep DEF SomebodyMayStep
  <2>1. CASE rebalance.pc # "rest" \/ timer.pc # "rest"
    BY <1>1, <2>1 DEF ThreadInv, SomebodyMayStep, RebalanceMayStep, TimerMayStep
  <2>2. CASE rebalance.pc = "rest" /\ timer.pc = "rest" /\ state # "up"
    BY <1>1, <2>2 DEF SomebodyMayStep, RequestsMayStep, StopMayStep, ConsumersUnlocked
  <2>3. CASE rebalance.pc = "rest" /\ timer.pc = "rest" /\ state = "up" /\ ~owned
    BY <2>3 DEF SomebodyMayStep, RebalanceMayStep, ConsumersUnlocked, Running
  <2>4. CASE rebalance.pc = "rest" /\ state = "up" /\ owned /\ current \in dropped
    <3>1. current \in Queues /\ pull[current].pc = "repair"
      BY <1>1, <2>4 DEF Inv, TypeOK, ThreadInv, InRepair
    <3> QED BY <3>1 DEF SomebodyMayStep, PullMayStep
  <2>5. CASE state = "up" /\ owned /\ current \notin dropped
    <3>1. Live /\ current \in Queues
      BY <1>1, <2>5 DEF Live, Inv, TypeOK
    <3>2. CASE CacheIsFull(current)
      <4>1. PICK r \in requests : TRUE
        BY <1>1, <3>1, <3>2 DEF PullLoopGoesOn, Carrying
      <4> QED BY <2>5, <4>1 DEF SomebodyMayStep, RequestsMayStep, Serving
    <3>3. CASE ~CacheIsFull(current)
      BY <1>1, <3>1, <3>3 DEF PullLoopGoesOn, SomebodyMayStep, PullMayStep
    <3> QED BY <3>2, <3>3
  <2> QED BY <2>1, <2>2, <2>3, <2>4, <2>5
<1> QED BY <1>1, FlowControl, InvAlways, CarryAlways, ThreadAlways, PTL
=============================================================================
