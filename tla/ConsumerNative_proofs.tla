------------------------ MODULE ConsumerNative_proofs ------------------------
(***************************************************************************)
(* What is proved of the native push consumer for every set of calls, any  *)
(* batch size, any set of listeners, every bound on faults and every       *)
(* setting of the build and SDK flags: consumption; type correctness,      *)
(* which rests on what the thread count of a TSFN and inflight_ count; and *)
(* that the threads never wait in a circle and come to an end.             *)
(***************************************************************************)
EXTENDS ConsumerNative, FiniteSetTheorems, TLAPS

USE DEF vars, lifeVars, listenerVars, callVars, sdkVars, envVars

-----------------------------------------------------------------------------
(* A batch that counts as consumed was accepted message by message.        *)

CallTypes ==
    /\ at \in [Calls -> {"none", "done"} \cup Inside] /\ index \in [Calls -> Positions]
    /\ status \in [Calls -> {"none", "success", "later"}]
    /\ answer \in [Calls -> [Positions -> {"none", "queued", "passed", "held"} \cup Answered]]

\* Where consumeMessage goes through its batch.
Consuming == {"check", "acquire", "offer", "wait"}

\* The messages before index are accepted, those after it were never offered, and
\* neither was the one at index until the thread waits for it.
BatchInOrder(c) ==
    /\ at[c] = "none" => index[c] = 1 /\ \A i \in Positions : answer[c][i] = "none"
    /\ at[c] \in {"none"} \cup Consuming => status[c] = "none"
    /\ at[c] \in Consuming =>
         /\ \A i \in 1..(index[c] - 1) : answer[c][i] = "acked"
         /\ \A i \in Positions : i > index[c] => answer[c][i] = "none"
    /\ at[c] \in {"check", "acquire", "offer"} => answer[c][index[c]] = "none"

BInv == CallTypes /\ SuccessMeansAllAcked /\ \A c \in Calls : BatchInOrder(c)

\* The other calls are as they were.
OthersKept(c) ==
    \A d \in Calls \ {c} : /\ at'[d] = at[d] /\ index'[d] = index[d]
                           /\ status'[d] = status[d] /\ answer'[d] = answer[d]

\* It is enough to look at the call that moves.
LEMMA BInvOneCall ==
  ASSUME BInv, NEW c \in Calls, CallTypes', OthersKept(c), BatchInOrder(c)',
         status'[c] = "success" => \A i \in Positions : answer'[c][i] = "acked"
  PROVE  BInv'
<1>1. ASSUME NEW d \in Calls \ {c} PROVE BatchInOrder(d)'
  BY <1>1 DEF BInv, BatchInOrder, OthersKept
<1>2. ASSUME NEW d \in Calls \ {c} PROVE status'[d] = "success" => \A i \in Positions : answer'[d][i] = "acked"
  BY <1>2 DEF BInv, SuccessMeansAllAcked, OthersKept
<1> QED BY <1>1, <1>2 DEF BInv, SuccessMeansAllAcked

LEMMA BInvInit == Init => BInv
BY SizeAssumption
   DEF Init, BInv, CallTypes, SuccessMeansAllAcked, BatchInOrder, Consuming, Positions,
       Inside, Guarded, Answered

LEMMA BInvCall ==
  ASSUME BInv, NEW c \in Calls, ConsumeMessage(c) \/ CallThread(c) \/ CallTimesOut(c)
  PROVE  BInv'
<1> USE DEF CallGoto, Returns
<1>1. CallTypes'
  <2> USE SizeAssumption DEF BInv, CallTypes, Positions, Inside, Guarded
  <2>1. CASE ConsumeMessage(c) BY <2>1 DEF ConsumeMessage
  <2>2. CASE CallChecks(c) BY <2>2 DEF CallChecks
  <2>3. CASE CallAcquires(c) BY <2>3 DEF CallAcquires
  <2>4. CASE CallOffers(c) BY <2>4 DEF CallOffers
  <2>5. CASE CallOfferFails(c) BY <2>5 DEF CallOfferFails
  <2>6. CASE CallResolves(c)
    <3>1. index[c] # BatchSize => index[c] + 1 \in 1..BatchSize
      OBVIOUS
    <3>2. index' \in [Calls -> 1..BatchSize]
      BY <2>6, <3>1 DEF CallResolves
    <3>3. at' \in [Calls -> {"none", "done"} \cup Inside]
      BY <2>6 DEF CallResolves
    <3>4. status' \in [Calls -> {"none", "success", "later"}] /\ UNCHANGED answer
      BY <2>6 DEF CallResolves
    <3> QED BY <3>2, <3>3, <3>4
  <2>7. CASE CallGivesUp(c) \/ CallTimesOut(c) BY <2>7 DEF CallGivesUp, CallTimesOut
  <2>8. CASE CallLeaves(c) BY <2>8 DEF CallLeaves
  <2> QED BY <2>1, <2>2, <2>3, <2>4, <2>5, <2>6, <2>7, <2>8 DEF CallThread
<1>2. OthersKept(c)
  BY DEF BInv, CallTypes, OthersKept, ConsumeMessage, CallThread, CallChecks, CallAcquires,
      CallOffers, CallOfferFails, CallResolves, CallGivesUp, CallTimesOut, CallLeaves
<1>3. BatchInOrder(c)' /\ (status'[c] = "success" => \A i \in Positions : answer'[c][i] = "acked")
  <2> USE DEF BInv, CallTypes, BatchInOrder, SuccessMeansAllAcked, Consuming, Inside, Guarded
  <2>1. CASE ConsumeMessage(c) BY <2>1, SizeAssumption DEF ConsumeMessage, Positions
  <2>2. CASE CallChecks(c) BY <2>2 DEF CallChecks
  <2>3. CASE CallAcquires(c) BY <2>3 DEF CallAcquires
  <2>4. CASE CallOffers(c) BY <2>4 DEF CallOffers, Positions
  <2>5. CASE CallOfferFails(c) BY <2>5 DEF CallOfferFails
  <2>6. CASE CallResolves(c) BY <2>6, SizeAssumption DEF CallResolves, ConsumesMessage, Positions
  <2>7. CASE CallGivesUp(c) \/ CallTimesOut(c) BY <2>7 DEF CallGivesUp, CallTimesOut
  <2>8. CASE CallLeaves(c) BY <2>8 DEF CallLeaves
  <2> QED BY <2>1, <2>2, <2>3, <2>4, <2>5, <2>6, <2>7, <2>8 DEF CallThread
<1> QED BY <1>1, <1>2, <1>3, BInvOneCall

\* An answer is given to a message that was offered and not yet answered.
LEMMA BInvAnswer ==
  ASSUME BInv, NEW c \in Calls, NEW i \in Positions,
         \/ CallJs(c, i) \/ CallJsDelivers(c, i) \/ CallJsFails(c, i)
         \/ AckDone(c, i) \/ AckCollected(c, i)
  PROVE  BInv'
<1>1. PICK a \in {"passed", "held"} \cup Answered : SetAnswer(c, i, a)
  BY DEF CallJs, CallJsDelivers, CallJsFails, AckDone, AckCollected, Answered
<1>2. answer[c][i] \in {"queued", "passed", "held"}
  BY DEF CallJs, CallJsDelivers, CallJsFails, AckDone, AckCollected
<1>3. CallTypes'
  BY <1>1 DEF BInv, CallTypes, SetAnswer, Answered
<1>4. OthersKept(c)
  BY <1>1 DEF BInv, CallTypes, OthersKept, SetAnswer
<1>5. /\ answer'[c][i] = a
      /\ \A j \in Positions \ {i} : answer'[c][j] = answer[c][j]
      /\ UNCHANGED <<at, index, status>>
  BY <1>1 DEF BInv, CallTypes, SetAnswer
<1>6. status'[c] # "success"
  BY <1>2, <1>5 DEF BInv, SuccessMeansAllAcked
<1>7. BatchInOrder(c)'
  <2>1. CASE at[c] \in {"none", "leave", "done"}
    BY <2>1, <1>2, <1>5 DEF BInv, BatchInOrder, Consuming
  <2>2. CASE at[c] \in Consuming
    <3>1. i \in Nat /\ index[c] \in Nat /\ 1 <= i
      BY SizeAssumption DEF BInv, CallTypes, Positions
    <3>2. ~(i < index[c])
      BY <2>2, <1>2, <3>1 DEF BInv, BatchInOrder
    <3>3. ~(i > index[c])
      BY <2>2, <1>2 DEF BInv, BatchInOrder
    <3>4. i = index[c]
      BY <3>1, <3>2, <3>3
    <3>5. at[c] = "wait"
      BY <2>2, <1>2, <3>4 DEF BInv, BatchInOrder, Consuming
    <3>6. \A j \in 1..(index[c] - 1) : j \in Positions \ {i}
      BY <3>4, SizeAssumption DEF BInv, CallTypes, Positions
    <3> QED BY <2>2, <3>1, <3>4, <3>5, <3>6, <1>5 DEF BInv, BatchInOrder, Consuming
  <2> QED BY <2>1, <2>2 DEF BInv, CallTypes, Inside, Guarded, Consuming
<1> QED BY <1>3, <1>4, <1>6, <1>7, BInvOneCall

\* The steps of the start and shutdown sequences leave the calls alone.
LEMMA StopStepKeepsCalls ==
  ASSUME NEW t, StopStep(t)
  PROVE  UNCHANGED <<at, index, status, answer>>
BY DEF StopStep, AwaitIdle, TakeFlag, LockSdk, SdkStops, SdkStopped, SdkStopFails,
       FinalizeListener

LEMMA WorkersKeepCalls ==
  ASSUME StartWorker \/ ShutdownWorker \/ Completes("start") \/ Completes("shut")
  PROVE  UNCHANGED <<at, index, status, answer>>
BY StopStepKeepsCalls
   DEF StartWorker, StartCheck, StartLock, SdkStartFails, SdkStarts, SdkStarted, StartPublish,
       StartPublishFailure, StartEnds, ShutdownWorker, ShutCheck, ShutFails, ShutEnds,
       Completes

LEMMA ObjectKeepsCalls ==
  ASSUME \/ Start \/ Shutdown \/ ShutdownQueueFails \/ Subscribe \/ ForceDestroy
         \/ DropReference \/ Destructor \/ DestructorReturnsEarly \/ SubscribeReturns
         \/ ForceDestroyEnds \/ DestructorEnds \/ MembersDestroyed
         \/ \E l \in Listeners : SetListener(l)
  PROVE  UNCHANGED <<at, index, status, answer>>
BY DEF Start, Shutdown, ShutdownQueueFails, Subscribe, ForceDestroy, BeginDestroy,
       DropReference, Destructor, DestructorReturnsEarly, SubscribeReturns,
       ForceDestroyEnds, DestructorEnds, MembersDestroyed, SetListener

LEMMA BInvKept == ASSUME BInv, UNCHANGED <<at, index, status, answer>> PROVE BInv'
BY DEF BInv, CallTypes, SuccessMeansAllAcked, BatchInOrder

LEMMA BInvNext == BInv /\ [Next]_vars => BInv'
<1> SUFFICES ASSUME BInv, [Next]_vars PROVE BInv'
  OBVIOUS
<1>1. CASE Application
  BY <1>1, ObjectKeepsCalls, BInvKept, BInvAnswer DEF Application
<1>2. CASE MainThread
  BY <1>2, ObjectKeepsCalls, WorkersKeepCalls, StopStepKeepsCalls, BInvKept, BInvAnswer
     DEF MainThread
<1>3. CASE StartWorker \/ ShutdownWorker
  BY <1>3, WorkersKeepCalls, BInvKept
<1>4. CASE \E c \in Calls : ConsumeMessage(c) \/ CallThread(c) \/ CallTimesOut(c)
  BY <1>4, BInvCall
<1>5. CASE Finished \/ UNCHANGED vars
  BY <1>5, BInvKept DEF Finished
<1> QED BY <1>1, <1>2, <1>3, <1>4, <1>5 DEF Next

\* CONSUME_SUCCESS is returned only for a batch whose every message JavaScript has
\* accepted (consumeMessage of lib/push_consumer.cpp).
THEOREM Consumption == Spec => []SuccessMeansAllAcked
<1>1. BInv => SuccessMeansAllAcked
  BY DEF BInv
<1> QED BY BInvInit, BInvNext, <1>1, PTL DEF Spec, SafetySpec

-----------------------------------------------------------------------------
(* The counts of a listener.                                               *)

Guarding == {c \in Calls : at[c] \in Guarded}
Within == {c \in Calls : at[c] \in Inside}

\* Only the serving listener is used: its TSFN is counted by the listener itself
\* until it is released and by every call that guards it.
Counts ==
    \A l \in Listeners :
        /\ refs[l] = IF l = serving THEN (IF released[l] THEN 0 ELSE 1) + Cardinality(Guarding)
                     ELSE 0
        /\ inflight[l] = IF l = serving THEN Cardinality(Within) ELSE 0

\* Which listener a thread works on, and when.
Places ==
    /\ current \in {NoListener, serving}
    /\ \A t \in Threads : /\ thread[t].l \in {NoListener, serving}
                          /\ thread[t].pc \in {"rest", "queued"} => thread[t].l = NoListener
    /\ thread["main"].pc \notin {"rest", "lock"} => lifecycle = "Destroyed"
    /\ sdkState = "running" \/ Within # {} => serving \in Listeners /\ sdkState # "fresh"
    /\ lifecycle = "Idle" =>
         /\ sdkState = "fresh" /\ current = serving /\ At("start", "rest") /\ At("shut", "rest")
         /\ serving \in Listeners => ~released[serving]

\* The variables have their types, but the counts might be negative.
Shape ==
    /\ lifecycle \in Lifecycles /\ active \in BOOLEAN /\ sdkFlag \in BOOLEAN
    /\ native \in {"free"} \cup Threads
    /\ sdkState \in {"fresh", "running", "failed", "stopping", "halted", "stopped"}
    /\ current \in Listeners \cup {NoListener} /\ serving \in Listeners \cup {NoListener}
    /\ requested \in [Listeners -> BOOLEAN] /\ released \in [Listeners -> BOOLEAN]
    /\ refs \in [Listeners -> Int] /\ inflight \in [Listeners -> Int]
    /\ thread \in [Threads -> [op : Ops, pc : Pcs, l : Listeners \cup {NoListener},
                               ok : BOOLEAN]]
    /\ held \in BOOLEAN /\ faults \in 0..MaxFaults

CInv == Shape /\ CallTypes /\ Counts /\ Places

LEMMA SetsFinite ==
  ASSUME CallTypes
  PROVE  /\ IsFiniteSet(Guarding) /\ IsFiniteSet(Within)
         /\ Cardinality(Guarding) \in Nat /\ Cardinality(Within) \in Nat
<1>1. Guarding \subseteq Calls /\ Within \subseteq Calls
  BY DEF Guarding, Within
<1>2. IsFiniteSet(Guarding) /\ IsFiniteSet(Within)
  BY <1>1, SetAssumption, FS_Subset
<1> QED BY <1>2, FS_CardinalityType

\* With the counts as they should be no count is negative.
LEMMA CInvTypes == CInv => TypeOK
<1> SUFFICES ASSUME CInv PROVE TypeOK
  OBVIOUS
<1>1. \A l \in Listeners : refs[l] \in Nat /\ inflight[l] \in Nat
  BY SetsFinite DEF CInv, Counts
<1>2. refs \in [Listeners -> Nat] /\ inflight \in [Listeners -> Nat]
  BY <1>1 DEF CInv, Shape
<1> QED BY <1>2 DEF CInv, Shape, CallTypes, TypeOK

\* A set to which one element may have been added, or from which one was removed.
LEMMA OneElement ==
  ASSUME NEW S, NEW T, NEW c, IsFiniteSet(S), S \ {c} = T \ {c}
  PROVE  /\ c \in T /\ c \notin S => Cardinality(T) = Cardinality(S) + 1
         /\ c \notin T /\ c \in S => Cardinality(T) = Cardinality(S) - 1
         /\ (c \in T <=> c \in S) => T = S
<1>1. ASSUME c \in T, c \notin S PROVE T = S \cup {c}
  BY <1>1
<1>2. ASSUME c \notin T, c \in S PROVE T = S \ {c}
  BY <1>2
<1>3. ASSUME c \in T <=> c \in S PROVE T = S
  BY <1>3
<1> QED BY <1>1, <1>2, <1>3, FS_AddElement, FS_RemoveElement

LEMMA MoveCounts ==
  ASSUME CallTypes, NEW c \in Calls, \A d \in Calls \ {c} : at'[d] = at[d]
  PROVE  /\ at'[c] \in Guarded /\ at[c] \notin Guarded
              => Cardinality(Guarding') = Cardinality(Guarding) + 1
         /\ at'[c] \notin Guarded /\ at[c] \in Guarded
              => Cardinality(Guarding') = Cardinality(Guarding) - 1
         /\ (at'[c] \in Guarded <=> at[c] \in Guarded) => Guarding' = Guarding
         /\ at'[c] \in Inside /\ at[c] \notin Inside
              => Cardinality(Within') = Cardinality(Within) + 1
         /\ at'[c] \notin Inside /\ at[c] \in Inside
              => Cardinality(Within') = Cardinality(Within) - 1
         /\ (at'[c] \in Inside <=> at[c] \in Inside) => Within' = Within
<1>1. Guarding \ {c} = Guarding' \ {c} /\ Within \ {c} = Within' \ {c}
  BY DEF Guarding, Within
<1>2. /\ c \in Guarding <=> at[c] \in Guarded
      /\ c \in Guarding' <=> at'[c] \in Guarded
      /\ c \in Within <=> at[c] \in Inside
      /\ c \in Within' <=> at'[c] \in Inside
  BY DEF Guarding, Within
<1> QED BY <1>1, <1>2, SetsFinite, OneElement

\* The call counts itself in and out.
CountsMove(c) ==
    /\ refs'[serving] = refs[serving] + (IF at'[c] \in Guarded THEN 1 ELSE 0)
                                      - (IF at[c] \in Guarded THEN 1 ELSE 0)
    /\ inflight'[serving] = inflight[serving] + (IF at'[c] \in Inside THEN 1 ELSE 0)
                                              - (IF at[c] \in Inside THEN 1 ELSE 0)
    /\ \A l \in Listeners \ {serving} : refs'[l] = refs[l] /\ inflight'[l] = inflight[l]

\* A call that moves keeps the counts if it counts itself in and out.
LEMMA CountsOneCall ==
  ASSUME CInv, NEW c \in Calls, \A d \in Calls \ {c} : at'[d] = at[d],
         serving \in Listeners, UNCHANGED <<serving, released>>,
         CountsMove(c)
  PROVE  Counts'
<1> DEFINE G == Cardinality(Guarding)
           W == Cardinality(Within)
           g == (IF at'[c] \in Guarded THEN 1 ELSE 0) - (IF at[c] \in Guarded THEN 1 ELSE 0)
           w == (IF at'[c] \in Inside THEN 1 ELSE 0) - (IF at[c] \in Inside THEN 1 ELSE 0)
<1>1. G \in Nat /\ W \in Nat /\ g \in Int /\ w \in Int
  BY SetsFinite DEF CInv
<1>2. G' = G + g /\ W' = W + w
  BY <1>1, MoveCounts DEF CInv
<1>3. refs'[serving] = refs[serving] + g /\ inflight'[serving] = inflight[serving] + w
  BY DEF CInv, Shape, CountsMove
<1>4. \A l \in Listeners \ {serving} : refs'[l] = refs[l] /\ inflight'[l] = inflight[l]
  BY DEF CountsMove
<1> HIDE DEF G, W, g, w
<1>5. \A l \in Listeners :
        /\ refs[l] = IF l = serving THEN (IF released[l] THEN 0 ELSE 1) + G ELSE 0
        /\ inflight[l] = IF l = serving THEN W ELSE 0
  BY DEF CInv, Counts, G, W
<1>6. \A l \in Listeners :
        /\ refs'[l] = IF l = serving' THEN (IF released'[l] THEN 0 ELSE 1) + G' ELSE 0
        /\ inflight'[l] = IF l = serving' THEN W' ELSE 0
  <2> TAKE l \in Listeners
  <2>1. CASE l = serving
    BY <2>1, <1>1, <1>2, <1>3, <1>5
  <2>2. CASE l # serving
    BY <2>2, <1>4, <1>5
  <2> QED BY <2>1, <2>2
<1> QED BY <1>6 DEF Counts, G, W

\* Who moves no call may release the TSFN of the serving listener.
LEMMA CountsRelease ==
  ASSUME CInv, UNCHANGED <<at, inflight, serving>>, NEW l \in {NoListener, serving},
         ListenerShutdown(l) \/ UNCHANGED listenerVars \/ UNCHANGED <<released, refs>>
  PROVE  Counts'
<1>1. Guarding' = Guarding /\ Within' = Within
  BY DEF Guarding, Within
<1>2. CASE UNCHANGED <<released, refs>>
  BY <1>1, <1>2 DEF CInv, Counts
<1>3. CASE ~UNCHANGED <<released, refs>>
  <2>1. l = serving /\ serving \in Listeners /\ ListenerShutdown(serving)
    BY <1>3 DEF ListenerShutdown, CInv, Shape
  <2>2. /\ released'[serving] = TRUE
        /\ refs'[serving] = IF released[serving] THEN refs[serving] ELSE refs[serving] - 1
        /\ \A k \in Listeners \ {serving} : refs'[k] = refs[k]
    BY <2>1, SetAssumption DEF ListenerShutdown, CInv, Shape
  <2>3. Cardinality(Guarding) \in Nat
    BY SetsFinite DEF CInv
  <2>4. released[serving] \in BOOLEAN
    BY <2>1 DEF CInv, Shape
  <2> QED BY <1>1, <2>1, <2>2, <2>3, <2>4 DEF CInv, Counts
<1> QED BY <1>2, <1>3

LEMMA CInvInit == Init => CInv
<1> SUFFICES ASSUME Init PROVE CInv
  OBVIOUS
<1>1. Shape
  <2>1. Resting \in [op : Ops, pc : Pcs, l : Listeners \cup {NoListener}, ok : BOOLEAN]
    BY DEF Resting, Ops, Pcs
  <2>2. 0 \in 0..MaxFaults
    BY SizeAssumption
  <2>3. thread \in [Threads -> [op : Ops, pc : Pcs, l : Listeners \cup {NoListener},
                                ok : BOOLEAN]]
    BY <2>1 DEF Init
  <2>4. /\ requested \in [Listeners -> BOOLEAN] /\ released \in [Listeners -> BOOLEAN]
        /\ refs \in [Listeners -> Int] /\ inflight \in [Listeners -> Int]
    BY DEF Init
  <2> QED BY <2>2, <2>3, <2>4 DEF Init, Shape, Lifecycles
<1>2. Guarding = {} /\ Within = {}
  BY DEF Init, Guarding, Within, Guarded, Inside
<1>3. Counts
  BY SetAssumption DEF Init, Counts
<1>4. Places
  BY <1>2, SetAssumption DEF Init, Places, Resting, Threads, At
<1> QED BY <1>1, <1>3, <1>4, BInvInit DEF CInv, BInv

LEMMA CInvCall ==
  ASSUME CInv, CallTypes', NEW c \in Calls, ConsumeMessage(c) \/ CallThread(c) \/ CallTimesOut(c)
  PROVE  CInv'
<1> USE DEF CallGoto, Returns
<1>1. serving \in Listeners
  BY DEF CInv, Places, Within, Inside, Guarded, ConsumeMessage, CallThread, CallChecks,
         CallAcquires, CallOffers, CallOfferFails, CallResolves, CallGivesUp, CallTimesOut,
         CallLeaves
<1>2. /\ UNCHANGED <<lifeVars, requested, released, sdkVars, held, current, thread>>
      /\ UNCHANGED faults \/ Fault
  BY DEF ConsumeMessage, CallThread, CallChecks, CallAcquires, CallOffers, CallOfferFails,
         CallResolves, CallGivesUp, CallTimesOut, CallLeaves
<1>3. \A d \in Calls \ {c} : at'[d] = at[d]
  BY DEF CInv, CallTypes, ConsumeMessage, CallThread, CallChecks, CallAcquires, CallOffers,
         CallOfferFails, CallResolves, CallGivesUp, CallTimesOut, CallLeaves
<1>4. CountsMove(c) /\ refs' \in [Listeners -> Int] /\ inflight' \in [Listeners -> Int]
  <2> USE <1>1 DEF CountsMove, CInv, Shape, CallTypes, Inside, Guarded, GuardReleases
  <2>1. CASE ConsumeMessage(c) BY <2>1 DEF ConsumeMessage
  <2>2. CASE CallChecks(c) BY <2>2 DEF CallChecks
  <2>3. CASE CallAcquires(c) BY <2>3 DEF CallAcquires
  <2>4. CASE CallOffers(c) BY <2>4 DEF CallOffers
  <2>5. CASE CallOfferFails(c) BY <2>5 DEF CallOfferFails
  <2>6. CASE CallResolves(c)
    <3>1. at[c] = "wait" /\ at'[c] \in {"leave", "check"} /\ GuardReleases /\ UNCHANGED inflight
      BY <2>6 DEF CallResolves
    <3> QED BY <3>1
  <2>7. CASE CallGivesUp(c) \/ CallTimesOut(c)
    <3>1. at[c] = "wait" /\ at'[c] = "leave" /\ GuardReleases /\ UNCHANGED inflight
      BY <2>7 DEF CallGivesUp, CallTimesOut
    <3> QED BY <3>1
  <2>8. CASE CallLeaves(c) BY <2>8 DEF CallLeaves
  <2> QED BY <2>1, <2>2, <2>3, <2>4, <2>5, <2>6, <2>7, <2>8 DEF CallThread
<1>5. Counts'
  BY <1>1, <1>2, <1>3, <1>4, CountsOneCall
<1>6. Shape'
  <2>2. faults' \in 0..MaxFaults
    BY <1>2, SizeAssumption DEF CInv, Shape, Fault
  <2> QED BY <1>2, <1>4, <2>2 DEF CInv, Shape
<1>7. sdkState # "fresh"
  BY DEF CInv, Places, Within, Inside, Guarded, ConsumeMessage, CallThread, CallChecks,
         CallAcquires, CallOffers, CallOfferFails, CallResolves, CallGivesUp, CallTimesOut,
         CallLeaves
<1>8. Places'
  BY <1>1, <1>2, <1>7 DEF CInv, Places, At
<1> QED BY <1>5, <1>6, <1>8 DEF CInv

\* What a step of a thread or of the application must not do to the rest.
LEMMA CInvThread ==
  ASSUME CInv, UNCHANGED <<at, index, status, answer, inflight, serving>>, Shape', Places',
         NEW l \in {NoListener, serving},
         ListenerShutdown(l) \/ UNCHANGED listenerVars \/ UNCHANGED <<released, refs>>
  PROVE  CInv'
<1>1. Counts'
  BY CountsRelease
<1> QED BY <1>1 DEF CInv, CallTypes

LEMMA ShutdownShape ==
  ASSUME Shape, NEW l \in Listeners \cup {NoListener},
         ListenerShutdown(l) \/ (RequestShutdown(l) /\ UNCHANGED <<released, refs>>)
  PROVE  /\ requested' \in [Listeners -> BOOLEAN] /\ released' \in [Listeners -> BOOLEAN]
         /\ refs' \in [Listeners -> Int]
<1>1. CASE l = NoListener
  BY <1>1 DEF Shape, ListenerShutdown, RequestShutdown
<1>2. CASE l # NoListener
  <2>1. l \in Listeners /\ refs[l] \in Int
    BY <1>2 DEF Shape
  <2>2. requested' = [requested EXCEPT ![l] = TRUE]
    BY <1>2 DEF ListenerShutdown, RequestShutdown
  <2>3. released' = [released EXCEPT ![l] = TRUE] \/ UNCHANGED released
    BY <1>2 DEF ListenerShutdown
  <2>4. PICK n \in Int : refs' = [refs EXCEPT ![l] = n] \/ UNCHANGED refs
    <3>1. (IF released[l] THEN refs[l] ELSE refs[l] - 1) \in Int
      BY <2>1
    <3>2. \/ refs' = [refs EXCEPT ![l] = IF released[l] THEN refs[l] ELSE refs[l] - 1]
          \/ UNCHANGED refs
      BY <1>2 DEF ListenerShutdown
    <3> QED BY <3>1, <3>2
  <2> QED BY <2>1, <2>2, <2>3, <2>4 DEF Shape
<1> QED BY <1>1, <1>2

LEMMA FaultShape == ASSUME Shape, Fault PROVE faults' \in 0..MaxFaults
BY SizeAssumption DEF Shape, Fault

LEMMA CInvAnswer ==
  ASSUME CInv, CallTypes', NEW c \in Calls, NEW i \in Positions,
         \/ CallJs(c, i) \/ CallJsDelivers(c, i) \/ CallJsFails(c, i)
         \/ AckDone(c, i) \/ AckCollected(c, i)
  PROVE  CInv'
<1>1. /\ UNCHANGED <<lifeVars, listenerVars, callVars, sdkVars, held, current, inflight, thread>>
      /\ UNCHANGED faults \/ Fault
  BY DEF CallJs, CallJsDelivers, CallJsFails, AckDone, AckCollected, SetAnswer
<1>2. Shape'
  BY <1>1, FaultShape DEF CInv, Shape
<1>3. Counts' /\ Places'
  BY <1>1 DEF CInv, Counts, Places, Guarding, Within, At
<1> QED BY <1>2, <1>3 DEF CInv

LEMMA CInvStop == ASSUME CInv, NEW t \in Threads, StopStep(t) PROVE CInv'
<1>1. UNCHANGED <<at, index, status, answer, inflight, serving, current, lifecycle, active, held>>
  BY DEF StopStep, AwaitIdle, TakeFlag, LockSdk, SdkStops, SdkStopped, SdkStopFails,
         FinalizeListener
<1>2. thread[t].l \in {NoListener, serving} /\ thread[t].pc \notin {"rest", "queued", "lock"}
  BY DEF CInv, Places, At, StopStep, AwaitIdle, TakeFlag, LockSdk, SdkStops, SdkStopped,
         SdkStopFails, FinalizeListener
<1>3. ListenerShutdown(thread[t].l) \/ UNCHANGED listenerVars
  BY DEF StopStep, AwaitIdle, TakeFlag, LockSdk, SdkStops, SdkStopped, SdkStopFails,
         FinalizeListener
<1>4. PICK pc \in Pcs \ {"rest", "queued", "lock"} : thread' = [thread EXCEPT ![t].pc = pc]
  BY DEF StopStep, AwaitIdle, TakeFlag, LockSdk, SdkStops, SdkStopped, SdkStopFails,
         FinalizeListener, Goto, Pcs
<1>5. /\ sdkState' \in {sdkState, "stopping", "halted", "stopped"}
      /\ sdkState' = "running" => sdkState = "running"
      /\ native' \in {"free", t, native} /\ sdkFlag' \in {sdkFlag, TRUE}
      /\ UNCHANGED faults \/ Fault
  BY DEF StopStep, AwaitIdle, TakeFlag, LockSdk, SdkStops, SdkStopped, SdkStopFails,
         FinalizeListener, UnlockSdk
<1>6. /\ thread' \in [Threads -> [op : Ops, pc : Pcs, l : Listeners \cup {NoListener}, ok : BOOLEAN]]
      /\ thread'[t].l = thread[t].l /\ thread'[t].pc = pc
      /\ \A u \in Threads \ {t} : thread'[u] = thread[u]
  BY <1>4 DEF CInv, Shape
<1>7. Shape'
  <2>1. /\ requested' \in [Listeners -> BOOLEAN] /\ released' \in [Listeners -> BOOLEAN]
        /\ refs' \in [Listeners -> Int]
    BY <1>2, <1>3, ShutdownShape DEF CInv, Shape
  <2>2. faults' \in 0..MaxFaults
    BY <1>5, FaultShape DEF CInv, Shape
  <2> QED BY <1>1, <1>5, <1>6, <2>1, <2>2 DEF CInv, Shape
<1>8. lifecycle # "Idle"
  BY <1>2, SetAssumption DEF CInv, Places, Threads, At
<1>9. Places'
  BY <1>1, <1>2, <1>5, <1>6, <1>8 DEF CInv, Places, Within, Threads, At
<1> QED BY <1>1, <1>2, <1>3, <1>7, <1>9, CInvThread

LEMMA CInvStart == ASSUME CInv, StartWorker PROVE CInv'
<1> USE DEF Threads
<1>1. CASE StopStep("start")
  BY <1>1, CInvStop
<1>2. CASE StartCheck \/ StartLock \/ SdkStartFails \/ SdkStarts \/ SdkStarted \/ StartEnds
  <2>1. /\ UNCHANGED <<at, index, status, answer, inflight, serving, lifecycle, active,
                       sdkFlag, held, listenerVars>>
        /\ UNCHANGED faults \/ Fault
    BY <1>2 DEF StartCheck, StartLock, SdkStartFails, SdkStarts, SdkStarted, StartEnds
  <2>2. PICK pc \in Pcs \ {"rest", "queued"}, ok \in BOOLEAN :
          thread' = [thread EXCEPT !["start"].pc = pc, !["start"].ok = ok]
    <3>1. CASE SdkStarted BY <3>1 DEF SdkStarted, Pcs
    <3>2. CASE ~SdkStarted
      <4>1. PICK pc \in Pcs \ {"rest", "queued"} : thread' = [thread EXCEPT !["start"].pc = pc]
        BY <3>2, <1>2 DEF StartCheck, StartLock, SdkStartFails, SdkStarts, StartEnds, Goto, Pcs
      <4>2. thread' = [thread EXCEPT !["start"].pc = pc, !["start"].ok = thread["start"].ok]
        BY <4>1 DEF CInv, Shape
      <4> QED BY <4>1, <4>2 DEF CInv, Shape
    <3> QED BY <3>1, <3>2
  <2>3. /\ sdkState' \in {sdkState, "failed", "running"} /\ native' \in {native, "free", "start"}
        /\ sdkState' = "running" /\ sdkState # "running" => serving # NoListener
        /\ current' \in {current, NoListener} /\ ~At("start", "rest")
    BY <1>2 DEF StartCheck, StartLock, SdkStartFails, SdkStarts, SdkStarted, StartEnds, At
  <2>4. /\ thread' \in [Threads -> [op : Ops, pc : Pcs, l : Listeners \cup {NoListener}, ok : BOOLEAN]]
        /\ thread'["start"].l = thread["start"].l /\ thread'["start"].pc = pc
        /\ \A u \in Threads \ {"start"} : thread'[u] = thread[u]
    BY <2>2 DEF CInv, Shape
  <2>5. Shape'
    BY <2>1, <2>3, <2>4, FaultShape DEF CInv, Shape
  <2>6. Places'
    BY <2>1, <2>3, <2>4 DEF CInv, Shape, Places, Within, At
  <2> QED BY <2>1, <2>5, <2>6, CInvThread
<1>3. CASE StartPublish \/ StartPublishFailure
  <2>1. /\ UNCHANGED <<at, index, status, answer, inflight, sdkVars, active, sdkFlag, envVars,
                       current, released, refs>>
        /\ RequestShutdown(current) \/ UNCHANGED requested
    BY <1>3 DEF StartPublish, StartPublishFailure
  <2>2. PICK th \in [op : Ops, pc : Pcs \ {"rest", "queued"}, l : {NoListener, current, thread["start"].l}, ok : BOOLEAN] :
          thread' = [thread EXCEPT !["start"] = th]
    <3>1. CASE StartPublish
      BY <1>3, <3>1 DEF StartPublish, Stopping, Goto, Ops, Pcs, CInv, Shape
    <3>2. CASE StartPublishFailure
      <4>1. CASE current = NoListener
        <5>1. thread' = [thread EXCEPT !["start"] = [thread["start"] EXCEPT !.pc = "complete"]]
          BY <3>2, <4>1 DEF StartPublishFailure
        <5> QED BY <5>1 DEF CInv, Shape, Pcs
      <4>2. CASE current # NoListener
        <5>1. thread' = [thread EXCEPT !["start"] = Stopping("start", current, FALSE)]
          BY <3>2, <4>2 DEF StartPublishFailure
        <5> QED BY <5>1 DEF Stopping, Ops, Pcs
      <4> QED BY <4>1, <4>2
    <3> QED BY <1>3, <3>1, <3>2
  <2>3. lifecycle' \in {lifecycle, "Started", "Shutdown"} /\ lifecycle # "Idle"
        /\ (lifecycle' = lifecycle \/ lifecycle = "Starting")
    BY <1>3 DEF StartPublish, StartPublishFailure, CInv, Places, At
  <2>4. /\ thread' \in [Threads -> [op : Ops, pc : Pcs, l : Listeners \cup {NoListener}, ok : BOOLEAN]]
        /\ thread'["start"] = th
        /\ \A u \in Threads \ {"start"} : thread'[u] = thread[u]
    BY <2>2 DEF CInv, Shape
  <2>5. Shape'
    BY <2>1, <2>3, <2>4, ShutdownShape DEF CInv, Shape, Lifecycles
  <2>6. Places'
    BY <2>1, <2>3, <2>4 DEF CInv, Places, Within, At
  <2> QED BY <2>1, <2>5, <2>6, CInvThread
<1> QED BY <1>1, <1>2, <1>3 DEF StartWorker

LEMMA CInvShut == ASSUME CInv, ShutdownWorker PROVE CInv'
<1> USE DEF Threads
<1>1. CASE StopStep("shut")
  BY <1>1, CInvStop
<1>2. CASE ShutCheck \/ ShutFails \/ ShutEnds
  <2>1. /\ UNCHANGED <<at, index, status, answer, inflight, sdkVars, envVars, released, refs>>
        /\ RequestShutdown(current) \/ UNCHANGED requested
        /\ current' \in {current, NoListener} /\ active' \in {active, FALSE}
        /\ sdkFlag' \in {sdkFlag, FALSE}
    BY <1>2 DEF ShutCheck, ShutFails, ShutEnds, FlagReset
  <2>2. PICK th \in [op : Ops, pc : Pcs \ {"rest", "queued"},
                     l : {NoListener, current, thread["shut"].l}, ok : BOOLEAN] :
          thread' = [thread EXCEPT !["shut"] = th]
    <3>1. CASE ShutCheck
      <4>1. CASE lifecycle = "Destroyed"
        <5>1. thread' = [thread EXCEPT !["shut"] = [thread["shut"] EXCEPT !.pc = "complete"]]
          BY <3>1, <4>1 DEF ShutCheck, Goto, CInv, Shape
        <5> QED BY <5>1 DEF CInv, Shape, Pcs
      <4>2. CASE lifecycle # "Destroyed"
        <5>1. thread' = [thread EXCEPT !["shut"] = Stopping("shutdown", current, TRUE)]
          BY <3>1, <4>2 DEF ShutCheck
        <5> QED BY <5>1 DEF Stopping, Ops, Pcs
      <4> QED BY <4>1, <4>2
    <3>2. CASE ShutFails \/ ShutEnds
      <4>1. thread' = [thread EXCEPT !["shut"] = [thread["shut"] EXCEPT !.pc = "complete"]]
        BY <3>2 DEF ShutFails, ShutEnds, Goto, CInv, Shape
      <4> QED BY <4>1 DEF CInv, Shape, Pcs
    <3> QED BY <1>2, <3>1, <3>2
  <2>3. ~At("shut", "rest") /\ lifecycle' \in {lifecycle, "Shutdown"}
    BY <1>2 DEF ShutCheck, ShutFails, ShutEnds, At
  <2>4. lifecycle # "Idle" /\ (lifecycle = "Destroyed" => lifecycle' = "Destroyed")
    BY <1>2, <2>3 DEF CInv, Places, ShutCheck, ShutFails, ShutEnds
  <2>5. /\ thread' \in [Threads -> [op : Ops, pc : Pcs, l : Listeners \cup {NoListener}, ok : BOOLEAN]]
        /\ thread'["shut"] = th
        /\ \A u \in Threads \ {"shut"} : thread'[u] = thread[u]
    BY <2>2 DEF CInv, Shape
  <2>6. Shape'
    <3>1. requested' \in [Listeners -> BOOLEAN]
      BY <2>1, ShutdownShape DEF CInv, Shape
    <3>2. active' \in BOOLEAN /\ sdkFlag' \in BOOLEAN /\ lifecycle' \in Lifecycles
      BY <2>1, <2>3 DEF CInv, Shape, Lifecycles
    <3>3. current' \in Listeners \cup {NoListener}
      BY <2>1 DEF CInv, Shape
    <3> QED BY <2>1, <2>5, <3>1, <3>2, <3>3 DEF CInv, Shape
  <2>7. Places'
    BY <2>1, <2>3, <2>4, <2>5 DEF CInv, Places, Within, At
  <2> QED BY <2>1, <2>6, <2>7, CInvThread
<1> QED BY <1>1, <1>2 DEF ShutdownWorker

\* The record of a thread that begins something.
LEMMA RestingRecord ==
  ASSUME NEW op \in Ops, NEW pc \in Pcs
  PROVE  LET th == [Resting EXCEPT !.op = op, !.pc = pc]
         IN th \in [op : Ops, pc : {pc}, l : {NoListener}, ok : BOOLEAN]
BY DEF Resting

\* A thread goes back to rest, or the main thread begins something.
LEMMA CInvRest ==
  ASSUME CInv,
         \/ Completes("start") \/ Completes("shut") \/ SubscribeReturns \/ Subscribe
         \/ ForceDestroyEnds \/ DestructorEnds \/ DestructorReturnsEarly
  PROVE  CInv'
<1> USE DEF Threads
<1>1. /\ UNCHANGED <<at, index, status, answer, inflight, sdkVars, envVars, listenerVars, lifeVars>>
      /\ current' \in {current, NoListener}
  BY DEF Completes, SubscribeReturns, Subscribe, ForceDestroyEnds, DestructorEnds,
         DestructorReturnsEarly
<1>2. lifecycle = "Idle" => UNCHANGED current
  BY DEF CInv, Places, At, Completes, SubscribeReturns, Subscribe, ForceDestroyEnds,
         DestructorEnds, DestructorReturnsEarly
<1>3. PICK t \in Threads, th \in [op : Ops, pc : {"rest", "lock", "members"},
                                  l : {NoListener, thread["main"].l}, ok : BOOLEAN] :
        /\ thread' = [thread EXCEPT ![t] = th]
        /\ th.pc = "rest" => th.l = NoListener
        /\ th.pc = "lock" => t = "main"
        /\ th.pc = "members" => t = "main" /\ lifecycle = "Destroyed"
  <2> USE DEF Resting, Ops
  <2> DEFINE R(op, pc) == [Resting EXCEPT !.op = op, !.pc = pc]
  <2>1. CASE Completes("start") \/ Completes("shut") \/ SubscribeReturns \/ ForceDestroyEnds
    <3>1. PICK t \in Threads : thread' = [thread EXCEPT ![t] = Resting]
      BY <2>1 DEF Completes, SubscribeReturns, ForceDestroyEnds
    <3>2. Resting \in [op : Ops, pc : {"rest"}, l : {NoListener}, ok : BOOLEAN]
      OBVIOUS
    <3> QED BY ONLY <3>1, <3>2 DEF Threads
  <2>2. CASE Subscribe
    <3>1. thread' = [thread EXCEPT !["main"] = R("subscribe", "lock")]
      BY <2>2 DEF Subscribe
    <3>2. R("subscribe", "lock") \in [op : Ops, pc : {"lock"}, l : {NoListener}, ok : BOOLEAN]
      BY RestingRecord DEF Pcs
    <3> HIDE DEF R
    <3> QED BY ONLY <3>1, <3>2 DEF Threads
  <2>3. CASE DestructorReturnsEarly
    <3>1. lifecycle = "Destroyed" /\ thread' = [thread EXCEPT !["main"] = R("dtor", "members")]
      BY <2>3 DEF DestructorReturnsEarly
    <3>2. R("dtor", "members") \in [op : Ops, pc : {"members"}, l : {NoListener}, ok : BOOLEAN]
      BY RestingRecord DEF Pcs
    <3> HIDE DEF R
    <3> QED BY ONLY <3>1, <3>2 DEF Threads
  <2>4. CASE DestructorEnds
    <3>1. lifecycle = "Destroyed" /\ thread' = [thread EXCEPT !["main"].pc = "members"]
      BY <2>4 DEF DestructorEnds, Goto, At, CInv, Places
    <3>2. thread["main"] \in [op : Ops, pc : Pcs, l : Listeners \cup {NoListener}, ok : BOOLEAN]
      BY DEF CInv, Shape
    <3>3. thread' = [thread EXCEPT !["main"] = [thread["main"] EXCEPT !.pc = "members"]]
      BY <3>1, <3>2 DEF CInv, Shape
    <3> QED BY <3>1, <3>2, <3>3
  <2> QED BY <2>1, <2>2, <2>3, <2>4
<1>4. /\ thread' \in [Threads -> [op : Ops, pc : Pcs, l : Listeners \cup {NoListener}, ok : BOOLEAN]]
      /\ thread'[t] = th /\ \A u \in Threads \ {t} : thread'[u] = thread[u]
  BY <1>3 DEF CInv, Shape, Pcs
<1>5. Shape'
  BY <1>1, <1>4 DEF CInv, Shape
<1>6. Places'
  BY <1>1, <1>2, <1>3, <1>4 DEF CInv, Places, Within, At
<1> QED BY <1>1, <1>5, <1>6, CInvThread

LEMMA CInvObject ==
  ASSUME CInv, Start \/ Shutdown \/ ShutdownQueueFails \/ DropReference
  PROVE  CInv'
<1> USE DEF Threads
<1>1. /\ UNCHANGED <<at, index, status, answer, inflight, sdkVars, listenerVars, sdkFlag, current>>
      /\ UNCHANGED faults \/ Fault
      /\ held' \in {held, FALSE} /\ active' \in BOOLEAN
  BY DEF Start, Shutdown, ShutdownQueueFails, DropReference, CInv, Shape
<1>2. /\ lifecycle' \in {lifecycle, "Starting", "ShuttingDown", "Started"}
      /\ lifecycle' # lifecycle => lifecycle \notin {"Destroyed"}
  BY DEF Start, Shutdown, ShutdownQueueFails, DropReference, MayShutdown
<1>3. \/ UNCHANGED thread
      \/ \E t \in {"start", "shut"}, op \in Ops :
           /\ thread' = [thread EXCEPT ![t] = [Resting EXCEPT !.op = op, !.pc = "queued"]]
           /\ lifecycle' # "Idle"
  BY DEF Start, Shutdown, ShutdownQueueFails, DropReference, Ops
<1>4. /\ thread' \in [Threads -> [op : Ops, pc : Pcs, l : Listeners \cup {NoListener}, ok : BOOLEAN]]
      /\ thread'["main"] = thread["main"]
      /\ \A u \in Threads : \/ thread'[u] = thread[u]
                            \/ thread'[u].l = NoListener /\ lifecycle' # "Idle"
  <2>1. CASE UNCHANGED thread
    BY <2>1 DEF CInv, Shape
  <2>2. CASE ~UNCHANGED thread
    <3>1. PICK t \in {"start", "shut"}, op \in Ops :
            /\ thread' = [thread EXCEPT ![t] = [Resting EXCEPT !.op = op, !.pc = "queued"]]
            /\ lifecycle' # "Idle"
      BY <1>3, <2>2
    <3> DEFINE th == [Resting EXCEPT !.op = op, !.pc = "queued"]
    <3>2. th \in [op : Ops, pc : {"queued"}, l : {NoListener}, ok : BOOLEAN]
      BY RestingRecord DEF Pcs
    <3>3. thread' = [thread EXCEPT ![t] = th]
      BY <3>1
    <3> HIDE DEF th
    <3>4. th \in [op : Ops, pc : Pcs, l : Listeners \cup {NoListener}, ok : BOOLEAN]
          /\ th.l = NoListener
      BY <3>2 DEF Pcs
    <3>5. thread'[t] = th /\ \A u \in Threads \ {t} : thread'[u] = thread[u]
      BY <3>3 DEF CInv, Shape
    <3>6. thread' \in [Threads -> [op : Ops, pc : Pcs, l : Listeners \cup {NoListener}, ok : BOOLEAN]]
      BY <3>3, <3>4 DEF CInv, Shape
    <3> QED BY <3>1, <3>4, <3>5, <3>6
  <2> QED BY <2>1, <2>2
<1>5. Shape'
  <2>1. faults' \in 0..MaxFaults /\ held' \in BOOLEAN /\ lifecycle' \in Lifecycles
    BY <1>1, <1>2, FaultShape DEF CInv, Shape, Lifecycles
  <2> QED BY <1>1, <1>4, <2>1 DEF CInv, Shape
<1>6. Places'
  BY <1>1, <1>2, <1>4 DEF CInv, Places, Within, At
<1> QED BY <1>1, <1>5, <1>6, CInvThread

LEMMA CInvDestroy ==
  ASSUME CInv, ForceDestroy \/ Destructor \/ MembersDestroyed
  PROVE  CInv'
<1> USE DEF Threads
<1>1. CASE ForceDestroy \/ Destructor
  <2>1. PICK op \in Ops : BeginDestroy(op)
    BY <1>1 DEF ForceDestroy, Destructor, Ops
  <2>2. /\ thread' \in [Threads -> [op : Ops, pc : Pcs, l : Listeners \cup {NoListener}, ok : BOOLEAN]]
        /\ thread'["main"] = Stopping(op, current, WasStarted)
        /\ \A u \in Threads \ {"main"} : thread'[u] = thread[u]
    BY <2>1 DEF BeginDestroy, CInv, Shape, Pcs, Stopping, WasStarted
  <2>3. Shape'
    BY <2>1, <2>2, ShutdownShape DEF BeginDestroy, CInv, Shape, Lifecycles
  <2>4. Places'
    BY <2>1, <2>2 DEF BeginDestroy, CInv, Places, Within, At, Stopping
  <2> QED BY <2>1, <2>3, <2>4, CInvThread DEF BeginDestroy
<1>2. CASE MembersDestroyed
  <2>1. /\ UNCHANGED <<at, index, status, answer, inflight, lifeVars, native, serving, envVars, current>>
        /\ ListenerShutdown(serving) /\ sdkState' = "stopped"
        /\ lifecycle = "Destroyed"
    BY <1>2 DEF MembersDestroyed, CInv, Places, At
  <2>2. /\ thread' \in [Threads -> [op : Ops, pc : Pcs, l : Listeners \cup {NoListener}, ok : BOOLEAN]]
        /\ thread'["main"].l = thread["main"].l /\ thread'["main"].pc = "gone"
        /\ \A u \in Threads \ {"main"} : thread'[u] = thread[u]
    BY <1>2 DEF MembersDestroyed, Goto, CInv, Shape, Pcs
  <2>3. Shape'
    BY <2>1, <2>2, ShutdownShape DEF CInv, Shape
  <2>4. Places'
    BY <2>1, <2>2 DEF CInv, Places, Within, At
  <2> QED BY <2>1, <2>3, <2>4, CInvThread
<1> QED BY <1>1, <1>2

LEMMA CInvSetListener == ASSUME CInv, NEW l \in Listeners, SetListener(l) PROVE CInv'
<1>1. /\ UNCHANGED <<lifeVars, native, sdkState, held, inflight, thread, callVars, answer>>
      /\ lifecycle = "Idle" /\ MainFree /\ refs[l] = 0 /\ ~released[l]
  BY DEF SetListener
<1>2. /\ sdkState = "fresh" /\ current = serving /\ Within = {}
      /\ serving \in Listeners => ~released[serving]
      /\ \A t \in Threads : thread[t].l = NoListener
  BY <1>1 DEF CInv, Places, Threads, At, MainFree
<1>3. Guarding = {} /\ Cardinality(Guarding) = 0 /\ Cardinality(Within) = 0
  BY <1>2, FS_EmptySet DEF Guarding, Within, Inside
<1>4. \A k \in Listeners : refs[k] = (IF k = serving THEN 1 ELSE 0) /\ inflight[k] = 0
  BY <1>2, <1>3 DEF CInv, Counts
<1>5. l # serving
  BY <1>1, <1>4
<1>6. Guarding' = Guarding /\ Within' = Within
  BY <1>1 DEF Guarding, Within
<1>7. CASE /\ current' = l /\ serving' = l
           /\ refs' = [k \in Listeners |-> IF k = l THEN 1
                                           ELSE IF k = current THEN refs[k] - 1 ELSE refs[k]]
           /\ requested' = [k \in Listeners |-> requested[k] \/ k = current]
           /\ released' = [k \in Listeners |-> released[k] \/ k = current]
           /\ UNCHANGED faults
  <2>1. \A k \in Listeners : refs'[k] = (IF k = l THEN 1 ELSE 0)
    BY <1>2, <1>4, <1>7
  <2>2. ~released'[l]
    BY <1>1, <1>2, <1>5, <1>7
  <2>3. Counts'
    BY <1>1, <1>3, <1>4, <1>6, <1>7, <2>1, <2>2 DEF Counts
  <2>4. Shape'
    <3>1. refs' \in [Listeners -> Int]
      BY <1>7, <2>1
    <3> QED BY <1>1, <1>7, <3>1 DEF CInv, Shape
  <2>5. Places'
    BY <1>1, <1>2, <1>6, <1>7, <2>2 DEF CInv, Places, At
  <2> QED BY <1>1, <2>3, <2>4, <2>5 DEF CInv, CallTypes
<1>8. CASE /\ Fault
           /\ requested' = [requested EXCEPT ![l] = TRUE]
           /\ released' = [released EXCEPT ![l] = TRUE]
           /\ UNCHANGED <<current, serving, refs>>
  <2>1. Shape'
    BY <1>1, <1>8, FaultShape DEF CInv, Shape
  <2>2. \A k \in Listeners : k # l => released'[k] = released[k]
    BY <1>8 DEF CInv, Shape
  <2>3. Counts'
    BY <1>1, <1>5, <1>6, <1>8, <2>2 DEF CInv, Counts
  <2>4. Places'
    BY <1>1, <1>5, <1>6, <1>8, <2>2 DEF CInv, Places, At
  <2> QED BY <1>1, <2>1, <2>3, <2>4 DEF CInv, CallTypes
<1> QED BY <1>7, <1>8 DEF SetListener

LEMMA CInvNext == BInv /\ CInv /\ [Next]_vars => CInv'
<1> SUFFICES ASSUME BInv, CInv, [Next]_vars PROVE CInv'
  OBVIOUS
<1>1. CallTypes'
  BY BInvNext DEF BInv
<1>2. CASE Application
  BY <1>1, <1>2, CInvRest, CInvObject, CInvDestroy, CInvSetListener, CInvAnswer DEF Application
<1>3. CASE MainThread
  BY <1>1, <1>3, CInvRest, CInvStop, CInvDestroy, CInvAnswer DEF MainThread, Threads
<1>4. CASE StartWorker \/ ShutdownWorker
  BY <1>4, CInvStart, CInvShut
<1>5. CASE \E c \in Calls : ConsumeMessage(c) \/ CallThread(c) \/ CallTimesOut(c)
  BY <1>1, <1>5, CInvCall
<1>6. CASE Finished \/ UNCHANGED vars
  <2>1. UNCHANGED vars
    BY <1>6 DEF Finished
  <2>2. Guarding' = Guarding /\ Within' = Within
    BY <2>1 DEF Guarding, Within
  <2>3. Counts' /\ Places'
    BY <2>1, <2>2 DEF CInv, Counts, Places, At
  <2>4. Shape'
    BY <2>1 DEF CInv, Shape
  <2> QED BY <1>1, <2>3, <2>4 DEF CInv
<1> QED BY <1>2, <1>3, <1>4, <1>5, <1>6 DEF Next

\* The variables keep their types; above all no TSFN is released more often than it
\* was acquired, and inflight_ never wraps below zero (ConsumerMessageListener of
\* lib/push_consumer.cpp).
THEOREM TypeCorrect == Spec => []TypeOK
BY BInvInit, BInvNext, CInvInit, CInvNext, CInvTypes, PTL DEF Spec, SafetySpec
-----------------------------------------------------------------------------
(* What holds in every build: where a thread may be, who has the lock, when *)
(* a call may be in the listener, and who has asked the listener to go.     *)

Sequence == {"idle", "flag", "sdkLock", "stop", "join", "failed", "finalize"}
ServingReleased == serving \in Listeners => released[serving]
ServingAsked == serving \in Listeners => requested[serving]
NoCallYet == \A c \in Calls : at[c] = "none"

\* Which steps each thread takes; the destructor runs alone and takes no lock.
PcOK ==
    /\ thread["start"].pc \in {"rest", "queued", "lock", "call", "called", "state", "publish",
                               "complete"} \cup (Sequence \ {"failed"})
    /\ thread["start"].pc # "rest" => thread["start"].op = "start"
    /\ thread["shut"].pc \in {"rest", "queued", "publish", "complete"} \cup Sequence
    /\ thread["shut"].pc # "rest" => thread["shut"].op = "shutdown"
    /\ thread["main"].pc \in {"rest", "lock", "publish", "members", "gone"}
                               \cup (Sequence \ {"failed"})
    /\ thread["main"].op \in {"none", "subscribe", "force", "forceStarting", "dtor"}
    /\ thread["main"].op = "none" <=> thread["main"].pc = "rest"
    /\ thread["main"].op = "subscribe" <=> thread["main"].pc = "lock"
    /\ thread["main"].pc \in {"members", "gone"} => thread["main"].op = "dtor"
    /\ thread["main"].op = "dtor" =>
         /\ thread["start"].pc = "rest" /\ thread["shut"].pc = "rest" /\ ~held
         /\ thread["main"].pc # "sdkLock"

\* A thread is in a call of the SDK for which it has locked native_access_mutex_.
InSdk(t) ==
    \/ thread[t].pc \in {"call", "called"}
    \/ thread[t].pc \in {"stop", "join"} /\ thread[t].op # "dtor"

LockOK == \A t \in Threads : native = t <=> InSdk(t)

\* Consume threads are about only after a start, and in the listener only until a stop.
RunsOK ==
    /\ thread["start"].pc \in {"queued", "lock", "call"} => sdkState = "fresh"
    /\ sdkState \in {"fresh", "failed"} => NoCallYet
    /\ ~NoCallYet => serving \in Listeners
    /\ Within # {} => sdkState \in {"running", "stopping"}

\* Whoever stops the consumer has asked the listener that serves to shut down, or
\* found that somebody had; no listener is asked before the consumer is started.
AskedOK ==
    /\ lifecycle = "Idle" => \A l \in Listeners : requested[l] => released[l]
    /\ \/ lifecycle = "Destroyed" \/ current # serving
       \/ sdkState \in {"stopping", "halted", "stopped"}
       \/ \E t \in Threads : thread[t].pc \in {"publish"} \cup Sequence
       => ServingAsked
    /\ thread["main"].pc = "gone" => sdkState = "stopped" /\ ServingReleased

ActiveTells == active <=> thread["shut"].pc \notin {"rest", "complete"}

\* A shutdown worker is there only while the consumer shuts down or is destroyed.
WorkerOK == ActiveTells /\ (active => lifecycle \in {"ShuttingDown", "Destroyed"})

RInv == PcOK /\ LockOK /\ RunsOK /\ AskedOK /\ WorkerOK

\* The invariant holds when the consumer is created.
LEMMA RInvInit == Init => RInv
<1> SUFFICES ASSUME Init PROVE RInv
  OBVIOUS
<1> USE DEF Init, Resting, Threads, Sequence
<1>1. PcOK
  BY DEF PcOK
<1>2. LockOK
  BY DEF LockOK, InSdk
<1>3. RunsOK
  BY DEF RunsOK, NoCallYet, Within, Inside, Guarded
<1>4. AskedOK
  BY DEF AskedOK, ServingAsked
<1>5. WorkerOK
  BY DEF WorkerOK, ActiveTells
<1> QED BY <1>1, <1>2, <1>3, <1>4, <1>5 DEF RInv

\* The consume threads: one can be in the listener only of a consumer that runs or
\* is about to be joined.
LEMMA RInvCall ==
  ASSUME CInv, RInv, NEW c \in Calls, ConsumeMessage(c) \/ CallThread(c) \/ CallTimesOut(c)
  PROVE  RInv'
<1> USE DEF CallGoto, Returns
<1>1. UNCHANGED <<lifeVars, requested, released, sdkVars, held, current, thread>>
  BY DEF ConsumeMessage, CallThread, CallChecks, CallAcquires, CallOffers, CallOfferFails,
         CallResolves, CallGivesUp, CallTimesOut, CallLeaves
<1>2. serving \in Listeners /\ sdkState \in {"running", "stopping"}
  <2>1. CASE ConsumeMessage(c)
    BY <2>1 DEF CInv, Places, ConsumeMessage
  <2>2. CASE ~ConsumeMessage(c)
    <3>1. Within # {}
      BY <2>2 DEF Within, Inside, Guarded, CallThread, CallChecks, CallAcquires, CallOffers,
         CallOfferFails, CallResolves, CallGivesUp, CallTimesOut, CallLeaves
    <3> QED BY <3>1 DEF CInv, Places, RInv, RunsOK
  <2> QED BY <2>1, <2>2
<1>3. PcOK' /\ LockOK'
  BY <1>1 DEF RInv, PcOK, LockOK, InSdk
<1>4. RunsOK'
  BY <1>1, <1>2 DEF RInv, RunsOK
<1>5. AskedOK'
  BY <1>1 DEF RInv, AskedOK, ServingAsked, ServingReleased
<1>6. WorkerOK'
  BY <1>1 DEF RInv, WorkerOK, ActiveTells
<1> QED BY <1>3, <1>4, <1>5, <1>6 DEF RInv

\* The thread t is now at pc, and nothing else about the threads has changed.
ThreadMoved(t, pc) ==
    /\ thread'[t].pc = pc /\ thread'[t].l = thread[t].l
    /\ thread'[t].op = thread[t].op /\ thread'[t].ok = thread[t].ok
    /\ \A u \in Threads \ {t} : thread'[u] = thread[u]

LEMMA GotoMoves ==
  ASSUME CInv, NEW t \in Threads, NEW pc, Goto(t, pc)
  PROVE  ThreadMoved(t, pc)
BY DEF CInv, Shape, Goto, ThreadMoved

\* A listener that was asked stays asked, and one that was released stays released.
LEMMA AskedKept ==
  ASSUME CInv, UNCHANGED serving,
         \/ UNCHANGED <<requested, released>>
         \/ \E l \in Listeners \cup {NoListener} : ListenerShutdown(l)
         \/ \E l \in Listeners \cup {NoListener} : RequestShutdown(l) /\ UNCHANGED released
  PROVE  /\ ServingAsked => ServingAsked'
         /\ ServingReleased => ServingReleased'
BY DEF ServingAsked, ServingReleased, ListenerShutdown, RequestShutdown, CInv, Shape

\* Asking the current listener asks the one that serves, if it was not asked before.
LEMMA AskingAsks ==
  ASSUME CInv, RInv, RequestShutdown(current), UNCHANGED serving
  PROVE  ServingAsked'
<1>1. ServingAsked => ServingAsked'
  BY DEF ServingAsked, RequestShutdown, CInv, Shape
<1>2. current # serving => ServingAsked
  BY DEF RInv, AskedOK
<1>3. current = serving => ServingAsked'
  BY SetAssumption DEF ServingAsked, RequestShutdown, CInv, Shape
<1> QED BY <1>1, <1>2, <1>3

\* The stop sequence: the lock is held from LockSdk to the end of the join.
LEMMA RInvStop == ASSUME CInv, RInv, NEW t \in Threads, StopStep(t) PROVE RInv'
<1> USE DEF Sequence
<1>1. /\ UNCHANGED <<lifecycle, active, serving, held, current, at>>
      /\ thread[t].pc \in Sequence
  BY DEF StopStep, AwaitIdle, TakeFlag, LockSdk, SdkStops, SdkStopped, SdkStopFails,
         FinalizeListener, At
<1>2. PICK pc \in {"publish"} \cup (Sequence \ {"idle"}) :
        /\ ThreadMoved(t, pc)
        /\ pc = "failed" => thread[t].op = "shutdown"
        /\ pc = "sdkLock" => thread[t].op # "dtor"
  BY GotoMoves DEF StopStep, AwaitIdle, TakeFlag, LockSdk, SdkStops, SdkStopped, SdkStopFails,
         FinalizeListener
<1>3. PcOK'
  BY <1>1, <1>2 DEF RInv, PcOK, ThreadMoved, Threads
<1>4. LockOK'
  <2>1. InSdk(t) <=> thread[t].pc \in {"stop", "join"} /\ thread[t].op # "dtor"
    BY <1>1 DEF InSdk
  <2>2. InSdk(t)' <=> pc \in {"stop", "join"} /\ thread[t].op # "dtor"
    BY <1>2 DEF InSdk, ThreadMoved
  <2>3. \A u \in Threads \ {t} : InSdk(u)' <=> InSdk(u)
    BY <1>2 DEF InSdk, ThreadMoved
  <2>4. CASE LockSdk(t)
    <3>1. native = "free" /\ native' = t /\ thread[t].pc = "sdkLock" /\ pc = "stop"
      BY <1>2, <2>4 DEF LockSdk, At, Goto, ThreadMoved, CInv, Shape
    <3>2. thread[t].op # "dtor"
      BY <3>1 DEF RInv, PcOK, Threads
    <3> QED BY <2>1, <2>2, <2>3, <3>1, <3>2 DEF RInv, LockOK, Threads
  <2>5. CASE SdkStopped(t) \/ SdkStopFails(t)
    <3>1. UnlockSdk(t) /\ pc \in {"finalize", "failed"}
      BY <1>2, <2>5 DEF SdkStopped, SdkStopFails, Goto, ThreadMoved, CInv, Shape
    <3> QED BY <2>2, <2>3, <3>1 DEF RInv, LockOK, UnlockSdk, Threads
  <2>6. CASE AwaitIdle(t) \/ TakeFlag(t) \/ SdkStops(t) \/ FinalizeListener(t)
    <3>1. UNCHANGED native
      BY <2>6 DEF AwaitIdle, TakeFlag, SdkStops, FinalizeListener
    <3>2. InSdk(t)' <=> InSdk(t)
      BY <1>2, <2>1, <2>2, <2>6
         DEF AwaitIdle, TakeFlag, SdkStops, FinalizeListener, At, Goto, ThreadMoved, CInv, Shape
    <3> QED BY <2>3, <3>1, <3>2 DEF RInv, LockOK
  <2> QED BY <2>4, <2>5, <2>6 DEF StopStep
<1>5. RunsOK'
  <2>1. /\ sdkState' = sdkState \/ (sdkState = "running" /\ sdkState' = "stopping")
           \/ (sdkState \in {"stopping", "halted"} /\ NoCallInside /\ sdkState' \in {"stopped", "halted"})
    BY DEF StopStep, AwaitIdle, TakeFlag, LockSdk, SdkStops, SdkStopped, SdkStopFails,
           FinalizeListener, ConsumeThreadsJoined
  <2>2. thread'["start"].pc \in {"queued", "lock", "call"} => UNCHANGED sdkState
    BY <1>1, <1>2, <2>1 DEF RInv, RunsOK, ThreadMoved, Threads
  <2>3. thread'["start"].pc \in {"queued", "lock", "call"} => thread["start"].pc = thread'["start"].pc
    BY <1>1, <1>2 DEF ThreadMoved, Threads
  <2> QED BY <1>1, <2>1, <2>2, <2>3 DEF RInv, RunsOK, NoCallYet, NoCallInside, Within
<1>6. AskedOK'
  <2>1. ServingAsked /\ lifecycle # "Idle"
    BY <1>1 DEF RInv, AskedOK, CInv, Places, PcOK, At, Threads
  <2>2. ServingAsked' /\ (ServingReleased => ServingReleased')
    <3>1. \/ UNCHANGED <<requested, released>>
          \/ ListenerShutdown(thread[t].l) /\ thread[t].l \in Listeners \cup {NoListener}
      BY DEF StopStep, AwaitIdle, TakeFlag, LockSdk, SdkStops, SdkStopped, SdkStopFails,
             FinalizeListener, CInv, Shape
    <3> QED BY <1>1, <2>1, <3>1, AskedKept
  <2>3. thread'["main"].pc # "gone"
    BY <1>1, <1>2 DEF RInv, PcOK, ThreadMoved, Threads
  <2> QED BY <1>1, <2>1, <2>2, <2>3 DEF AskedOK
<1>7. WorkerOK'
  BY <1>1, <1>2 DEF RInv, WorkerOK, ActiveTells, ThreadMoved, Threads
<1> QED BY <1>3, <1>4, <1>5, <1>6, <1>7 DEF RInv

\* The start worker: the SDK consumer is started once, under the lock.
LEMMA RInvStart == ASSUME CInv, RInv, StartWorker PROVE RInv'
<1> USE DEF Sequence, Threads
<1>1. CASE StopStep("start")
  BY <1>1, RInvStop
<1>2. CASE StartCheck \/ StartLock \/ SdkStartFails \/ SdkStarts \/ SdkStarted \/ StartEnds
  <2>1. /\ UNCHANGED <<lifeVars, listenerVars, serving, held, inflight, callVars>>
        /\ thread["start"].pc \in {"queued", "lock", "call", "called", "publish"}
        /\ current' \in {current, NoListener}
        /\ current' = current \/ thread["start"].pc = "publish"
    BY <1>2 DEF StartCheck, StartLock, SdkStartFails, SdkStarts, SdkStarted, StartEnds, At
  <2>2. /\ thread'["start"].op = thread["start"].op /\ thread["start"].op = "start"
        /\ thread'["start"].pc \in {"lock", "call", "called", "state", "complete"}
        /\ thread'["main"] = thread["main"] /\ thread'["shut"] = thread["shut"]
        /\ thread["main"].op # "dtor" /\ thread["main"].pc # "gone"
    BY <1>2, <2>1 DEF StartCheck, StartLock, SdkStartFails, SdkStarts, SdkStarted, StartEnds,
       Goto, CInv, Shape, RInv, PcOK
  <2>3. PcOK'
    BY <2>1, <2>2 DEF RInv, PcOK
  <2>4. LockOK'
    <3>1. \A u \in {"main", "shut"} : InSdk(u)' <=> InSdk(u)
      BY <2>2 DEF InSdk
    <3>2. CASE StartLock
      BY <1>2, <2>2, <3>1, <3>2 DEF StartLock, Goto, At, CInv, Shape, RInv, LockOK, InSdk
    <3>3. CASE SdkStarts \/ StartCheck \/ StartEnds
      BY <2>2, <3>1, <3>3 DEF SdkStarts, StartCheck, StartEnds, Goto, At, CInv, Shape, RInv, LockOK, InSdk
    <3>4. CASE SdkStarted \/ SdkStartFails
      <4>1. native' = "free" /\ thread'["start"].pc = "state" /\ InSdk("start")
        BY <3>4 DEF SdkStarted, SdkStartFails, At, Goto, CInv, Shape, InSdk
      <4> QED BY <3>1, <4>1 DEF RInv, LockOK, InSdk
    <3> QED BY <1>2, <3>2, <3>3, <3>4
  <2>5. RunsOK' /\ (sdkState' # sdkState => sdkState' \in {"failed", "running"})
    <3>1. CASE SdkStarts \/ SdkStartFails
      <4>1. thread["start"].pc = "call" /\ sdkState = "fresh"
        BY <3>1 DEF SdkStarts, SdkStartFails, At, RInv, RunsOK
      <4>2. sdkState' \in {"failed", "running"} /\ thread'["start"].pc \in {"called", "state"}
        BY <3>1, <4>1 DEF SdkStarts, SdkStartFails, Goto, CInv, Shape
      <4>3. Within = {}
        BY <4>1 DEF RInv, RunsOK
      <4> QED BY <2>1, <4>1, <4>2, <4>3 DEF RInv, RunsOK, NoCallYet, Within
    <3>2. CASE StartCheck \/ StartLock \/ SdkStarted \/ StartEnds
      <4>1. UNCHANGED sdkState
        BY <3>2 DEF StartCheck, StartLock, SdkStarted, StartEnds
      <4>2. thread'["start"].pc \in {"queued", "lock", "call"} =>
              thread["start"].pc \in {"queued", "lock", "call"}
        BY <2>1, <2>2, <3>2 DEF StartCheck, StartLock, SdkStarted, StartEnds, Goto, At, CInv, Shape
      <4> QED BY <2>1, <4>1, <4>2 DEF RInv, RunsOK, NoCallYet, Within
    <3> QED BY <1>2, <3>1, <3>2
  <2>6. AskedOK'
    <3>1. thread["start"].pc = "publish" => ServingAsked
      BY DEF RInv, AskedOK
    <3>2. ServingAsked => ServingAsked'
      BY <2>1 DEF ServingAsked
    <3> QED BY <2>1, <2>2, <2>5, <3>1, <3>2 DEF RInv, AskedOK
  <2>7. WorkerOK'
    BY <2>1, <2>2 DEF RInv, WorkerOK, ActiveTells
  <2> QED BY <2>3, <2>4, <2>5, <2>6, <2>7 DEF RInv
<1>3. CASE StartPublish \/ StartPublishFailure
  <2>1. /\ UNCHANGED <<at, sdkVars, serving, held, current, released>>
        /\ thread["start"].pc = "state" /\ thread["start"].op = "start"
        /\ thread["main"].op # "dtor" /\ thread["main"].pc # "gone"
        /\ lifecycle' \in {lifecycle, "Started", "Shutdown"}
        /\ lifecycle = "Destroyed" <=> lifecycle' = "Destroyed"
        /\ lifecycle' # "Idle"
    BY <1>3 DEF StartPublish, StartPublishFailure, At, RInv, PcOK, CInv, Places
  <2>2. /\ thread'["start"].op = "start" /\ thread'["start"].pc \in {"complete", "idle"}
        /\ thread'["main"] = thread["main"] /\ thread'["shut"] = thread["shut"]
    <3>1. CASE StartPublish
      BY <2>1, <3>1 DEF StartPublish, Goto, Stopping, CInv, Shape
    <3>2. CASE StartPublishFailure
      <4>1. CASE current = NoListener
        <5>1. thread' = [thread EXCEPT !["start"] = [thread["start"] EXCEPT !.pc = "complete"]]
          BY <3>2, <4>1 DEF StartPublishFailure
        <5> QED BY <2>1, <5>1 DEF CInv, Shape
      <4>2. CASE current # NoListener
        <5>1. thread' = [thread EXCEPT !["start"] = Stopping("start", current, FALSE)]
          BY <3>2, <4>2 DEF StartPublishFailure
        <5> QED BY <5>1 DEF CInv, Shape, Stopping
      <4> QED BY <4>1, <4>2
    <3> QED BY <1>3, <3>1, <3>2
  <2>3. PcOK'
    BY <2>1, <2>2 DEF RInv, PcOK
  <2>4. LockOK' /\ RunsOK'
    BY <2>1, <2>2 DEF RInv, LockOK, InSdk, RunsOK, NoCallYet, Within
  <2>5. (ServingAsked => ServingAsked') /\ (thread'["start"].pc = "idle" => ServingAsked')
    <3>1. CASE RequestShutdown(current) /\ UNCHANGED released
      BY <2>1, <3>1, AskingAsks
    <3>2. CASE UNCHANGED requested /\ thread'["start"].pc = "complete"
      BY <2>1, <3>2 DEF ServingAsked
    <3> QED BY <1>3, <3>1, <3>2 DEF StartPublish, StartPublishFailure, Goto, CInv, Shape
  <2>6. AskedOK'
    BY <2>1, <2>2, <2>5 DEF RInv, AskedOK
  <2>7. WorkerOK'
    <3>1. UNCHANGED active /\ (lifecycle' = lifecycle \/ lifecycle = "Starting")
      BY <1>3 DEF StartPublish, StartPublishFailure
    <3> QED BY <2>2, <3>1 DEF RInv, WorkerOK, ActiveTells
  <2> QED BY <2>3, <2>4, <2>5, <2>6, <2>7 DEF RInv
<1> QED BY <1>1, <1>2, <1>3 DEF StartWorker

\* The shutdown worker.
LEMMA RInvShut == ASSUME CInv, RInv, ShutdownWorker PROVE RInv'
<1> USE DEF Sequence, Threads
<1>1. CASE StopStep("shut")
  BY <1>1, RInvStop
<1>2. CASE ShutCheck \/ ShutFails \/ ShutEnds
  <2>1. /\ UNCHANGED <<at, sdkVars, serving, held, released>>
        /\ thread["shut"].pc \in {"queued", "failed", "publish"}
        /\ thread["shut"].op = "shutdown"
        /\ thread["main"].op # "dtor" /\ thread["main"].pc # "gone"
        /\ lifecycle = "Destroyed" <=> lifecycle' = "Destroyed"
        /\ lifecycle' # "Idle"
        /\ current' = current \/ thread["shut"].pc = "publish"
    BY <1>2 DEF ShutCheck, ShutFails, ShutEnds, At, RInv, PcOK, CInv, Places
  <2>2. /\ thread'["shut"].op = "shutdown" /\ thread'["shut"].pc \in {"complete", "idle"}
        /\ thread'["main"] = thread["main"] /\ thread'["start"] = thread["start"]
    <3>1. CASE ShutCheck /\ lifecycle # "Destroyed"
      <4>1. thread' = [thread EXCEPT !["shut"] = Stopping("shutdown", current, TRUE)]
        BY <3>1 DEF ShutCheck
      <4> QED BY <4>1 DEF CInv, Shape, Stopping
    <3>2. CASE ~(ShutCheck /\ lifecycle # "Destroyed")
      <4>1. ThreadMoved("shut", "complete")
        BY <1>2, <3>2, GotoMoves DEF ShutCheck, ShutFails, ShutEnds
      <4> QED BY <2>1, <4>1 DEF ThreadMoved
    <3> QED BY <3>1, <3>2
  <2>3. PcOK'
    BY <2>1, <2>2 DEF RInv, PcOK
  <2>4. LockOK' /\ RunsOK'
    BY <2>1, <2>2 DEF RInv, LockOK, InSdk, RunsOK, NoCallYet, Within
  <2>5. (ServingAsked => ServingAsked') /\ (thread'["shut"].pc = "idle" => ServingAsked')
    <3>1. CASE RequestShutdown(current)
      BY <2>1, <3>1, AskingAsks
    <3>2. CASE UNCHANGED requested /\ thread'["shut"].pc = "complete"
      BY <2>1, <3>2 DEF ServingAsked
    <3> QED BY <1>2, <3>1, <3>2 DEF ShutCheck, ShutFails, ShutEnds, Goto, CInv, Shape
  <2>6. thread["shut"].pc = "publish" => ServingAsked
    BY DEF RInv, AskedOK
  <2>7. AskedOK'
    BY <2>1, <2>2, <2>5, <2>6 DEF RInv, AskedOK
  <2>8. WorkerOK'
    <3>1. CASE ShutCheck /\ lifecycle # "Destroyed"
      <4>1. thread'["shut"].pc = "idle" /\ UNCHANGED <<active, lifecycle>>
        BY <3>1 DEF ShutCheck, Stopping, CInv, Shape
      <4> QED BY <2>1, <4>1 DEF RInv, WorkerOK, ActiveTells
    <3>2. CASE ~(ShutCheck /\ lifecycle # "Destroyed")
      <4>1. thread'["shut"].pc = "complete" /\ active' = FALSE
        BY <1>2, <3>2, GotoMoves DEF ShutCheck, ShutFails, ShutEnds, ThreadMoved
      <4> QED BY <4>1 DEF WorkerOK, ActiveTells
    <3> QED BY <3>1, <3>2
  <2> QED BY <2>3, <2>4, <2>5, <2>7, <2>8 DEF RInv
<1> QED BY <1>1, <1>2 DEF ShutdownWorker

\* A thread goes back to rest, the destructor goes on, or the main thread blocks.
LEMMA RInvRest ==
  ASSUME CInv, RInv,
         \/ Completes("start") \/ Completes("shut") \/ SubscribeReturns \/ Subscribe
         \/ ForceDestroyEnds \/ DestructorEnds \/ DestructorReturnsEarly
  PROVE  RInv'
<1> USE DEF Sequence, Threads
<1>1. UNCHANGED <<at, index, status, answer, inflight, sdkVars, envVars, listenerVars, lifeVars>>
  BY DEF Completes, SubscribeReturns, Subscribe, ForceDestroyEnds, DestructorEnds,
         DestructorReturnsEarly
<1>2. PICK t \in Threads :
        /\ \A u \in Threads \ {t} : thread'[u] = thread[u]
        /\ \/ /\ thread'[t].op = "none" /\ thread'[t].pc = "rest"
              /\ thread["main"].op # "dtor"
              /\ t = "main" => thread["main"].pc \in {"publish", "lock"}
              /\ t \in {"start", "shut"} => thread[t].pc = "complete"
           \/ /\ t = "main" /\ thread'[t].op = "subscribe" /\ thread'[t].pc = "lock"
              /\ thread[t].pc = "rest"
           \/ /\ t = "main" /\ thread'[t].op = "dtor" /\ thread'[t].pc = "members"
              /\ thread[t].pc \in {"rest", "publish"} /\ lifecycle = "Destroyed"
              /\ thread["start"].pc = "rest" /\ thread["shut"].pc = "rest" /\ ~held
        /\ current' = current \/ (t = "main" /\ lifecycle = "Destroyed")
  <2>1. CASE Completes("start") \/ Completes("shut")
    <3>1. PICK t \in {"start", "shut"} : Completes(t)
      BY <2>1
    <3>2. /\ thread[t].pc = "complete" /\ UNCHANGED current
          /\ thread'[t] = Resting /\ \A u \in Threads \ {t} : thread'[u] = thread[u]
          /\ thread["main"].op # "dtor"
      BY <3>1 DEF Completes, At, CInv, Shape, RInv, PcOK
    <3> QED BY <3>2 DEF Resting
  <2>2. CASE SubscribeReturns \/ ForceDestroyEnds
    <3>1. /\ thread'["main"] = Resting /\ \A u \in Threads \ {"main"} : thread'[u] = thread[u]
          /\ thread["main"].pc \in {"publish", "lock"} /\ thread["main"].op # "dtor"
          /\ current' = current \/ lifecycle = "Destroyed"
      BY <2>2 DEF SubscribeReturns, ForceDestroyEnds, At, CInv, Shape, Places, RInv, PcOK
    <3> QED BY <3>1 DEF Resting
  <2>3. CASE Subscribe
    <3>1. thread' = [thread EXCEPT !["main"] = [Resting EXCEPT !.op = "subscribe", !.pc = "lock"]]
          /\ thread["main"].pc = "rest" /\ UNCHANGED current
      BY <2>3 DEF Subscribe, MainFree, At
    <3> QED BY <3>1 DEF Resting, CInv, Shape
  <2>4. CASE DestructorReturnsEarly
    <3>1. /\ thread' = [thread EXCEPT !["main"] = [Resting EXCEPT !.op = "dtor", !.pc = "members"]]
          /\ thread["main"].pc = "rest" /\ UNCHANGED current /\ lifecycle = "Destroyed"
          /\ thread["start"].pc = "rest" /\ thread["shut"].pc = "rest" /\ ~held
      BY <2>4 DEF DestructorReturnsEarly, MainFree, Collectable, At
    <3> QED BY <3>1 DEF Resting, CInv, Shape
  <2>5. CASE DestructorEnds
    <3>1. /\ ThreadMoved("main", "members") /\ thread["main"].op = "dtor"
          /\ thread["main"].pc = "publish" /\ lifecycle = "Destroyed"
      BY <2>5, GotoMoves DEF DestructorEnds, At, CInv, Places
    <3> QED BY <3>1 DEF ThreadMoved, RInv, PcOK
  <2> QED BY <2>1, <2>2, <2>3, <2>4, <2>5
<1>3. PcOK'
  BY <1>1, <1>2 DEF RInv, PcOK
<1>4. LockOK'
  <2>1. ~InSdk(t) /\ ~InSdk(t)'
    BY <1>2 DEF InSdk, RInv, PcOK
  <2>2. \A u \in Threads \ {t} : InSdk(u)' <=> InSdk(u)
    BY <1>2 DEF InSdk
  <2> QED BY <1>1, <2>1, <2>2 DEF RInv, LockOK
<1>5. RunsOK'
  BY <1>1, <1>2 DEF RInv, RunsOK, NoCallYet, Within
<1>6. AskedOK'
  BY <1>1, <1>2 DEF RInv, PcOK, AskedOK, ServingAsked, ServingReleased
<1>7. WorkerOK'
  BY <1>1, <1>2 DEF RInv, WorkerOK, ActiveTells
<1> QED BY <1>3, <1>4, <1>5, <1>6, <1>7 DEF RInv

\* A call that only changes the lifecycle, queues a worker, or drops the object.
LEMMA RInvObject ==
  ASSUME CInv, RInv, Start \/ Shutdown \/ ShutdownQueueFails \/ DropReference
  PROVE  RInv'
<1> USE DEF Sequence, Threads
<1>1. /\ UNCHANGED <<at, sdkVars, listenerVars, current>> /\ thread["main"].pc = "rest"
      /\ lifecycle' = "Idle" => lifecycle = "Idle"
      /\ lifecycle' = "Destroyed" => lifecycle = "Destroyed"
      /\ held \/ ~held'
  BY DEF Start, Shutdown, ShutdownQueueFails, DropReference, MayShutdown, MainFree, At
<1>2. \/ UNCHANGED thread
      \/ /\ Start /\ sdkState = "fresh" /\ thread["start"].pc = "rest"
         /\ thread'["start"].pc = "queued" /\ thread'["start"].op = "start"
         /\ thread'["main"] = thread["main"] /\ thread'["shut"] = thread["shut"]
      \/ /\ Shutdown /\ thread'["shut"].pc = "queued" /\ thread'["shut"].op = "shutdown"
         /\ thread'["main"] = thread["main"] /\ thread'["start"] = thread["start"]
  <2>1. CASE Start
    <3>1. thread' = [thread EXCEPT !["start"] = [Resting EXCEPT !.op = "start", !.pc = "queued"]]
          /\ sdkState = "fresh" /\ thread["start"].pc = "rest"
      BY <2>1 DEF Start, CInv, Places, At
    <3> QED BY <2>1, <3>1 DEF Resting, CInv, Shape
  <2>2. CASE Shutdown
    <3>1. thread' = [thread EXCEPT !["shut"] = [Resting EXCEPT !.op = "shutdown", !.pc = "queued"]]
      BY <2>2 DEF Shutdown
    <3> QED BY <2>2, <3>1 DEF Resting, CInv, Shape
  <2> QED BY <2>1, <2>2 DEF ShutdownQueueFails, DropReference
<1>3. thread["main"].op # "dtor"
  BY <1>1 DEF RInv, PcOK
<1>4. PcOK'
  BY <1>1, <1>2, <1>3 DEF RInv, PcOK
<1>5. Shutdown \/ ShutdownQueueFails => thread["shut"].pc \in {"rest", "complete"}
  BY DEF Shutdown, ShutdownQueueFails, MayShutdown, RInv, WorkerOK, ActiveTells
<1>8. LockOK'
  BY <1>1, <1>2, <1>5 DEF RInv, LockOK, InSdk
<1>6. RunsOK'
  BY <1>1, <1>2 DEF RInv, RunsOK, NoCallYet, Within
<1>7. AskedOK'
  BY <1>1, <1>2 DEF RInv, AskedOK, ServingAsked
<1>9. WorkerOK'
  <2>1. CASE Shutdown
    <3>1. active' = TRUE /\ lifecycle' = "ShuttingDown" /\ thread'["shut"].pc = "queued"
      BY <2>1 DEF Shutdown, Resting, CInv, Shape
    <3> QED BY <3>1 DEF WorkerOK, ActiveTells
  <2>2. CASE ShutdownQueueFails
    <3>1. active' = FALSE /\ UNCHANGED thread
      BY <2>2 DEF ShutdownQueueFails
    <3> QED BY <1>5, <2>2, <3>1 DEF WorkerOK, ActiveTells
  <2>3. CASE Start \/ DropReference
    <3>1. /\ UNCHANGED active /\ (lifecycle' = lifecycle \/ lifecycle = "Idle")
          /\ thread'["shut"] = thread["shut"]
      BY <2>3, <1>2 DEF Start, DropReference, CInv, Shape
    <3> QED BY <3>1 DEF RInv, WorkerOK, ActiveTells
  <2> QED BY <2>1, <2>2, <2>3
<1> QED BY <1>4, <1>6, <1>7, <1>8, <1>9 DEF RInv

\* ForceDestroy and the destructor ask the listener; when the members go, it goes.
LEMMA RInvDestroy ==
  ASSUME CInv, RInv, ForceDestroy \/ Destructor \/ MembersDestroyed
  PROVE  RInv'
<1> USE DEF Sequence, Threads
<1>1. CASE ForceDestroy \/ Destructor
  <2>1. PICK op \in {"force", "forceStarting", "dtor"} :
          /\ BeginDestroy(op) /\ thread["main"].pc = "rest"
          /\ op = "dtor" => thread["start"].pc = "rest" /\ thread["shut"].pc = "rest" /\ ~held
    BY <1>1 DEF ForceDestroy, Destructor, Collectable, MainFree, At
  <2>2. /\ UNCHANGED <<at, sdkVars, held, current, released>> /\ lifecycle' = "Destroyed"
        /\ RequestShutdown(current)
    BY <2>1 DEF BeginDestroy
  <2>3. /\ thread'["main"].op = op /\ thread'["main"].pc = "idle"
        /\ thread'["start"] = thread["start"] /\ thread'["shut"] = thread["shut"]
    BY <2>1 DEF BeginDestroy, Stopping, CInv, Shape
  <2>4. PcOK'
    BY <2>1, <2>2, <2>3 DEF RInv, PcOK
  <2>5. LockOK' /\ RunsOK'
    BY <2>1, <2>2, <2>3 DEF RInv, LockOK, InSdk, RunsOK, NoCallYet, Within
  <2>6. ServingAsked'
    BY <2>2, AskingAsks
  <2>7. WorkerOK'
    BY <2>1, <2>2, <2>3 DEF BeginDestroy, RInv, WorkerOK, ActiveTells
  <2> QED BY <2>2, <2>3, <2>4, <2>5, <2>6, <2>7 DEF RInv, AskedOK
<1>2. CASE MembersDestroyed
  <2>1. /\ UNCHANGED <<at, index, status, answer, inflight, lifeVars, native, serving, envVars, current>>
        /\ ListenerShutdown(serving) /\ sdkState' = "stopped"
        /\ thread["main"].pc = "members" /\ ThreadMoved("main", "gone")
    BY <1>2, GotoMoves DEF MembersDestroyed, At
  <2>2. lifecycle = "Destroyed" /\ thread["start"].pc = "rest" /\ thread["main"].op = "dtor"
    BY <2>1 DEF RInv, PcOK, CInv, Places
  <2>3. Within = {}
    <3>1. CASE NoCallInside
      BY <3>1 DEF NoCallInside, Within
    <3>2. CASE sdkState \in {"fresh", "failed"}
      BY <3>2 DEF RInv, RunsOK
    <3> QED BY <1>2, <3>1, <3>2 DEF MembersDestroyed
  <2>4. ServingAsked' /\ ServingReleased'
    BY <2>1, SetAssumption DEF ListenerShutdown, ServingAsked, ServingReleased, CInv, Shape
  <2>5. PcOK'
    BY <2>1, <2>2 DEF RInv, PcOK, ThreadMoved
  <2>6. LockOK' /\ RunsOK'
    BY <2>1, <2>2, <2>3 DEF RInv, LockOK, InSdk, RunsOK, NoCallYet, Within, ThreadMoved
  <2>7. WorkerOK'
    BY <2>1 DEF RInv, WorkerOK, ActiveTells, ThreadMoved
  <2> QED BY <2>1, <2>2, <2>4, <2>5, <2>6, <2>7 DEF RInv, AskedOK
<1> QED BY <1>1, <1>2

\* A listener that can be installed was never asked to shut down.
LEMMA RInvSetListener == ASSUME CInv, RInv, NEW l \in Listeners, SetListener(l) PROVE RInv'
<1> USE DEF Sequence, Threads
<1>1. /\ UNCHANGED <<lifeVars, native, sdkState, held, inflight, thread, callVars, answer>>
      /\ lifecycle = "Idle" /\ sdkState = "fresh" /\ current = serving
      /\ thread["main"].pc = "rest" /\ thread["start"].pc = "rest" /\ thread["shut"].pc = "rest"
  BY DEF SetListener, MainFree, CInv, Places, At
<1>2. NoCallYet /\ Within = {} /\ \A k \in Listeners : requested[k] => released[k]
  BY <1>1 DEF RInv, RunsOK, AskedOK, NoCallYet, Within, Inside, Guarded
<1>3. \A k \in Listeners : requested'[k] => released'[k]
  BY <1>2 DEF SetListener, CInv, Shape
<1>4. current' = serving'
  BY <1>1 DEF SetListener
<1>5. PcOK' /\ LockOK'
  BY <1>1 DEF RInv, PcOK, LockOK, InSdk
<1>6. RunsOK'
  BY <1>1, <1>2 DEF RunsOK, NoCallYet, Within
<1>7. AskedOK'
  BY <1>1, <1>3, <1>4 DEF AskedOK
<1>8. WorkerOK'
  BY <1>1 DEF RInv, WorkerOK, ActiveTells
<1> QED BY <1>5, <1>6, <1>7, <1>8 DEF RInv

LEMMA RInvKept ==
  ASSUME RInv, UNCHANGED <<lifecycle, active, requested, released, at, sdkVars, held, current, thread>>
  PROVE  RInv'
BY DEF RInv, PcOK, LockOK, InSdk, RunsOK, NoCallYet, Within, AskedOK, ServingAsked,
       ServingReleased, WorkerOK, ActiveTells

\* The invariant is preserved, whatever the build.
LEMMA RInvNext == CInv /\ RInv /\ [Next]_vars => RInv'
<1> SUFFICES ASSUME CInv, RInv, [Next]_vars PROVE RInv'
  OBVIOUS
<1>1. ASSUME NEW c \in Calls, NEW i \in Positions,
             \/ CallJs(c, i) \/ CallJsDelivers(c, i) \/ CallJsFails(c, i)
             \/ AckDone(c, i) \/ AckCollected(c, i)
      PROVE  RInv'
  BY <1>1, RInvKept DEF CallJs, CallJsDelivers, CallJsFails, AckDone, AckCollected, SetAnswer
<1>2. CASE Application
  BY <1>1, <1>2, RInvRest, RInvObject, RInvDestroy, RInvSetListener DEF Application
<1>3. CASE MainThread
  BY <1>1, <1>3, RInvRest, RInvStop, RInvDestroy DEF MainThread, Threads
<1>4. CASE StartWorker \/ ShutdownWorker
  BY <1>4, RInvStart, RInvShut
<1>5. CASE \E c \in Calls : ConsumeMessage(c) \/ CallThread(c) \/ CallTimesOut(c)
  BY <1>5, RInvCall
<1>6. CASE Finished \/ UNCHANGED vars
  BY <1>6, RInvKept DEF Finished
<1> QED BY <1>2, <1>3, <1>4, <1>5, <1>6 DEF Next

LEMMA Reach == Spec => [](BInv /\ CInv /\ RInv)
BY BInvInit, BInvNext, CInvInit, CInvNext, RInvInit, RInvNext, PTL DEF Spec, SafetySpec

-----------------------------------------------------------------------------
(* Whoever waits, waits for somebody who can go on.                        *)

\* A consume thread that may be in the listener can be asked to leave it.
LEMMA CallsAsked ==
  ASSUME CInv, RInv, NEW t \in Threads, WaitsForCalls(t), NEW c \in Calls, at[c] = "wait"
  PROVE  requested[serving]
<1>1. serving \in Listeners
  BY DEF RInv, RunsOK, NoCallYet
<1>2. lifecycle = "Destroyed" \/ thread[t].pc \in Sequence
  BY DEF WaitsForCalls, At, Sequence, CInv, Places, RInv, PcOK, Threads
<1> QED BY <1>1, <1>2 DEF RInv, AskedOK, ServingAsked

\* Whoever waits for the consume threads has asked the listener to shut down, so that
\* none of them waits for an answer of the main thread, and native_access_mutex_ is held
\* only in calls of the SDK, which never need it: the poll loop of consumeMessage, the
\* workers, SafeShutdown and the destructor of lib/push_consumer.cpp.
THEOREM NoWaitCycle == Spec => []NoCircularWait
<1>1. ASSUME CInv, RInv PROVE NoCircularWait
  <2>1. ASSUME NEW t \in Threads, NEW c \in Calls, WaitsForCalls(t), at[c] = "wait"
        PROVE  PollsRequest
    BY <1>1, <2>1, CallsAsked DEF PollsRequest
  <2>2. ASSUME native # "free" PROVE thread[native].pc \in {"call", "called", "stop", "join"}
    <3>1. native \in Threads
      BY <1>1, <2>2 DEF CInv, Shape
    <3> QED BY <1>1, <3>1 DEF RInv, LockOK, InSdk
  <2> QED BY <2>1, <2>2 DEF NoCircularWait
<1> QED BY <1>1, Reach, PTL

\* Nothing keeps the thread t from its next step: the guards of the steps.
MayStep(t) ==
    /\ thread[t].pc \notin {"rest", "gone"}
    /\ thread[t].pc \in {"lock", "sdkLock"} => native = "free"
    /\ thread[t].pc = "idle" => ListenerIdle(thread[t].l)
    /\ thread[t].pc = "join" => ConsumeThreadsJoined
    /\ thread[t].pc = "members" /\ sdkState \notin {"fresh", "failed"} => NoCallInside
    /\ thread[t].pc = "complete" => MainFree

\* The main thread is on its way from the test of shutdown_requested_ to the listener.
ListenerDue == \E c \in Calls, i \in Positions : answer[c][i] = "passed"

CallMayStep(c) ==
    at[c] \in Inside /\ (at[c] = "wait" => PollsRequest \/ answer[c][index[c]] \in Answered)

\* As long as a thread of the addon is at work, it or somebody it waits for can go on,
\* with no help of the application, the SDK's deadline or the 5 s wait for the listener:
\* native_access_mutex_, WaitForIdle, the join of the consume threads and the completions
\* of the workers never block all of them (lib/push_consumer.cpp).
THEOREM SomebodyMoves ==
  Spec => []((\E t \in Threads : thread[t].pc \notin {"rest", "gone"})
               => \/ \E t \in Threads : MayStep(t)
                  \/ \E c \in Calls : CallMayStep(c)
                  \/ ListenerDue)
<1> DEFINE Moves == \/ \E t \in Threads : MayStep(t)
                    \/ \E c \in Calls : CallMayStep(c)
                    \/ ListenerDue
<1>1. ASSUME CInv, RInv, NEW t \in Threads, thread[t].pc \notin {"rest", "gone"} PROVE Moves
  <2> USE <1>1
  <2>1. ASSUME NEW u \in Threads, WaitsForCalls(u), ~NoCallInside PROVE Moves
    <3>1. PICK c \in Calls : at[c] \in Inside
      BY <2>1 DEF NoCallInside
    <3>2. CallMayStep(c)
      BY <2>1, <3>1, CallsAsked DEF CallMayStep, PollsRequest
    <3> QED BY <3>2
  <2>2. ASSUME NEW u \in Threads, thread[u].pc = "idle" PROVE Moves
    <3>1. CASE ListenerIdle(thread[u].l)
      BY <2>2, <3>1 DEF MayStep
    <3>2. CASE ~ListenerIdle(thread[u].l)
      <4>1. Cardinality(Within) # 0
        BY <3>2 DEF ListenerIdle, CInv, Counts
      <4>2. ~NoCallInside
        BY <4>1, FS_EmptySet DEF NoCallInside, Within
      <4> QED BY <2>1, <2>2, <4>2 DEF WaitsForCalls, At
    <3> QED BY <3>1, <3>2
  <2>3. ASSUME NEW u \in Threads, thread[u].pc \in {"call", "called", "stop", "join"} PROVE Moves
    <3>1. CASE thread[u].pc = "join" /\ ~ConsumeThreadsJoined
      BY <2>1, <3>1 DEF ConsumeThreadsJoined, WaitsForCalls, At
    <3>2. CASE thread[u].pc # "join" \/ ConsumeThreadsJoined
      BY <2>3, <3>2 DEF MayStep
    <3> QED BY <3>1, <3>2
  <2>4. ASSUME NEW u \in Threads, thread[u].pc \in {"lock", "sdkLock"} PROVE Moves
    <3>1. CASE native = "free"
      BY <2>4, <3>1 DEF MayStep
    <3>2. CASE native # "free"
      <4>1. native \in Threads /\ InSdk(native)
        BY <3>2 DEF CInv, Shape, RInv, LockOK
      <4> QED BY <2>3, <4>1 DEF InSdk
    <3> QED BY <3>1, <3>2
  <2>5. ASSUME NEW u \in Threads, thread[u].pc = "members" PROVE Moves
    <3>1. CASE MayStep(u)
      BY <3>1
    <3>2. CASE ~MayStep(u)
      BY <2>1, <2>5, <3>2 DEF MayStep, WaitsForCalls, At
    <3> QED BY <3>1, <3>2
  <2>6. ASSUME NEW u \in Threads, thread[u].pc \notin {"rest", "gone", "complete"} PROVE Moves
    <3>1. CASE thread[u].pc \in {"idle", "call", "called", "stop", "join", "lock", "sdkLock", "members"}
      BY <2>2, <2>3, <2>4, <2>5, <3>1
    <3>2. CASE thread[u].pc \notin {"idle", "call", "called", "stop", "join", "lock", "sdkLock", "members"}
      BY <2>6, <3>2 DEF MayStep
    <3> QED BY <3>1, <3>2
  <2>7. CASE thread[t].pc = "complete"
    <3>1. t # "main"
      BY <2>7 DEF RInv, PcOK, Sequence
    <3>2. CASE MainFree
      BY <2>7, <3>2 DEF MayStep
    <3>3. CASE thread["main"].pc # "rest"
      <4>1. thread["main"].pc \notin {"complete", "gone"}
        BY <2>7, <3>1 DEF RInv, PcOK, Sequence, Threads
      <4> QED BY <2>6, <3>3, <4>1 DEF Threads
    <3>4. CASE ListenerDue
      BY <3>4
    <3> QED BY <3>2, <3>3, <3>4 DEF MainFree, At, ListenerDue
  <2> QED BY <2>6, <2>7
<1> HIDE DEF Moves
<1>2. CInv /\ RInv => ((\E t \in Threads : thread[t].pc \notin {"rest", "gone"}) => Moves)
  BY <1>1
<1>3. Spec => []((\E t \in Threads : thread[t].pc \notin {"rest", "gone"}) => Moves)
  BY <1>2, Reach, PTL
<1> QED BY <1>3 DEF Moves

-----------------------------------------------------------------------------
(* Whoever goes on comes nearer to its end.                                *)

\* How many steps a consume thread has still to take, at most.
CallRank(c) ==
    6 * (BatchSize - index[c]) + (CASE at[c] = "check" -> 5
                                    [] at[c] = "acquire" -> 4
                                    [] at[c] = "offer" -> 3
                                    [] at[c] = "wait" -> 2
                                    [] at[c] = "leave" -> 1
                                    [] OTHER -> 0)

\* How many steps a thread of the addon has still to take, at most.
ThreadRank(t) ==
    LET pc == thread[t].pc IN
    CASE pc \in {"rest", "gone"} -> 0
      [] pc \in {"complete", "members"} -> 1
      [] pc \in {"publish", "failed"} -> 2
      [] pc = "finalize" -> 3
      [] pc = "join" -> 4
      [] pc = "stop" -> 5
      [] pc = "sdkLock" -> 6
      [] pc = "flag" -> 7
      [] pc = "idle" -> 8
      [] pc = "state" -> 9
      [] pc = "called" -> 10
      [] pc = "call" -> 11
      [] pc = "lock" -> 12
      [] OTHER -> 13

\* Each step of a consume thread brings it nearer to the end of consumeMessage, which it
\* does not enter again: the loop over the batch, and the poll loop as one step, in
\* consumeMessage of lib/push_consumer.cpp.
THEOREM CallsAdvance ==
  Spec => [][\A c \in Calls : at[c] # "none" /\ at'[c] # at[c]
               => CallRank(c) \in Nat /\ CallRank(c)' \in Nat /\ CallRank(c)' < CallRank(c)]_vars
<1> DEFINE Nearer(c) == CallRank(c) \in Nat /\ CallRank(c)' \in Nat /\ CallRank(c)' < CallRank(c)
<1>1. ASSUME CInv, CInv', NEW c \in Calls, at[c] # "none", at'[c] # at[c],
             NEW d \in Calls, ConsumeMessage(d) \/ CallThread(d) \/ CallTimesOut(d)
      PROVE  Nearer(c)
  <2>1. c = d
    BY <1>1 DEF CallGoto, Returns, CInv, CallTypes, ConsumeMessage, CallThread, CallChecks,
       CallAcquires, CallOffers, CallOfferFails, CallResolves, CallGivesUp, CallTimesOut, CallLeaves
  <2>2. BatchSize \in Nat /\ index[c] \in 1..BatchSize /\ index'[c] \in 1..BatchSize
    BY <1>1, SizeAssumption DEF CInv, CallTypes, Positions
  <2>3. \/ at[c] = "check" /\ at'[c] \in {"acquire", "leave"} /\ index'[c] = index[c]
        \/ at[c] = "acquire" /\ at'[c] \in {"offer", "leave"} /\ index'[c] = index[c]
        \/ at[c] = "offer" /\ at'[c] \in {"wait", "leave"} /\ index'[c] = index[c]
        \/ at[c] = "wait" /\ at'[c] = "leave" /\ index'[c] = index[c]
        \/ at[c] = "wait" /\ at'[c] = "check" /\ index'[c] = index[c] + 1
        \/ at[c] = "leave" /\ at'[c] = "done" /\ index'[c] = index[c]
    BY <1>1, <2>1 DEF CallGoto, Returns, CInv, CallTypes, ConsumeMessage, CallThread, CallChecks,
       CallAcquires, CallOffers, CallOfferFails, CallResolves, CallGivesUp, CallTimesOut, CallLeaves
  <2> QED BY <2>2, <2>3 DEF CallRank
<1>2. ASSUME NEW c \in Calls, at'[c] # at[c], [Next]_vars
      PROVE  \E d \in Calls : ConsumeMessage(d) \/ CallThread(d) \/ CallTimesOut(d)
  <2>1. ASSUME NEW e \in Calls, NEW i \in Positions,
               \/ CallJs(e, i) \/ CallJsDelivers(e, i) \/ CallJsFails(e, i)
               \/ AckDone(e, i) \/ AckCollected(e, i)
        PROVE  UNCHANGED at
    BY <2>1 DEF CallJs, CallJsDelivers, CallJsFails, AckDone, AckCollected, SetAnswer
  <2> QED BY <1>2, <2>1, ObjectKeepsCalls, WorkersKeepCalls, StopStepKeepsCalls
          DEF Next, Application, MainThread, Finished
<1> HIDE DEF Nearer
<1>3. CInv /\ CInv' /\ [Next]_vars
        => [\A c \in Calls : at[c] # "none" /\ at'[c] # at[c] => Nearer(c)]_vars
  BY <1>1, <1>2
<1>4. Spec => [][\A c \in Calls : at[c] # "none" /\ at'[c] # at[c] => Nearer(c)]_vars
  BY <1>3, Reach, PTL DEF Spec, SafetySpec
<1> QED BY <1>4 DEF Nearer

\* The steps of the stop sequence.
LEMMA StopAdvances ==
  ASSUME CInv, NEW t \in Threads, StopStep(t)
  PROVE  ThreadRank(t)' < ThreadRank(t) /\ \A u \in Threads \ {t} : thread'[u] = thread[u]
<1>1. \E pc \in Pcs :
        /\ ThreadMoved(t, pc)
        /\ \/ thread[t].pc = "idle" /\ pc \in {"flag", "finalize"}
           \/ thread[t].pc = "flag" /\ pc \in {"finalize", "stop", "sdkLock"}
           \/ thread[t].pc = "sdkLock" /\ pc = "stop"
           \/ thread[t].pc = "stop" /\ pc = "join"
           \/ thread[t].pc = "join" /\ pc \in {"finalize", "failed"}
           \/ thread[t].pc = "finalize" /\ pc = "publish"
  BY GotoMoves DEF StopStep, AwaitIdle, TakeFlag, LockSdk, SdkStops, SdkStopped, SdkStopFails,
     FinalizeListener, At, Pcs
<1> QED BY <1>1 DEF ThreadMoved, ThreadRank

\* Each step of a thread of the addon brings it nearer to the end of what it does; only
\* the application begins something, and only with a thread that is at rest or through
\* (the workers, SafeShutdown and the destructor of lib/push_consumer.cpp).
THEOREM ThreadsAdvance ==
  Spec => [][\A t \in Threads :
               thread'[t] # thread[t] /\ thread[t].pc \notin {"rest", "complete"}
                 => ThreadRank(t)' < ThreadRank(t)]_vars
<1> DEFINE Nearer == \A t \in Threads :
                       thread'[t] # thread[t] /\ thread[t].pc \notin {"rest", "complete"}
                         => ThreadRank(t)' < ThreadRank(t)
<1>1. ASSUME CInv, RInv, Next PROVE Nearer \/ UNCHANGED thread
  <2> USE <1>1
  <2>1. ASSUME NEW t \in Threads, StopStep(t) PROVE Nearer
    BY <2>1, StopAdvances
  <2>2. ASSUME NEW t \in {"start", "shut"}, NEW pc, ThreadMoved(t, pc),
               \/ thread[t].pc = "queued" /\ pc \in {"complete", "lock"}
               \/ thread[t].pc = "lock" /\ pc = "call"
               \/ thread[t].pc = "call" /\ pc \in {"called", "state"}
               \/ thread[t].pc = "state" /\ pc \in {"complete", "idle"}
               \/ thread[t].pc \in {"publish", "failed"} /\ pc = "complete"
        PROVE  Nearer
    BY <2>2 DEF ThreadMoved, ThreadRank, Threads
  <2>3. ASSUME NEW t \in {"start", "shut"}, \A u \in Threads \ {t} : thread'[u] = thread[u],
               \/ thread[t].pc \in {"rest", "complete"}
               \/ thread[t].pc \in {"queued", "state"} /\ thread'[t].pc \in {"complete", "idle"}
               \/ thread[t].pc = "called" /\ thread'[t].pc = "state"
        PROVE  Nearer
    BY <2>3 DEF ThreadRank, Threads
  <2>4. ASSUME \A u \in Threads \ {"main"} : thread'[u] = thread[u],
               \/ thread["main"].pc = "rest"
               \/ thread["main"].pc \in {"lock", "publish"} /\ thread'["main"].pc \in {"rest", "members"}
               \/ thread["main"].pc = "members" /\ thread'["main"].pc = "gone"
        PROVE  Nearer
    BY <2>4 DEF ThreadRank, Threads
  <2>5. CASE StartWorker
    <3>1. CASE StartCheck \/ StartLock \/ SdkStartFails \/ SdkStarts \/ StartEnds
      <4>1. \E pc : /\ ThreadMoved("start", pc)
                    /\ \/ thread["start"].pc = "queued" /\ pc \in {"complete", "lock"}
                       \/ thread["start"].pc = "lock" /\ pc = "call"
                       \/ thread["start"].pc = "call" /\ pc \in {"called", "state"}
                       \/ thread["start"].pc \in {"publish", "failed"} /\ pc = "complete"
        BY <3>1, GotoMoves DEF StartCheck, StartLock, SdkStartFails, SdkStarts, StartEnds, At, Threads
      <4> QED BY <2>2, <4>1
    <3>2. CASE SdkStarted
      <4>1. thread'["start"].pc = "state" /\ thread["start"].pc = "called"
            /\ \A u \in Threads \ {"start"} : thread'[u] = thread[u]
        BY <3>2 DEF SdkStarted, At, CInv, Shape, Threads
      <4> QED BY <2>3, <4>1
    <3>3. CASE StartPublish \/ StartPublishFailure
      <4>1. thread["start"].pc = "state"
        BY <3>3 DEF StartPublish, StartPublishFailure, At
      <4>2. /\ thread'["start"].pc \in {"complete", "idle"}
            /\ \A u \in Threads \ {"start"} : thread'[u] = thread[u]
        <5>1. CASE StartPublish
          BY <5>1 DEF StartPublish, Goto, Stopping, CInv, Shape, Threads
        <5>2. CASE StartPublishFailure /\ current = NoListener
          <6>1. thread' = [thread EXCEPT !["start"] = [thread["start"] EXCEPT !.pc = "complete"]]
            BY <5>2 DEF StartPublishFailure
          <6> QED BY <6>1 DEF CInv, Shape, Threads
        <5>3. CASE StartPublishFailure /\ current # NoListener
          <6>1. thread' = [thread EXCEPT !["start"] = Stopping("start", current, FALSE)]
            BY <5>3 DEF StartPublishFailure
          <6> QED BY <6>1 DEF CInv, Shape, Stopping, Threads
        <5> QED BY <3>3, <5>1, <5>2, <5>3
      <4> QED BY <2>3, <4>1, <4>2
    <3>4. CASE StopStep("start")
      BY <2>1, <3>4 DEF Threads
    <3> QED BY <2>5, <3>1, <3>2, <3>3, <3>4 DEF StartWorker
  <2>6. CASE ShutdownWorker
    <3>1. CASE ShutCheck
      <4>1. /\ thread["shut"].pc = "queued" /\ thread'["shut"].pc \in {"complete", "idle"}
            /\ \A u \in Threads \ {"shut"} : thread'[u] = thread[u]
        <5>1. CASE lifecycle = "Destroyed"
          BY <3>1, <5>1, GotoMoves DEF ShutCheck, At, ThreadMoved, Threads
        <5>2. CASE lifecycle # "Destroyed"
          <6>1. thread' = [thread EXCEPT !["shut"] = Stopping("shutdown", current, TRUE)]
            BY <3>1, <5>2 DEF ShutCheck
          <6> QED BY <3>1, <6>1 DEF ShutCheck, At, CInv, Shape, Stopping, Threads
        <5> QED BY <5>1, <5>2
      <4> QED BY <2>3, <4>1
    <3>2. CASE ShutFails \/ ShutEnds
      <4>1. ThreadMoved("shut", "complete") /\ thread["shut"].pc \in {"publish", "failed"}
        BY <3>2, GotoMoves DEF ShutFails, ShutEnds, At, Threads
      <4> QED BY <2>2, <4>1
    <3>3. CASE StopStep("shut")
      BY <2>1, <3>3 DEF Threads
    <3> QED BY <2>6, <3>1, <3>2, <3>3 DEF ShutdownWorker
  <2>7. CASE Completes("start") \/ Completes("shut")
    <3>1. PICK t \in {"start", "shut"} : Completes(t)
      BY <2>7
    <3>2. thread[t].pc = "complete" /\ \A u \in Threads \ {t} : thread'[u] = thread[u]
      BY <3>1 DEF Completes, At, CInv, Shape
    <3> QED BY <2>3, <3>2
  <2>8. CASE SubscribeReturns \/ ForceDestroyEnds \/ DestructorEnds \/ MembersDestroyed
    <3>1. /\ \A u \in Threads \ {"main"} : thread'[u] = thread[u]
          /\ \/ thread["main"].pc \in {"lock", "publish"} /\ thread'["main"].pc \in {"rest", "members"}
             \/ thread["main"].pc = "members" /\ thread'["main"].pc = "gone"
      <4>1. CASE SubscribeReturns \/ ForceDestroyEnds
        BY <4>1 DEF SubscribeReturns, ForceDestroyEnds, At, Resting, CInv, Shape, Threads, RInv, PcOK
      <4>2. CASE DestructorEnds \/ MembersDestroyed
        BY <4>2, GotoMoves DEF DestructorEnds, MembersDestroyed, At, ThreadMoved, Threads
      <4> QED BY <2>8, <4>1, <4>2
    <3> QED BY <2>4, <3>1
  <2>9. CASE Subscribe \/ ForceDestroy \/ Destructor \/ DestructorReturnsEarly
    <3>1. thread["main"].pc = "rest" /\ \A u \in Threads \ {"main"} : thread'[u] = thread[u]
      BY <2>9 DEF Subscribe, ForceDestroy, Destructor, DestructorReturnsEarly, BeginDestroy,
         Collectable, MainFree, At, CInv, Shape
    <3> QED BY <2>4, <3>1
  <2>10. CASE Start \/ Shutdown
    <3>1. \E t \in {"start", "shut"} : /\ thread[t].pc \in {"rest", "complete"}
                                       /\ \A u \in Threads \ {t} : thread'[u] = thread[u]
      <4>1. CASE Start
        <5>1. thread["start"].pc = "rest"
          BY <4>1 DEF Start, CInv, Places, At
        <5>2. \A u \in Threads \ {"start"} : thread'[u] = thread[u]
          BY <4>1 DEF Start, CInv, Shape
        <5> QED BY <5>1, <5>2
      <4>2. CASE Shutdown
        <5>1. thread["shut"].pc \in {"rest", "complete"}
          BY <4>2 DEF Shutdown, MayShutdown, RInv, WorkerOK, ActiveTells
        <5>2. \A u \in Threads \ {"shut"} : thread'[u] = thread[u]
          BY <4>2 DEF Shutdown, CInv, Shape
        <5> QED BY <5>1, <5>2
      <4> QED BY <2>10, <4>1, <4>2
    <3> QED BY <2>3, <3>1
  <2>11. ASSUME NEW c \in Calls, ConsumeMessage(c) \/ CallThread(c) \/ CallTimesOut(c)
         PROVE  UNCHANGED thread
    BY <2>11 DEF ConsumeMessage, CallThread, CallChecks, CallAcquires, CallOffers, CallOfferFails,
       CallResolves, CallGivesUp, CallTimesOut, CallLeaves
  <2>12. ASSUME NEW c \in Calls, NEW i \in Positions,
                \/ CallJs(c, i) \/ CallJsDelivers(c, i) \/ CallJsFails(c, i)
                \/ AckDone(c, i) \/ AckCollected(c, i)
         PROVE  UNCHANGED thread
    BY <2>12 DEF CallJs, CallJsDelivers, CallJsFails, AckDone, AckCollected, SetAnswer
  <2>13. CASE \/ ShutdownQueueFails \/ DropReference \/ Finished
              \/ \E l \in Listeners : SetListener(l)
    BY <2>13 DEF ShutdownQueueFails, DropReference, Finished, SetListener
  <2>14. CASE StopStep("main")
    BY <2>1, <2>14 DEF Threads
  <2> HIDE DEF Nearer
  <2> QED BY <2>5, <2>6, <2>7, <2>8, <2>9, <2>10, <2>11, <2>12, <2>13, <2>14
          DEF Next, Application, MainThread
<1>2. UNCHANGED thread => Nearer
  OBVIOUS
<1> HIDE DEF Nearer
<1>3. CInv /\ RInv /\ [Next]_vars => [Nearer]_vars
  BY <1>1, <1>2
<1>4. Spec => [][Nearer]_vars
  BY <1>3, Reach, PTL DEF Spec, SafetySpec
<1> QED BY <1>4 DEF Nearer
=============================================================================
