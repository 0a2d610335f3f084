------------------------ MODULE ProducerNative_proofs ------------------------
(***************************************************************************)
(* What is proved of the native producer for every set of sends, every     *)
(* bound on faults and every setting of the build and SDK flags.           *)
(***************************************************************************)
EXTENDS ProducerNative, TLAPS

USE DEF vars, objectVars, sendVars, workerVars, lifeVars, countVars, listVars,
        sdkVars, envVars, ctxVars, tsfnVars

-----------------------------------------------------------------------------
(* Type correctness. It rests on what the program counter of the main      *)
(* thread says about the send it works on.                                 *)

SendPcs == {"build", "check", "lock", "call"}

MainOK ==
    /\ main.op = "send" <=> main.pc \in SendPcs
    /\ main.pc \in {"result", "cancelled", "callback"} => main.op = "calljs"
    /\ main.pc = "loop" => main.op = "none"
    /\ main.op \in {"send", "calljs"} => main.send \in Sends
    /\ main.ret # "loop" => main.send \in Sends /\ main.op \in {"shutdown", "queueFail"}

TInv == TypeOK /\ MainOK

LEMMA TInvInit == Init => TInv
<1> SUFFICES ASSUME Init PROVE TInv
  OBVIOUS
<1>1. ObjectTypes
  <2>1. taken \in [Cancellers -> SUBSET Sends]
    BY DEF Init
  <2>2. faults \in 0..MaxFaults
    BY FaultAssumption DEF Init
  <2> QED BY <2>1, <2>2 DEF Init, ObjectTypes, Lifecycles
<1>2. ThreadTypes
  BY DEF Init, ThreadTypes, Idle, MainOps, MainPcs, WorkerPcs
<1>3. SendTypes
  BY DEF Init, SendTypes
<1>4. MainOK
  BY DEF Init, MainOK, Idle, SendPcs
<1> QED BY <1>1, <1>2, <1>3, <1>4 DEF TInv, TypeOK

\* Giving back a unit keeps the count a natural number.
LEMMA ReleaseType ==
  ASSUME TypeOK, NEW s, ReleasePendingSend(s)
  PROVE  pending' \in Nat /\ released' \in [Sends -> BOOLEAN]
<1> USE DEF TypeOK, ObjectTypes, SendTypes
<1>1. ASSUME Decrement PROVE pending' \in Nat
  BY <1>1 DEF Decrement
<1> QED BY <1>1 DEF ReleasePendingSend

LEMMA DecrementType == ASSUME TypeOK, Decrement PROVE pending' \in Nat
BY DEF TypeOK, ObjectTypes, Decrement

\* Telling an outcome keeps the history variables well typed.
LEMMA TellType ==
  ASSUME TypeOK, NEW s \in Sends, NEW o, Tell(s, o),
         o \in {"none", "result", "cancelled", "thrown", "undelivered"}
  PROVE  /\ told' \in [Sends -> Nat]
         /\ verdict' \in [Sends -> {"none", "result", "cancelled", "thrown", "undelivered"}]
<1>1. told \in [Sends -> Nat] /\ told' = [told EXCEPT ![s] = told[s] + 1]
  BY DEF TypeOK, SendTypes, Tell
<1>2. told[s] + 1 \in Nat
  BY <1>1
<1> QED BY <1>1, <1>2 DEF TypeOK, SendTypes, Tell

LEMMA FaultType == ASSUME TypeOK, Fault PROVE faults' \in 0..MaxFaults
BY FaultAssumption DEF TypeOK, ObjectTypes, Fault

\* Destroying callbacks keeps what it writes well typed.
LEMMA DestroyType ==
  ASSUME TypeOK, NEW S \in SUBSET Sends, DestroyCallbacks(S)
  PROVE  /\ cb' \in [Sends -> {"none", "building", "live", "deleted", "unbuilt"}]
         /\ tracked' \subseteq Sends /\ claimed' \in [Sends -> BOOLEAN]
         /\ tsfn' \in [Sends -> {"none", "open", "closing", "finalized"}]
BY DEF TypeOK, ObjectTypes, SendTypes, DestroyCallbacks, AbortTsfns, Unclaimed

\* What stopping the SDK writes stays well typed.
LEMMA SdkStopType ==
  ASSUME TypeOK, (SdkStop /\ UNCHANGED faults) \/ SdkStopFails
  PROVE  /\ sdkState' \in {"fresh", "running", "stopped"} /\ faults' \in 0..MaxFaults
         /\ sdk' \in [Sends -> {"none", "accepted", "returned", "dropped"} \cup InCallback]
<1>1. CASE SdkStop /\ UNCHANGED faults
  BY <1>1 DEF TypeOK, ObjectTypes, SendTypes, SdkStop
<1>2. CASE SdkStopFails
  BY <1>2, FaultType DEF TypeOK, ObjectTypes, SendTypes, SdkStopFails
<1> QED BY <1>1, <1>2

LEMMA TInvTimer == ASSUME TInv, TimerStep PROVE TInv'
<1> USE DEF TInv, TypeOK, ObjectTypes, ThreadTypes, SendTypes, MainOK, SendPcs, Cancellers
<1>1. CASE TimerDone BY <1>1 DEF TimerDone
<1>2. CASE TimerTimeout BY <1>2 DEF TimerTimeout
<1>3. CASE TimerBump BY <1>3 DEF TimerBump, CancelBump
<1>4. CASE TimerTake BY <1>4 DEF TimerTake, CancelTake
<1>5. CASE TimerAbort BY <1>5 DEF TimerAbort, CancelAbort, AbortTsfns, Unclaimed
<1> QED BY <1>1, <1>2, <1>3, <1>4, <1>5 DEF TimerStep

LEMMA TInvSdk == ASSUME TInv, NEW s \in Sends, SdkEnters(s) \/ SdkThread(s) PROVE TInv'
<1> USE DEF TInv, TypeOK, ObjectTypes, ThreadTypes, SendTypes, MainOK, SendPcs, Cancellers,
           SdkGoto, InCallback
<1>1. CASE SdkEnters(s) BY <1>1 DEF SdkEnters
<1>2. CASE SdkClaims(s) BY <1>2 DEF SdkClaims
<1>3. CASE SdkDelivers(s) BY <1>3 DEF SdkDelivers
<1>4. CASE SdkDeliveryFails(s) BY <1>4, ReleaseType, FaultType DEF SdkDeliveryFails
<1>5. CASE SdkReleases(s) BY <1>5 DEF SdkReleases
<1>6. CASE SdkPurges(s) BY <1>6 DEF SdkPurges, Purged, Unclaimed
<1> QED BY <1>1, <1>2, <1>3, <1>4, <1>5, <1>6 DEF SdkThread

LEMMA TInvSend == ASSUME TInv, SendStep PROVE TInv'
<1> USE DEF TInv, TypeOK, ObjectTypes, ThreadTypes, SendTypes, MainOK, SendPcs, Cancellers,
           MainOps, MainPcs
<1>1. CASE SendBuildFails
  BY <1>1, DecrementType, TellType, FaultType DEF SendBuildFails, Idle, MainAt
<1>2. CASE SendConstruct BY <1>2 DEF SendConstruct, MainAt, MainGoto, Purged, Unclaimed
<1>3. CASE SendCheckGeneration
  BY <1>3, TellType, DestroyType DEF SendCheckGeneration, MainAt, MainGoto, SendUnwind, Idle
<1>4. CASE SendLock BY <1>4 DEF SendLock, MainAt, MainGoto
<1>5. CASE SendAccepted BY <1>5 DEF SendAccepted, MainAt, SdkGoto, Idle
<1>6. CASE SendThrows
  BY <1>6, TellType, FaultType, DestroyType DEF SendThrows, MainAt, SendUnwind, Idle
<1> QED BY <1>1, <1>2, <1>3, <1>4, <1>5, <1>6 DEF SendStep

LEMMA TInvTsfn ==
  ASSUME TInv, CallJsTells \/ CallJsReturns \/ \E s \in Sends : CallJs(s) \/ Finalize(s)
  PROVE TInv'
<1> USE DEF TInv, TypeOK, ObjectTypes, ThreadTypes, SendTypes, MainOK, SendPcs, Cancellers,
           MainOps, MainPcs
<1>1. CASE \E s \in Sends : CallJs(s) BY <1>1 DEF CallJs
<1>2. CASE CallJsTells BY <1>2, TellType DEF CallJsTells, MainGoto
<1>3. CASE CallJsReturns BY <1>3, ReleaseType DEF CallJsReturns, MainAt, Idle
<1>4. CASE \E s \in Sends : Finalize(s)
  BY <1>4, TellType, ReleaseType DEF Finalize
<1> QED BY <1>1, <1>2, <1>3, <1>4

LEMMA TInvShutdownStep == ASSUME TInv, ShutdownStep PROVE TInv'
<1> USE DEF TInv, TypeOK
<1>1. CASE ShutdownEnqueue
  <2>1. ObjectTypes'
    BY <1>1 DEF ObjectTypes, ShutdownEnqueue, MainAt, Returned
  <2>2. ThreadTypes'
    BY <1>1 DEF ThreadTypes, ShutdownEnqueue, MainAt, Returned, MainOps, MainPcs, MainOK, WorkerPcs
  <2>3. SendTypes'
    BY <1>1 DEF SendTypes, ShutdownEnqueue, MainAt, Returned
  <2>4. MainOK'
    BY <1>1 DEF MainOK, ShutdownEnqueue, MainAt, Returned, SendPcs, ThreadTypes, MainOps, MainPcs
  <2> QED BY <2>1, <2>2, <2>3, <2>4
<1>2. CASE ShutdownQueueFails
  <2>1. ObjectTypes'
    BY <1>2, FaultType DEF ObjectTypes, ShutdownQueueFails, MainAt
  <2>2. ThreadTypes'
    BY <1>2 DEF ThreadTypes, ShutdownQueueFails, MainAt, MainOps, MainPcs
  <2>3. SendTypes'
    BY <1>2 DEF SendTypes, ShutdownQueueFails, MainAt
  <2>4. MainOK'
    BY <1>2 DEF MainOK, ShutdownQueueFails, MainAt, SendPcs, ThreadTypes, MainOps, MainPcs
  <2> QED BY <2>1, <2>2, <2>3, <2>4
<1> QED BY <1>1, <1>2 DEF ShutdownStep

LEMMA TInvApplication == ASSUME TInv, Application PROVE TInv'
<1> USE DEF TInv, TypeOK
<1>1. CASE \E s \in Sends : SendAdmit(s)
  <2>1. ObjectTypes'
    BY <1>1 DEF ObjectTypes, SendAdmit
  <2>2. ThreadTypes'
    BY <1>1 DEF ThreadTypes, SendAdmit, MainOps, MainPcs
  <2>3. SendTypes'
    BY <1>1 DEF SendTypes, SendAdmit, ObjectTypes
  <2>4. MainOK'
    BY <1>1 DEF MainOK, SendAdmit, SendPcs, ThreadTypes, MainOps, MainPcs
  <2> QED BY <2>1, <2>2, <2>3, <2>4
<1>2. CASE Start
  <2>1. ObjectTypes'
    BY <1>2 DEF ObjectTypes, Start, Lifecycles
  <2>2. ThreadTypes'
    BY <1>2 DEF ThreadTypes, Start, WorkerPcs
  <2>3. SendTypes'
    BY <1>2 DEF SendTypes, Start
  <2>4. MainOK'
    BY <1>2 DEF MainOK, Start
  <2> QED BY <2>1, <2>2, <2>3, <2>4
<1>3. CASE Shutdown
  <2>1. ObjectTypes'
    BY <1>3 DEF ObjectTypes, Shutdown, Lifecycles
  <2>2. ThreadTypes'
    BY <1>3 DEF ThreadTypes, Shutdown, ShutdownPoints, MainOps, MainPcs
  <2>3. SendTypes'
    BY <1>3 DEF SendTypes, Shutdown
  <2>4. MainOK'
    BY <1>3 DEF MainOK, Shutdown, ShutdownPoints, SendPcs, ThreadTypes, MainOps, MainPcs
  <2> QED BY <2>1, <2>2, <2>3, <2>4
<1>4. CASE ShutdownRetry
  <2>1. ObjectTypes'
    BY <1>4 DEF ObjectTypes, ShutdownRetry
  <2>2. ThreadTypes'
    BY <1>4 DEF ThreadTypes, ShutdownRetry, ShutdownPoints, MainOps, MainPcs
  <2>3. SendTypes'
    BY <1>4 DEF SendTypes, ShutdownRetry
  <2>4. MainOK'
    BY <1>4 DEF MainOK, ShutdownRetry, ShutdownPoints, SendPcs, ThreadTypes, MainOps, MainPcs
  <2> QED BY <2>1, <2>2, <2>3, <2>4
<1>5. CASE ForceDestroy
  <2>1. ObjectTypes'
    BY <1>5 DEF ObjectTypes, ForceDestroy, Lifecycles
  <2>2. ThreadTypes'
    BY <1>5 DEF ThreadTypes, ForceDestroy, MainOps, MainPcs
  <2>3. SendTypes'
    BY <1>5 DEF SendTypes, ForceDestroy
  <2>4. MainOK'
    BY <1>5 DEF MainOK, ForceDestroy, SendPcs, ThreadTypes, MainOps, MainPcs
  <2> QED BY <2>1, <2>2, <2>3, <2>4
<1>6. CASE DropReference
  <2>1. ObjectTypes'
    BY <1>6 DEF ObjectTypes, DropReference
  <2>2. ThreadTypes'
    BY <1>6 DEF ThreadTypes, DropReference
  <2>3. SendTypes'
    BY <1>6 DEF SendTypes, DropReference
  <2>4. MainOK'
    BY <1>6 DEF MainOK, DropReference
  <2> QED BY <2>1, <2>2, <2>3, <2>4
<1>7. CASE Destroy
  <2>1. ObjectTypes'
    BY <1>7 DEF ObjectTypes, Destroy, Lifecycles
  <2>2. ThreadTypes'
    BY <1>7 DEF ThreadTypes, Destroy, MainOps, MainPcs
  <2>3. SendTypes'
    BY <1>7 DEF SendTypes, Destroy
  <2>4. MainOK'
    BY <1>7 DEF MainOK, Destroy, SendPcs, ThreadTypes, MainOps, MainPcs
  <2> QED BY <2>1, <2>2, <2>3, <2>4
<1> QED BY <1>1, <1>2, <1>3, <1>4, <1>5, <1>6, <1>7 DEF Application

LEMMA TInvMainCommon == ASSUME TInv, MainCommon PROVE TInv'
<1> USE DEF TInv, TypeOK, ObjectTypes, ThreadTypes, SendTypes, MainOK, SendPcs, Cancellers,
           MainOps, MainPcs
<1>1. CASE MainBump BY <1>1 DEF MainBump, CancelBump, MainGoto
<1>2. CASE MainTake BY <1>2 DEF MainTake, CancelTake, MainGoto
<1>3. CASE MainAbort BY <1>3 DEF MainAbort, CancelAbort, MainGoto, AbortTsfns, Unclaimed
<1>4. CASE MainJoin BY <1>4 DEF MainJoin, AfterJoin, Returned, MainGoto, Idle, TimerInSlot
<1>5. CASE MainJoined BY <1>5 DEF MainJoined, AfterJoin, Returned, MainGoto, Idle
<1>6. CASE MainFlag BY <1>6 DEF MainFlag, AfterStop, MainGoto
<1>7. CASE MainStopLock BY <1>7 DEF MainStopLock, MainGoto
<1>8. CASE MainStop BY <1>8, SdkStopType DEF MainStop, AfterStop, MainGoto
<1>9. CASE MainDelete BY <1>9, DestroyType DEF MainDelete, MainGoto, Idle, Orphans
<1>10. CASE MainMembers BY <1>10, SdkStopType DEF MainMembers, MainGoto
<1> QED BY <1>1, <1>2, <1>3, <1>4, <1>5, <1>6, <1>7, <1>8, <1>9, <1>10 DEF MainCommon

LEMMA TInvWorkerResults == ASSUME TInv, StartCall \/ ShutStop \/ ShutPublish PROVE TInv'
<1> USE DEF TInv, TypeOK
<1>1. CASE StartCall
  <2>1. ObjectTypes'
    BY <1>1, FaultType DEF ObjectTypes, StartCall, StartGoto
  <2>2. ThreadTypes'
    <3>1. \/ start' = [pc |-> "publish", ok |-> TRUE]
          \/ start' = [start EXCEPT !.pc = "publish"]
      BY <1>1 DEF StartCall, StartGoto
    <3>2. start' \in [pc : WorkerPcs, ok : BOOLEAN]
      <4>1. CASE start' = [pc |-> "publish", ok |-> TRUE]
        BY <4>1 DEF WorkerPcs
      <4>2. CASE start' = [start EXCEPT !.pc = "publish"]
        BY <4>2 DEF ThreadTypes, WorkerPcs
      <4> QED BY <3>1, <4>1, <4>2
    <3> QED BY <1>1, <3>2 DEF ThreadTypes, StartCall
  <2>3. SendTypes'
    BY <1>1 DEF SendTypes, StartCall, StartGoto
  <2>4. MainOK'
    BY <1>1 DEF MainOK, StartCall, StartGoto
  <2> QED BY <2>1, <2>2, <2>3, <2>4
<1>2. CASE ShutStop
  <2>1. ObjectTypes'
    BY <1>2, SdkStopType DEF ObjectTypes, ShutStop, ShutGoto
  <2>2. ThreadTypes'
    <3>1. \/ shut' = [pc |-> "delete", ok |-> TRUE]
          \/ shut' = [shut EXCEPT !.pc = "delete"]
      BY <1>2 DEF ShutStop, ShutGoto
    <3>2. shut' \in [pc : WorkerPcs, ok : BOOLEAN]
      <4>1. CASE shut' = [pc |-> "delete", ok |-> TRUE]
        BY <4>1 DEF WorkerPcs
      <4>2. CASE shut' = [shut EXCEPT !.pc = "delete"]
        BY <4>2 DEF ThreadTypes, WorkerPcs
      <4> QED BY <3>1, <4>1, <4>2
    <3> QED BY <1>2, <3>2 DEF ThreadTypes, ShutStop
  <2>3. SendTypes'
    BY <1>2, SdkStopType DEF SendTypes, ShutStop, ShutGoto
  <2>4. MainOK'
    BY <1>2 DEF MainOK, ShutStop, ShutGoto
  <2> QED BY <2>1, <2>2, <2>3, <2>4
<1>3. CASE ShutPublish
  <2>1. ObjectTypes'
    BY <1>3 DEF ObjectTypes, ShutPublish, ShutGoto, Lifecycles
  <2>2. ThreadTypes'
    BY <1>3 DEF ThreadTypes, ShutPublish, ShutGoto, WorkerPcs
  <2>3. SendTypes'
    BY <1>3 DEF SendTypes, ShutPublish, ShutGoto
  <2>4. MainOK'
    BY <1>3 DEF MainOK, ShutPublish, ShutGoto
  <2> QED BY <2>1, <2>2, <2>3, <2>4
<1> QED BY <1>1, <1>2, <1>3

LEMMA TInvStart == ASSUME TInv, StartWorker \/ StartCompletes PROVE TInv'
<1> USE DEF TInv, TypeOK, ObjectTypes, ThreadTypes, SendTypes, MainOK, SendPcs, Cancellers, WorkerPcs
<1>1. CASE StartCheck BY <1>1 DEF StartCheck, StartGoto
<1>2. CASE StartLock BY <1>2 DEF StartLock, StartGoto
<1>3. CASE StartPublish BY <1>3 DEF StartPublish, StartGoto, Lifecycles
<1>4. CASE StartFlag BY <1>4 DEF StartFlag, StartGoto
<1>5. CASE StartStopLock BY <1>5 DEF StartStopLock, StartGoto
<1>6. CASE StartStop BY <1>6, SdkStopType DEF StartStop, StartGoto
<1>7. CASE StartCompletes BY <1>7 DEF StartCompletes, StartGoto
<1> QED BY TInvWorkerResults, <1>1, <1>2, <1>3, <1>4, <1>5, <1>6, <1>7 DEF StartWorker

LEMMA TInvShut == ASSUME TInv, ShutdownWorker \/ ShutCompletes PROVE TInv'
<1> USE DEF TInv, TypeOK, ObjectTypes, ThreadTypes, SendTypes, MainOK, SendPcs, Cancellers, WorkerPcs
<1>1. CASE ShutCheck BY <1>1 DEF ShutCheck, ShutGoto
<1>2. CASE ShutJoin BY <1>2 DEF ShutJoin, ShutGoto
<1>3. CASE ShutJoined BY <1>3 DEF ShutJoined, ShutGoto
<1>4. CASE ShutFlag BY <1>4 DEF ShutFlag, ShutGoto
<1>5. CASE ShutStopLock BY <1>5 DEF ShutStopLock, ShutGoto
<1>6. CASE ShutDelete BY <1>6, DestroyType DEF ShutDelete, ShutGoto, Orphans
<1>7. CASE ShutCompletes BY <1>7 DEF ShutCompletes, ShutGoto
<1> QED BY TInvWorkerResults, <1>1, <1>2, <1>3, <1>4, <1>5, <1>6, <1>7 DEF ShutdownWorker

LEMMA TInvNext == TInv /\ [Next]_vars => TInv'
<1>1. ASSUME TInv, UNCHANGED vars PROVE TInv'
  BY <1>1 DEF TInv, TypeOK, ObjectTypes, ThreadTypes, SendTypes, MainOK, SendPcs
<1>2. ASSUME TInv, [Next]_vars PROVE TInv'
  <2>1. CASE Application
    BY <1>2, <2>1, TInvApplication
  <2>2. CASE MainThread
    BY <1>2, <2>2, TInvSend, TInvTsfn, TInvShutdownStep, TInvMainCommon, TInvStart, TInvShut
       DEF MainThread
  <2>3. CASE TimerStep \/ StartWorker \/ ShutdownWorker
    BY <1>2, <2>3, TInvTimer, TInvStart, TInvShut
  <2>4. CASE \E s \in Sends : SdkEnters(s) \/ SdkThread(s)
    BY <1>2, <2>4, TInvSdk
  <2>5. CASE Finished
    BY <1>2, <2>5, <1>1 DEF Finished
  <2> QED BY <1>1, <1>2, <2>1, <2>2, <2>3, <2>4, <2>5 DEF Next
<1> QED BY <1>2

\* Every variable keeps its type, whatever the threads do.
THEOREM TypeCorrect == SafetySpec => []TypeOK
<1>1. TInv => TypeOK
  BY DEF TInv
<1> QED BY TInvInit, TInvNext, <1>1, PTL DEF SafetySpec

-----------------------------------------------------------------------------
(* One send, from Send() to Finalize: who may touch its TSFN, and whether  *)
(* JavaScript was told of it yet.                                          *)

\* Send() of s has not constructed the callback, also while a getter of its
\* options calls shutdown().
Building(s) == main.send = s /\ (main.pc = "build" \/ main.ret = "build")

\* Send() of s holds the callback and has not handed it to the SDK.
Holding(s) == main.send = s /\ main.pc \in {"check", "lock", "call"}

\* CallJs of s has decided what it tells, and has not told it.
Telling(s) == main.send = s /\ main.pc \in {"result", "cancelled"}

CallbackInv(s) ==
    /\ Building(s) => cb[s] = "building"
    /\ s \in tracked => cb[s] = "live"
    /\ sdk[s] # "none" => cb[s] \in {"live", "deleted"}
    /\ Holding(s) => cb[s] \in {"live", "deleted"} /\ sdk[s] = "none"

TsfnInv(s) ==
    /\ cb[s] \in {"live", "deleted"} /\ ~claimed[s] => tsfn[s] = "open"
    /\ sdk[s] \in {"deliver", "release"} => claimed[s] /\ tsfn[s] = "open"
    /\ item[s] => tsfn[s] \in {"open", "closing"}

ToldInv(s) ==
    /\ told[s] <= 1
    /\ cb[s] \in {"none", "building"} => told[s] = 0
    /\ Holding(s) => told[s] = 0
    /\ sdk[s] \in {"accepted", "entered", "deliver"} => told[s] = 0
    /\ item[s] \/ Telling(s) => told[s] = 0 /\ ~failed[s]
    /\ Telling(s) => ~item[s]
    /\ failed[s] /\ ref[s] => told[s] = 0
    /\ item[s] \/ failed[s] \/ Telling(s) => sdk[s] \in {"release", "purge", "returned"}

SendInv(s) == CallbackInv(s) /\ TsfnInv(s) /\ ToldInv(s)

SInv == \A s \in Sends : SendInv(s)

LEMMA SInvInit == Init => SInv
BY DEF Init, SInv, SendInv, CallbackInv, TsfnInv, ToldInv, Building, Holding, Telling, Idle

\* The steps that concern no send in particular: they may abort TSFNs, destroy
\* the tracked callbacks or stop the SDK, and they enter no Send().
LEMMA CalmStep ==
  ASSUME TInv, NEW s \in Sends, SendInv(s),
         Building(s)' => Building(s), Holding(s)' => Holding(s),
         Telling(s)' => Telling(s),
         UNCHANGED <<item, failed, ref, told>>,
         \/ UNCHANGED <<cb, sdk, claimed, tsfn, tracked>>
         \/ UNCHANGED <<cb, sdk, tracked>> /\ \E S \in SUBSET Sends : AbortTsfns(S)
         \/ UNCHANGED sdk /\ DestroyCallbacks(tracked)
         \/ UNCHANGED <<cb, claimed, tsfn, tracked>> /\ SdkStop
  PROVE  SendInv(s)'
<1> USE DEF TInv, TypeOK, ObjectTypes, SendTypes, SendInv
<1>1. CASE UNCHANGED <<cb, sdk, claimed, tsfn, tracked>>
  BY <1>1 DEF CallbackInv, TsfnInv, ToldInv
<1>2. CASE UNCHANGED <<cb, sdk, tracked>> /\ \E S \in SUBSET Sends : AbortTsfns(S)
  BY <1>2 DEF CallbackInv, TsfnInv, ToldInv, AbortTsfns, Unclaimed
<1>3. CASE UNCHANGED sdk /\ DestroyCallbacks(tracked)
  BY <1>3 DEF CallbackInv, TsfnInv, ToldInv, DestroyCallbacks, AbortTsfns, Unclaimed
<1>4. CASE UNCHANGED <<cb, claimed, tsfn, tracked>> /\ SdkStop
  BY <1>4 DEF CallbackInv, TsfnInv, ToldInv, SdkStop, InCallback
<1> QED BY <1>1, <1>2, <1>3, <1>4

LEMMA SInvSdk ==
  ASSUME TInv, NEW s \in Sends, SdkEnters(s) \/ SdkThread(s), NEW z \in Sends, SendInv(z)
  PROVE  SendInv(z)'
<1> USE DEF TInv, TypeOK, ObjectTypes, ThreadTypes, SendTypes, MainOK, SendPcs,
           SendInv, CallbackInv, TsfnInv, ToldInv, Building, Holding, Telling
<1>1. CASE SdkEnters(s) BY <1>1 DEF SdkEnters, SdkGoto
<1>2. CASE SdkClaims(s) BY <1>2 DEF SdkClaims, SdkGoto
<1>3. CASE SdkDelivers(s) BY <1>3 DEF SdkDelivers, SdkGoto
<1>4. CASE SdkDeliveryFails(s) BY <1>4 DEF SdkDeliveryFails, SdkGoto
<1>5. CASE SdkReleases(s) BY <1>5 DEF SdkReleases, SdkGoto
<1>6. CASE SdkPurges(s) BY <1>6 DEF SdkPurges, SdkGoto
<1> QED BY <1>1, <1>2, <1>3, <1>4, <1>5, <1>6 DEF SdkThread

\* Send() throws after the constructor.
LEMMA SInvUnwind ==
  ASSUME TInv, Holding(main.send), SendUnwind(main.send), main.op = "send",
         NEW z \in Sends, SendInv(z)
  PROVE  SendInv(z)'
<1> USE DEF TInv, TypeOK, ThreadTypes, SendTypes, ObjectTypes, SendUnwind, DestroyCallbacks,
            AbortTsfns, Unclaimed, SendInv, Idle
<1>0. main.send \in Sends /\ ~Building(z)' /\ ~Holding(z)' /\ ~Telling(z)'
  BY DEF MainOK, Building, Holding, Telling
<1>1. CallbackInv(z)'
  BY <1>0 DEF CallbackInv
<1>2. TsfnInv(z)'
  BY <1>0 DEF TsfnInv, CallbackInv
<1>3. ToldInv(z)'
  <2>1. CASE z = main.send
    BY <1>0, <2>1 DEF ToldInv, CallbackInv, Tell
  <2>2. CASE z # main.send
    <3>1. told'[z] = told[z] /\ cb'[z] = cb[z]
      BY <1>0, <2>2 DEF Tell
    <3> QED BY <1>0, <3>1 DEF ToldInv
  <2> QED BY <2>1, <2>2
<1> QED BY <1>1, <1>2, <1>3

LEMMA SInvSend ==
  ASSUME TInv, SendStep, NEW z \in Sends, SendInv(z)
  PROVE  SendInv(z)'
<1> USE DEF TInv, TypeOK, ObjectTypes, ThreadTypes, SendTypes, MainOK, SendPcs,
           SendInv, CallbackInv, TsfnInv, ToldInv, Building, Holding, Telling
<1>1. CASE SendBuildFails BY <1>1 DEF SendBuildFails, MainAt, Tell, Idle
<1>2. CASE SendConstruct BY <1>2 DEF SendConstruct, MainAt, MainGoto
<1>3. CASE SendCheckGeneration BY <1>3, SInvUnwind DEF SendCheckGeneration, MainAt, MainGoto
<1>4. CASE SendLock BY <1>4 DEF SendLock, MainAt, MainGoto
<1>5. CASE SendAccepted BY <1>5 DEF SendAccepted, MainAt, SdkGoto, Idle
<1>6. CASE SendThrows BY <1>6, SInvUnwind DEF SendThrows, MainAt
<1> QED BY <1>1, <1>2, <1>3, <1>4, <1>5, <1>6 DEF SendStep

LEMMA SInvTsfn ==
  ASSUME TInv, CallJsTells \/ CallJsReturns \/ \E s \in Sends : CallJs(s) \/ Finalize(s), NEW z \in Sends, SendInv(z)
  PROVE  SendInv(z)'
<1> USE DEF TInv, TypeOK, ObjectTypes, ThreadTypes, SendTypes, MainOK, SendPcs,
           SendInv, CallbackInv, TsfnInv, ToldInv, Building, Holding, Telling
<1>1. CASE \E s \in Sends : CallJs(s) BY <1>1 DEF CallJs
<1>2. CASE CallJsTells BY <1>2 DEF CallJsTells, MainGoto, Tell
<1>3. CASE CallJsReturns BY <1>3 DEF CallJsReturns, MainAt, Idle
<1>4. CASE \E s \in Sends : Finalize(s) BY <1>4 DEF Finalize, Tell, ReportsDeliveryError
<1> QED BY <1>1, <1>2, <1>3, <1>4

LEMMA SInvAdmit ==
  ASSUME TInv, \E s \in Sends : SendAdmit(s), NEW z \in Sends, SendInv(z)
  PROVE  SendInv(z)'
<1> USE DEF TInv, TypeOK, ObjectTypes, ThreadTypes, SendTypes, MainOK, SendPcs,
           SendInv, CallbackInv, TsfnInv, ToldInv, Building, Holding, Telling
<1>1. CASE \E s \in Sends : SendAdmit(s) BY <1>1 DEF SendAdmit
<1> QED BY <1>1

LEMMA SInvTimer ==
  ASSUME TInv, TimerStep, NEW z \in Sends, SendInv(z)
  PROVE  SendInv(z)'
<1> USE CalmStep DEF Building, Holding, Telling
<1>1. CASE TimerDone BY <1>1 DEF TimerDone
<1>2. CASE TimerTimeout BY <1>2 DEF TimerTimeout
<1>3. CASE TimerBump BY <1>3 DEF TimerBump
<1>4. CASE TimerTake BY <1>4 DEF TimerTake
<1>5. CASE TimerAbort
  BY <1>5 DEF TimerAbort, CancelAbort, TInv, TypeOK, ObjectTypes, Cancellers
<1> QED BY <1>1, <1>2, <1>3, <1>4, <1>5 DEF TimerStep

LEMMA SInvApplication ==
  ASSUME TInv, Start \/ Shutdown \/ ShutdownRetry \/ ForceDestroy \/ DropReference \/ Destroy, NEW z \in Sends, SendInv(z)
  PROVE  SendInv(z)'
<1> USE CalmStep DEF Building, Holding, Telling
<1>1. CASE Start BY <1>1 DEF Start
<1>2. CASE Shutdown BY <1>2 DEF Shutdown, TInv, TypeOK, ThreadTypes, MainOK, SendPcs
<1>3. CASE ShutdownRetry BY <1>3 DEF ShutdownRetry, TInv, TypeOK, ThreadTypes, MainOK, SendPcs
<1>4. CASE ForceDestroy BY <1>4 DEF ForceDestroy, TInv, TypeOK, ThreadTypes, MainOK, SendPcs
<1>5. CASE DropReference BY <1>5 DEF DropReference
<1>6. CASE Destroy BY <1>6 DEF Destroy, TInv, TypeOK, ThreadTypes, MainOK, SendPcs
<1> QED BY <1>1, <1>2, <1>3, <1>4, <1>5, <1>6

LEMMA SInvShutdownStep ==
  ASSUME TInv, ShutdownStep, NEW z \in Sends, SendInv(z)
  PROVE  SendInv(z)'
<1> USE CalmStep DEF Building, Holding, Telling
<1>1. CASE ShutdownEnqueue
  BY <1>1 DEF ShutdownEnqueue, MainAt, Returned, TInv, TypeOK, ThreadTypes, MainOK, SendPcs
<1>2. CASE ShutdownQueueFails
  BY <1>2 DEF ShutdownQueueFails, MainAt, TInv, TypeOK, ThreadTypes, MainOK, SendPcs
<1> QED BY <1>1, <1>2 DEF ShutdownStep

LEMMA SInvMainCommon ==
  ASSUME TInv, MainCommon, NEW z \in Sends, SendInv(z)
  PROVE  SendInv(z)'
<1> USE CalmStep DEF Building, Holding, Telling
<1>1. CASE MainBump BY <1>1 DEF MainBump, MainGoto, TInv, TypeOK, ThreadTypes, MainOK, SendPcs
<1>2. CASE MainTake BY <1>2 DEF MainTake, MainGoto, TInv, TypeOK, ThreadTypes, MainOK, SendPcs
<1>3. CASE MainAbort
  BY <1>3 DEF MainAbort, MainGoto, CancelAbort, ObjectTypes, Cancellers, TInv, TypeOK, ThreadTypes, MainOK, SendPcs
<1>4. CASE MainJoin
  BY <1>4 DEF MainJoin, AfterJoin, Returned, Idle, MainGoto, TInv, TypeOK, ThreadTypes, MainOK, SendPcs
<1>5. CASE MainJoined
  BY <1>5 DEF MainJoined, AfterJoin, Returned, Idle, MainGoto, TInv, TypeOK, ThreadTypes, MainOK, SendPcs
<1>6. CASE MainFlag
  BY <1>6 DEF MainFlag, AfterStop, MainGoto, TInv, TypeOK, ThreadTypes, MainOK, SendPcs
<1>7. CASE MainStopLock
  BY <1>7 DEF MainStopLock, MainGoto, TInv, TypeOK, ThreadTypes, MainOK, SendPcs
<1>8. CASE MainStop
  BY <1>8 DEF MainStop, AfterStop, MainGoto, SdkStopFails, TInv, TypeOK, ThreadTypes, MainOK, SendPcs
<1>9. CASE MainDelete
  BY <1>9 DEF MainDelete, Orphans, Idle, MainGoto, TInv, TypeOK, ThreadTypes, MainOK, SendPcs
<1>10. CASE MainMembers
  BY <1>10 DEF MainMembers, SdkStopFails, MainGoto, TInv, TypeOK, ThreadTypes, MainOK, SendPcs
<1> QED BY <1>1, <1>2, <1>3, <1>4, <1>5, <1>6, <1>7, <1>8, <1>9, <1>10 DEF MainCommon

LEMMA SInvStart ==
  ASSUME TInv, StartWorker \/ StartCompletes, NEW z \in Sends, SendInv(z)
  PROVE  SendInv(z)'
<1> USE CalmStep DEF Building, Holding, Telling
<1>1. CASE StartCheck BY <1>1 DEF StartCheck
<1>2. CASE StartLock BY <1>2 DEF StartLock
<1>3. CASE StartCall BY <1>3 DEF StartCall
<1>4. CASE StartPublish BY <1>4 DEF StartPublish
<1>5. CASE StartFlag BY <1>5 DEF StartFlag
<1>6. CASE StartStopLock BY <1>6 DEF StartStopLock
<1>7. CASE StartStop BY <1>7 DEF StartStop, SdkStopFails
<1>8. CASE StartCompletes BY <1>8 DEF StartCompletes
<1> QED BY <1>1, <1>2, <1>3, <1>4, <1>5, <1>6, <1>7, <1>8 DEF StartWorker

LEMMA SInvShut ==
  ASSUME TInv, ShutdownWorker \/ ShutCompletes, NEW z \in Sends, SendInv(z)
  PROVE  SendInv(z)'
<1> USE CalmStep DEF Building, Holding, Telling
<1>1. CASE ShutCheck BY <1>1 DEF ShutCheck
<1>2. CASE ShutJoin BY <1>2 DEF ShutJoin
<1>3. CASE ShutJoined BY <1>3 DEF ShutJoined
<1>4. CASE ShutFlag BY <1>4 DEF ShutFlag
<1>5. CASE ShutStopLock BY <1>5 DEF ShutStopLock
<1>6. CASE ShutStop BY <1>6 DEF ShutStop, SdkStopFails
<1>7. CASE ShutDelete BY <1>7 DEF ShutDelete, Orphans
<1>8. CASE ShutPublish BY <1>8 DEF ShutPublish
<1>9. CASE ShutCompletes BY <1>9 DEF ShutCompletes
<1> QED BY <1>1, <1>2, <1>3, <1>4, <1>5, <1>6, <1>7, <1>8, <1>9 DEF ShutdownWorker

Inv == TInv /\ SInv

LEMMA InvNext == Inv /\ [Next]_vars => Inv'
<1> SUFFICES ASSUME TInv, SInv, [Next]_vars, NEW z \in Sends PROVE SendInv(z)'
  BY TInvNext DEF Inv, SInv
<1> USE DEF SInv
<1>1. CASE Application
  BY <1>1, SInvAdmit, SInvApplication DEF Application
<1>2. CASE MainThread
  BY <1>2, SInvSend, SInvTsfn, SInvShutdownStep, SInvMainCommon, SInvStart, SInvShut
     DEF MainThread
<1>3. CASE TimerStep \/ StartWorker \/ ShutdownWorker
  BY <1>3, SInvTimer, SInvStart, SInvShut
<1>4. CASE \E s \in Sends : SdkEnters(s) \/ SdkThread(s)
  BY <1>4, SInvSdk
<1>5. CASE UNCHANGED vars
  BY <1>5, CalmStep DEF Building, Holding, Telling
<1> QED BY <1>1, <1>2, <1>3, <1>4, <1>5 DEF Next, Finished

\* Inv holds throughout.
LEMMA InvHolds == SafetySpec => []Inv
<1>1. Init => Inv
  BY TInvInit, SInvInit DEF Inv
<1> QED BY <1>1, InvNext, PTL DEF SafetySpec

\* For any number of sends and faults: the thread that won the exchange on
\* tsfn_released_ finds the TSFN open, and no event is left on a finalized one.
THEOREM TsfnOwnership == SafetySpec => []TsfnUsedOnlyWhileOwned
<1>1. Inv => TsfnUsedOnlyWhileOwned
  BY DEF Inv, SInv, SendInv, TsfnInv, TsfnUsedOnlyWhileOwned
<1> QED BY InvHolds, <1>1, PTL

\* For any number of sends and faults: JavaScript hears of a send at most once.
THEOREM OneReport == SafetySpec => []ToldAtMostOnce
<1>1. Inv => ToldAtMostOnce
  BY DEF Inv, SInv, SendInv, ToldInv, ToldAtMostOnce
<1> QED BY InvHolds, <1>1, PTL
=============================================================================
