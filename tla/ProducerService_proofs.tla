----------------------- MODULE ProducerService_proofs -----------------------
(***************************************************************************)
(* The native producer implements SendService, for the build without test  *)
(* hooks; and it uses no callback after it was deleted, when no getter of  *)
(* the send options calls shutdown(), the MQClientInstance is its own and  *)
(* the SDK's shutdown does not throw.                                      *)
(***************************************************************************)
EXTENDS ProducerShutdown_proofs

USE DEF vars, objectVars, sendVars, workerVars, lifeVars, countVars, listVars,
        sdkVars, envVars, ctxVars, tsfnVars, CallPcs

-----------------------------------------------------------------------------
(* What a send may be told, and when it is given back.                     *)

\* Some thread is between the two halves of CancelPendingSends, or was.
Bumped == wiped \/ timer.pc = "take" \/ main.pc = "take"

TellInv(s) ==
    /\ cb[s] # "none" => sgen[s] <= gen /\ (Bumped => sgen[s] < gen)
    /\ told[s] = 0 <=> verdict[s] = "none"
    /\ sdk[s] \in {"deliver", "release", "purge", "returned"} => claimed[s]
    /\ sdk[s] = "deliver" \/ (Built(s) /\ ~claimed[s]) \/ item[s] => ~released[s]
    /\ InCall(s) => sdk[s] \in {"release", "purge", "returned"} /\ ~item[s]

\* No send has begun at first.
LEMMA TellInvInit == Init => \A s \in Sends : TellInv(s)
BY DEF Init, TellInv, Bumped, Built, InCall, Idle

\* Telling keeps the two history variables in step.
LEMMA TellCounts ==
  ASSUME TInv, NEW s \in Sends, NEW z \in Sends, TellInv(z), NEW o, o # "none", Tell(s, o)
  PROVE  told'[z] = 0 <=> verdict'[z] = "none"
<1>1. CASE z = s
  <2>1. told'[s] = told[s] + 1 /\ told[s] \in Nat /\ verdict'[s] = o
    BY DEF Tell, TInv, TypeOK, SendTypes
  <2> QED BY <1>1, <2>1
<1>2. CASE z # s
  BY <1>2 DEF Tell, TellInv, TInv, TypeOK, SendTypes
<1> QED BY <1>1, <1>2

\* Steps that tell nobody and give back nothing.
LEMMA TellSame ==
  ASSUME NEW z \in Sends, TellInv(z),
         UNCHANGED <<told, verdict, sgen, gen, item, released>>, Bumped' => Bumped,
         cb'[z] = "none" <=> cb[z] = "none", Built(z)' => Built(z),
         sdk'[z] = sdk[z] \/ sdk'[z] \in {"dropped", "accepted", "entered"},
         claimed[z] => claimed'[z], InCall(z)' => InCall(z) /\ sdk'[z] = sdk[z]
  PROVE  TellInv(z)'
BY DEF TellInv

\* Send() after it was admitted.
LEMMA TellSend ==
  ASSUME AllInv, NEW z \in Sends, TellInv(z), SendStep
  PROVE  TellInv(z)'
<1> USE DEF AllInv, Inv, TInv, TypeOK, ThreadTypes, SendTypes
<1> DEFINE m == main.send
<1>0. main.op = "send" => m \in Sends /\ main.ret = "loop"
  BY DEF MainOK
<1>c. main.op = "send" => ~InCall(z) /\ (main.pc = "build" => cb[m] = "building")
  BY <1>0 DEF InCall, MainOK, SInv, SendInv, CallbackInv, Building
<1>u. ASSUME main.op = "send", main.pc # "build", SendUnwind(m) PROVE TellInv(z)'
  <2>1. Built(m) /\ m \in Sends
    BY <1>0, <1>u DEF MainOK, SendPcs, SInv, SendInv, CallbackInv, Holding, Built
  <2>2. /\ ~InCall(z)' /\ (Bumped' => Bumped)
        /\ UNCHANGED <<sgen, gen, item, released, sdk>>
        /\ cb' = [s \in Sends |-> IF s \in {m} THEN "deleted" ELSE cb[s]]
        /\ \A s \in Sends : claimed[s] => claimed'[s]
    BY <1>u DEF SendUnwind, DestroyCallbacks, AbortTsfns, InCall, Idle, Bumped
  <2>3. told'[z] = 0 <=> verdict'[z] = "none"
    BY <1>u, <2>1, TellCounts DEF SendUnwind
  <2> QED BY <2>1, <2>2, <2>3 DEF TellInv, Built
<1>1. CASE SendBuildFails
  <2>1. m \in Sends /\ cb[m] = "building" /\ cb' = [cb EXCEPT ![m] = "unbuilt"]
    BY <1>0, <1>c, <1>1 DEF SendBuildFails, MainAt
  <2>2. /\ ~InCall(z)' /\ (Bumped' => Bumped)
        /\ UNCHANGED <<sgen, gen, item, sdk, claimed>>
        /\ \A s \in Sends \ {m} : released'[s] = released[s]
    BY <1>1 DEF SendBuildFails, InCall, Idle, Bumped
  <2>3. told'[z] = 0 <=> verdict'[z] = "none"
    BY <1>1, <2>1, TellCounts DEF SendBuildFails
  <2>4. sdk[m] = "none" /\ ~item[m]
    BY <2>1 DEF SInv, SendInv, CallbackInv, ToldInv
  <2> QED BY <2>1, <2>2, <2>3, <2>4 DEF TellInv, Built
<1>2. CASE SendConstruct
  <2>1. m \in Sends /\ cb[m] = "building" /\ cb' = [cb EXCEPT ![m] = "live"]
    BY <1>0, <1>c, <1>2 DEF SendConstruct, MainAt
  <2>2. /\ Bumped' => Bumped
        /\ UNCHANGED <<sgen, gen, item, sdk, claimed, released, told, verdict>>
    BY <1>2 DEF SendConstruct, MainGoto, Bumped
  <2>3. ~InCall(z)'
    BY <1>2, <1>0 DEF SendConstruct, MainAt, MainGoto, InCall
  <2>4. ~released[m]
    BY <2>1 DEF CountInv, UnitInv
  <2> QED BY <2>1, <2>2, <2>3, <2>4 DEF TellInv, Built
<1>3. CASE SendCheckGeneration
  BY <1>3, <1>u, <1>0, TellSame DEF SendCheckGeneration, MainAt, MainGoto, InCall, Built, Bumped
<1>4. CASE SendLock
  BY <1>4, <1>0, TellSame DEF SendLock, MainAt, MainGoto, InCall, Built, Bumped
<1>5. CASE SendAccepted
  BY <1>5, <1>0, TellSame DEF SendAccepted, MainAt, SdkGoto, Idle, InCall, Built, Bumped
<1>6. CASE SendThrows
  BY <1>6, <1>u DEF SendThrows, MainAt
<1> QED BY <1>1, <1>2, <1>3, <1>4, <1>5, <1>6 DEF SendStep

\* The events of a TSFN.
LEMMA TellTsfn ==
  ASSUME AllInv, NEW z \in Sends, TellInv(z),
         CallJsTells \/ CallJsReturns \/ \E s \in Sends : CallJs(s) \/ Finalize(s)
  PROVE  TellInv(z)'
<1> USE DEF AllInv, Inv, TInv, TypeOK, ThreadTypes, SendTypes
<1>1. ASSUME NEW s \in Sends, CallJs(s) PROVE TellInv(z)'
  <2>1. sdk[s] \in {"release", "purge", "returned"}
    BY <1>1 DEF CallJs, SInv, SendInv, ToldInv
  <2>2. /\ InCall(z)' => z = s
        /\ Bumped' => Bumped
        /\ item' = [item EXCEPT ![s] = FALSE]
        /\ UNCHANGED <<cb, sgen, gen, sdk, claimed, released, told, verdict>>
    BY <1>1 DEF CallJs, InCall, Bumped
  <2> QED BY <2>1, <2>2 DEF TellInv, Built
<1>4. CASE CallJsTells
  <2>1. /\ InCall(z)' => InCall(z)
        /\ Bumped' => Bumped
        /\ UNCHANGED <<cb, sgen, gen, sdk, claimed, released, item>>
    BY <1>4 DEF CallJsTells, MainGoto, InCall, Bumped
  <2>2. main.send \in Sends /\ main.pc # "none"
    BY <1>4 DEF CallJsTells, MainOK
  <2>3. told'[z] = 0 <=> verdict'[z] = "none"
    BY <1>4, <2>2, TellCounts DEF CallJsTells
  <2> QED BY <2>1, <2>3 DEF TellInv, Built
<1>2. CASE CallJsReturns
  <2>1. ~InCall(z)' /\ (Bumped' => Bumped)
    BY <1>2 DEF CallJsReturns, Idle, InCall, Bumped
  <2>2. InCall(main.send)
    BY <1>2 DEF CallJsReturns, MainAt, InCall
  <2>3. z # main.send => released'[z] = released[z]
    BY <1>2 DEF CallJsReturns, ReleasePendingSend
  <2> QED BY <1>2, <2>1, <2>2, <2>3 DEF CallJsReturns, TellInv, Built
<1>3. ASSUME NEW s \in Sends, Finalize(s) PROVE TellInv(z)'
  <2>1. /\ UNCHANGED <<cb, sgen, gen, sdk, claimed, item, main, wiped, timer>>
        /\ z # s => released'[z] = released[z]
    BY <1>3 DEF Finalize, ReleasePendingSend
  <2>2. told'[z] = 0 <=> verdict'[z] = "none"
    BY <1>3, TellCounts DEF Finalize, TellInv
  <2>3. sdk[s] # "deliver" /\ ~(Built(s) /\ ~claimed[s]) /\ ~item[s]
    BY <1>3 DEF Finalize, SInv, SendInv, TsfnInv, Built
  <2> QED BY <2>1, <2>2, <2>3 DEF TellInv, Built, InCall, Bumped
<1> QED BY <1>1, <1>2, <1>3, <1>4

\* An SDK thread claims the TSFN before it delivers.
LEMMA TellSdk ==
  ASSUME AllInv, NEW z \in Sends, TellInv(z), NEW s \in Sends, SdkEnters(s) \/ SdkThread(s)
  PROVE  TellInv(z)'
<1> USE DEF AllInv, Inv, TInv, TypeOK, SendTypes, SdkGoto, Built, Bumped, InCall
<1>1. CASE SdkEnters(s)
  BY <1>1 DEF SdkEnters, TellInv
<1>2. CASE SdkClaims(s)
  <2>1. Built(s)
    BY <1>2 DEF SdkClaims, SInv, SendInv, CallbackInv
  <2> QED BY <1>2, <2>1 DEF SdkClaims, TellInv
<1>3. CASE SdkDelivers(s)
  BY <1>3 DEF SdkDelivers, TellInv
<1>4. CASE SdkDeliveryFails(s)
  <2>1. ~item[s]
    BY <1>4 DEF SdkDeliveryFails, SInv, SendInv, ToldInv
  <2>2. z # s => released'[z] = released[z]
    BY <1>4 DEF SdkDeliveryFails, ReleasePendingSend
  <2> QED BY <1>4, <2>1, <2>2 DEF SdkDeliveryFails, TellInv
<1>5. CASE SdkReleases(s) \/ SdkPurges(s)
  BY <1>5 DEF SdkReleases, SdkPurges, TellInv
<1> QED BY <1>1, <1>2, <1>3, <1>4, <1>5 DEF SdkThread

\* A send captures the generation before any shutdown bumps it.
LEMMA TellApplication ==
  ASSUME AllInv, NEW z \in Sends, TellInv(z), Application
  PROVE  TellInv(z)'
<1> USE DEF AllInv, Inv, TInv, TypeOK, ThreadTypes, SendTypes, ObjectTypes
<1>1. ASSUME NEW s \in Sends, SendAdmit(s) PROVE TellInv(z)'
  <2>1. ~wiped /\ timer.pc = "none"
    BY <1>1 DEF SendAdmit, TakesSends, WaitInv, OpenInv, Closed
  <2>2. ~Bumped' /\ ~InCall(z)'
    BY <1>1, <2>1 DEF SendAdmit, Bumped, InCall
  <2> QED BY <1>1, <2>2 DEF SendAdmit, TellInv, Built
<1>2. CASE Start \/ DropReference
  BY <1>2, TellSame DEF Start, DropReference, Built, Bumped, InCall
<1>3. CASE Shutdown \/ ShutdownRetry
  <2>1. /\ main'.send = main.send /\ main'.ret = main.pc
        /\ main'.pc \in {"enqueue", "join"}
    BY <1>3 DEF Shutdown, ShutdownRetry
  <2>2. timer'.pc = "take" => timer.pc = "take"
    BY <1>3 DEF Shutdown, ShutdownRetry
  <2>3. InCall(z)' => InCall(z)
    BY <2>1 DEF InCall
  <2>4. Bumped' => Bumped
    BY <1>3, <2>1, <2>2 DEF Shutdown, ShutdownRetry, Bumped
  <2> QED BY <1>3, <2>3, <2>4, TellSame DEF Shutdown, ShutdownRetry, Built
<1>4. CASE ForceDestroy
  BY <1>4, TellSame DEF ForceDestroy, Built, Bumped, InCall
<1>5. CASE Destroy
  BY <1>5, TellSame DEF Destroy, Built, Bumped, InCall
<1> QED BY <1>1, <1>2, <1>3, <1>4, <1>5 DEF Application

\* The first half of CancelPendingSends makes every admitted send stale.
LEMMA TellBump ==
  ASSUME AllInv, NEW z \in Sends, TellInv(z), TimerBump \/ MainBump
  PROVE  TellInv(z)'
<1>1. /\ gen' = gen + 1 /\ UNCHANGED <<sendVars, wiped>>
      /\ InCall(z)' => InCall(z)
  BY DEF TimerBump, MainBump, CancelBump, MainGoto, InCall, AllInv, Inv, TInv, TypeOK,
         ThreadTypes
<1> QED BY <1>1 DEF TellInv, Built, Bumped, AllInv, Inv, TInv, TypeOK, SendTypes, ObjectTypes

\* The second half finds them so.
LEMMA TellTake ==
  ASSUME AllInv, NEW z \in Sends, TellInv(z), TimerTake \/ MainTake
  PROVE  TellInv(z)'
<1>1. /\ UNCHANGED <<gen, sendVars>> /\ Bumped
      /\ InCall(z)' => InCall(z)
  BY DEF TimerTake, MainTake, CancelTake, MainGoto, InCall, Bumped, AllInv, Inv, TInv, TypeOK,
         ThreadTypes
<1> QED BY <1>1, TellSame DEF Built

\* Deleting the tracked callbacks claims their TSFNs.
LEMMA TellDestroy ==
  ASSUME AllInv, NEW z \in Sends, TellInv(z), DestroyCallbacks(Orphans),
         UNCHANGED <<told, verdict, sgen, gen, item, released, sdk>>, Bumped' => Bumped,
         InCall(z)' => InCall(z)
  PROVE  TellInv(z)'
<1>1. /\ cb'[z] = "none" <=> cb[z] = "none"
      /\ Built(z)' => Built(z)
  BY DEF DestroyCallbacks, Orphans, Built, AllInv, Inv, SInv, SendInv, CallbackInv
<1>2. claimed[z] => claimed'[z]
  BY DEF DestroyCallbacks, AbortTsfns
<1> QED BY <1>1, <1>2, TellSame

\* The main thread in a shutdown or a destruction.
LEMMA TellMain ==
  ASSUME AllInv, NEW z \in Sends, TellInv(z), ShutdownStep \/ MainCommon
  PROVE  TellInv(z)'
<1> USE DEF AllInv, Inv, TInv, TypeOK, ThreadTypes, SendTypes, Built
<1>c. ASSUME main' = Returned PROVE (InCall(z)' => InCall(z)) /\ main'.pc # "take"
  BY <1>c DEF InCall, Returned
<1>g. ASSUME NEW pc \in {"join", "joining", "enqueue", "flag", "sdkLock", "sdkStop", "delete",
                         "members", "gone", "abort", "bump"}, main'.pc = pc,
             main'.send = main.send, main'.ret = main.ret
      PROVE  (InCall(z)' => InCall(z)) /\ main'.pc # "take"
  BY <1>g DEF InCall
<1>1. CASE ShutdownEnqueue
  <2>1. (InCall(z)' => InCall(z)) /\ main'.pc # "take"
    BY <1>1, <1>c DEF ShutdownEnqueue
  <2> QED BY <1>1, <2>1, TellSame DEF ShutdownEnqueue, Bumped
<1>8. CASE ShutdownQueueFails
  <2>1. (InCall(z)' => InCall(z)) /\ main'.pc # "take"
    BY <1>8, <1>g DEF ShutdownQueueFails
  <2> QED BY <1>8, <2>1, TellSame DEF ShutdownQueueFails, Bumped
<1>2. CASE MainBump \/ MainTake
  BY <1>2, TellBump, TellTake
<1>3. CASE MainAbort
  BY <1>3, <1>g, TellSame DEF MainAbort, MainGoto, CancelAbort, AbortTsfns, Bumped
<1>4. CASE MainJoin \/ MainJoined
  <2>1. (InCall(z)' => InCall(z)) /\ main'.pc # "take"
    BY <1>4, <1>c, <1>g DEF MainJoin, MainJoined, AfterJoin, MainGoto
  <2>2. Bumped' => Bumped
    BY <1>4, <2>1 DEF MainJoin, MainJoined, Bumped
  <2> QED BY <1>4, <2>1, <2>2, TellSame DEF MainJoin, MainJoined
<1>5. CASE MainFlag \/ MainStopLock
  BY <1>5, <1>g, TellSame DEF MainFlag, MainStopLock, AfterStop, MainGoto, Bumped
<1>6. CASE MainStop \/ MainMembers
  <2>1. (InCall(z)' => InCall(z)) /\ main'.pc # "take"
    BY <1>6, <1>g DEF MainStop, MainMembers, AfterStop, MainGoto
  <2>2. main.pc \in {"sdkStop", "members"} => ~InCall(z)
    BY DEF InCall, MainOK, WaitInv, PcInv
  <2>3. sdk'[z] = sdk[z] \/ sdk'[z] = "dropped"
    BY <1>6 DEF MainStop, MainMembers, SdkStop, SdkStopFails
  <2> QED BY <1>6, <2>1, <2>2, <2>3, TellSame DEF MainStop, MainMembers, Bumped
<1>7. CASE MainDelete
  <2>1. (InCall(z)' => InCall(z)) /\ main'.pc # "take"
    BY <1>7, <1>g DEF MainDelete, MainGoto, Idle, InCall
  <2> QED BY <1>7, <2>1, TellDestroy DEF MainDelete, Bumped
<1> QED BY <1>1, <1>2, <1>3, <1>4, <1>5, <1>6, <1>7, <1>8 DEF MainCommon, ShutdownStep

\* The workers and the timer.
LEMMA TellWorkers ==
  ASSUME AllInv, NEW z \in Sends, TellInv(z),
         \/ StartWorker \/ StartCompletes \/ ShutdownWorker \/ ShutCompletes \/ TimerStep
         \/ UNCHANGED vars
  PROVE  TellInv(z)'
<1> USE DEF Built, InCall, Bumped
<1>0. ASSUME SdkStop \/ SdkStopFails, UNCHANGED <<main, cb, tsfnVars, released, ctxVars>>,
             UNCHANGED <<gen, wiped, timer>>
      PROVE  TellInv(z)'
  BY <1>0 DEF SdkStop, SdkStopFails, TellInv, AllInv, Inv, TInv, TypeOK, SendTypes
<1>1. CASE StartStop \/ ShutStop
  BY <1>1, <1>0 DEF StartStop, ShutStop
<1>2. CASE \/ StartCheck \/ StartLock \/ StartCall \/ StartPublish \/ StartFlag
           \/ StartStopLock \/ StartCompletes \/ UNCHANGED vars
  BY <1>2, TellSame DEF StartCheck, StartLock, StartCall, StartPublish, StartFlag,
                        StartStopLock, StartCompletes
<1>3. CASE \/ ShutCheck \/ ShutJoin \/ ShutJoined \/ ShutFlag \/ ShutStopLock \/ ShutPublish
           \/ ShutCompletes
  BY <1>3, TellSame DEF ShutCheck, ShutJoin, ShutJoined, ShutFlag, ShutStopLock, ShutPublish,
                        ShutCompletes, AllInv, Inv, TInv, TypeOK, ThreadTypes
<1>4. CASE ShutDelete
  BY <1>4, TellDestroy DEF ShutDelete
<1>5. CASE TimerBump \/ TimerTake
  BY <1>5, TellBump, TellTake
<1>6. CASE TimerDone \/ TimerTimeout
  BY <1>6, TellSame DEF TimerDone, TimerTimeout, AllInv, Inv, TInv, TypeOK, ThreadTypes
<1>7. CASE TimerAbort
  BY <1>7, TellSame DEF TimerAbort, CancelAbort, AbortTsfns, AllInv, Inv, TInv, TypeOK,
                        ThreadTypes
<1> QED BY <1>1, <1>2, <1>3, <1>4, <1>5, <1>6, <1>7 DEF StartWorker, ShutdownWorker, TimerStep

\* Every step.
LEMMA TellNext ==
  ASSUME AllInv, NEW z \in Sends, TellInv(z), [Next]_vars
  PROVE  TellInv(z)'
BY TellSend, TellTsfn, TellSdk, TellApplication, TellMain, TellWorkers
   DEF Next, MainThread, Finished

-----------------------------------------------------------------------------
(* When the service may give up.                                           *)

\* Built without test hooks, the object is destroyed at its end and not before.
HookInv ==
    /\ main.op # "forceDestroy"
    /\ lifecycle = "Destroyed" => main.op = "dtor"

\* The timer gives up on sends while the producer is shutting down, or on none.
TimerInv == timer.pc \in {"waiting", "bump", "take"} => lifecycle = "ShuttingDown" \/ Drained

ServeInv == HookInv /\ TimerInv /\ \A s \in Sends : TellInv(s)

\* No timer runs and nothing is destroyed at first.
LEMMA ServeInvInit == Init => ServeInv
BY TellInvInit DEF Init, Idle, ServeInv, HookInv, TimerInv

\* The lifecycle becomes "Destroyed" in the destructor only.
LEMMA HookNext == ASSUME ~TestHooks, AllInv, HookInv, [Next]_vars PROVE HookInv'
<1> USE DEF HookInv, AllInv, Inv, TInv, TypeOK, ThreadTypes, WaitInv
<1>1. ASSUME lifecycle' = lifecycle, main.op # "dtor", main'.op # "forceDestroy" PROVE HookInv'
  BY <1>1
<1>2. CASE Start \/ Shutdown \/ ShutdownRetry \/ DropReference \/ Destroy
  BY <1>2 DEF Start, Shutdown, ShutdownRetry, DropReference, Destroy, MayRetry
<1>3. CASE (\E s \in Sends : SendAdmit(s)) \/ ForceDestroy
  BY <1>3 DEF SendAdmit, TakesSends, ForceDestroy
<1>4. CASE SendStep
  BY <1>4 DEF SendStep, SendBuildFails, SendConstruct, SendCheckGeneration, SendLock,
              SendAccepted, SendThrows, SendUnwind, MainAt, MainGoto, Idle
<1>5. CASE CallJsTells \/ CallJsReturns \/ \E s \in Sends : CallJs(s) \/ Finalize(s)
  BY <1>5 DEF CallJsTells, CallJsReturns, CallJs, Finalize, MainAt, MainGoto, Idle, PcInv
<1>6. CASE ShutdownEnqueue
  BY <1>6, <1>1 DEF ShutdownEnqueue, MainAt, Returned
<1>7. CASE ShutdownQueueFails
  BY <1>7 DEF ShutdownQueueFails, MainAt
<1>8. CASE MainBump \/ MainTake \/ MainAbort \/ MainFlag \/ MainStopLock \/ MainStop
           \/ MainMembers
  BY <1>8 DEF MainBump, MainTake, MainAbort, MainFlag, MainStopLock, MainStop, MainMembers,
              AfterStop, MainGoto
<1>9. CASE MainJoin
  BY <1>9 DEF MainJoin, AfterJoin, MainGoto, Returned
<1>10. CASE MainJoined
  BY <1>10 DEF MainJoined, AfterJoin, MainGoto, Returned
<1>11. CASE MainDelete
  BY <1>11 DEF MainDelete, MainGoto, Idle
<1>12. CASE StartWorker \/ StartCompletes
  BY <1>12 DEF StartWorker, StartCheck, StartLock, StartCall, StartPublish, StartFlag,
               StartStopLock, StartStop, StartCompletes
<1>13. CASE ShutdownWorker \/ ShutCompletes
  BY <1>13 DEF ShutdownWorker, ShutCheck, ShutJoin, ShutJoined, ShutFlag, ShutStopLock,
               ShutStop, ShutDelete, ShutPublish, ShutCompletes
<1>14. CASE TimerStep \/ UNCHANGED vars
  BY <1>14 DEF TimerStep, TimerDone, TimerTimeout, TimerBump, TimerTake, TimerAbort
<1>15. CASE \E s \in Sends : SdkEnters(s) \/ SdkThread(s)
  BY <1>15 DEF SdkEnters, SdkThread, SdkClaims, SdkDelivers, SdkDeliveryFails, SdkReleases,
               SdkPurges
<1> QED BY <1>2, <1>3, <1>4, <1>5, <1>6, <1>7, <1>8, <1>9, <1>10, <1>11, <1>12, <1>13, <1>14,
           <1>15
        DEF Next, Application, MainThread, ShutdownStep, MainCommon, Finished

\* An object that nothing pins has given back every send.
LEMMA UnpinnedDrained ==
  ASSUME AllInv, pinned = {}, main.pc = "loop" \/ main.op = "dtor"
  PROVE  Unreleased = {}
<1>1. \A s \in Sends : ~Building(s)
  BY DEF AllInv, Inv, TInv, MainOK, WaitInv, PcInv, Building
<1> QED BY <1>1 DEF AllInv, EndInv, PinInv, CountInv, UnitInv, Unreleased, Admitted, Inv, TInv,
                    TypeOK, SendTypes

\* The lifecycle leaves "ShuttingDown" when everything is drained.
LEMMA TimerNext ==
  ASSUME AllInv, HookInv, TimerInv, ~TestHooks, [Next]_vars
  PROVE  TimerInv'
<1> USE DEF TimerInv, AllInv, WaitInv
<1>1. CASE \E s \in Sends : SendAdmit(s)
  BY <1>1 DEF SendAdmit, TakesSends, OpenInv, Closed
<1>2. CASE \A s \in Sends : ~SendAdmit(s)
  <2>0. Drained => Drained'
    BY <1>2, CalmOthers, CalmDrained
  <2>1. ASSUME lifecycle' = lifecycle \/ Drained,
               timer'.pc \in {"waiting", "bump", "take"} =>
                 timer.pc \in {"waiting", "bump", "take"}
        PROVE  TimerInv'
    BY <2>0, <2>1
  <2>2. CASE Start \/ Shutdown
    BY <2>2 DEF Start, Shutdown, OpenInv, Closed
  <2>3. CASE Destroy
    <3>1. pinned = {} /\ main.pc = "loop" /\ UNCHANGED timer
      BY <2>3 DEF Destroy
    <3> QED BY <2>1, <3>1, UnpinnedDrained DEF Drained
  <2>4. CASE StartPublish
    BY <2>4, <2>1 DEF StartPublish, OpenInv, Closed, HookInv, WhoInv
  <2>5. CASE ShutPublish
    BY <2>5, <2>1 DEF ShutPublish, DrainInv
  <2>6. CASE TimerStep
    BY <2>6, <2>1 DEF TimerStep, TimerDone, TimerTimeout, TimerBump, TimerTake, TimerAbort, Inv,
                      TInv, TypeOK, ThreadTypes
  <2>7. CASE MainJoin \/ ShutJoin
    BY <2>7, <2>1 DEF MainJoin, ShutJoin, Inv, TInv, TypeOK, ThreadTypes
  <2>8. CASE UNCHANGED <<timer, lifecycle>>
    BY <2>8, <2>1
  <2>9. \/ UNCHANGED <<timer, lifecycle>> \/ Start \/ Shutdown \/ Destroy \/ StartPublish
        \/ ShutPublish \/ TimerStep \/ MainJoin \/ ShutJoin
    <3>1. CASE ShutdownRetry \/ DropReference \/ ForceDestroy
      BY <3>1 DEF ShutdownRetry, DropReference, ForceDestroy
    <3>2. CASE SendStep \/ ShutdownStep
      BY <3>2 DEF SendStep, SendBuildFails, SendConstruct, SendCheckGeneration, SendLock,
                  SendAccepted, SendThrows, SendUnwind, ShutdownStep, ShutdownEnqueue,
                  ShutdownQueueFails
    <3>3. CASE CallJsTells \/ CallJsReturns \/ \E s \in Sends : CallJs(s) \/ Finalize(s)
      BY <3>3 DEF CallJsTells, CallJsReturns, CallJs, Finalize
    <3>4. CASE MainCommon
      BY <3>4 DEF MainCommon, MainBump, MainTake, MainAbort, MainJoined, MainFlag, MainStopLock,
                  MainStop, MainDelete, MainMembers
    <3>5. CASE StartWorker \/ StartCompletes
      BY <3>5 DEF StartWorker, StartCheck, StartLock, StartCall, StartFlag, StartStopLock,
                  StartStop, StartCompletes
    <3>6. CASE ShutdownWorker \/ ShutCompletes
      BY <3>6 DEF ShutdownWorker, ShutCheck, ShutJoined, ShutFlag, ShutStopLock, ShutStop,
                  ShutDelete, ShutCompletes
    <3>7. CASE \E s \in Sends : SdkEnters(s) \/ SdkThread(s)
      BY <3>7 DEF SdkEnters, SdkThread, SdkClaims, SdkDelivers, SdkDeliveryFails, SdkReleases,
                  SdkPurges
    <3>8. CASE UNCHANGED vars
      BY <3>8
    <3> QED BY <1>2, <3>1, <3>2, <3>3, <3>4, <3>5, <3>6, <3>7, <3>8
            DEF Next, Application, MainThread, Finished
  <2> QED BY <2>2, <2>3, <2>4, <2>5, <2>6, <2>7, <2>8, <2>9
<1> QED BY <1>1, <1>2

-----------------------------------------------------------------------------
(* The service's variables, and its actions in terms of them.              *)

Door ==
    CASE lifecycle \in {"Idle", "Starting"} -> "shut"
      [] lifecycle = "Started" -> "open"
      [] lifecycle = "ShuttingDown" -> "closing"
      [] OTHER -> "closed"

StatusOf == [s \in Sends |-> IF cb[s] = "none" THEN "new"
                             ELSE IF released[s] THEN "settled"
                             ELSE IF wiped THEN "cancelled" ELSE "pending"]

Reported(v) == IF v \in {"none", "result"} THEN v ELSE "error"
OutcomeOf == [s \in Sends |-> IF main.pc = "result" /\ main.send = s THEN "decided"
                               ELSE Reported(verdict[s])]

ServiceStep == Service!Next \/ UNCHANGED Service!vars

\* What the door and the giving up come to.
LEMMA ServiceDoor ==
  /\ Service!Open <=> Door = "shut" /\ Door' = "open" /\ UNCHANGED <<StatusOf, OutcomeOf>>
  /\ Service!BeginClose <=> Door = "open" /\ Door' = "closing"
                            /\ UNCHANGED <<StatusOf, OutcomeOf>>
  /\ Service!Close <=> /\ Door # "closed" /\ \A s \in Sends : StatusOf[s] # "pending"
                       /\ Door' = "closed" /\ UNCHANGED <<StatusOf, OutcomeOf>>
  /\ Service!GiveUp <=>
       /\ Door = "closing" /\ UNCHANGED <<Door, OutcomeOf>>
       /\ StatusOf' = [s \in Sends |-> IF StatusOf[s] = "pending" THEN "cancelled"
                                       ELSE StatusOf[s]]
  /\ (UNCHANGED Service!vars) <=> UNCHANGED <<Door, StatusOf, OutcomeOf>>
BY DEF Service!Open, Service!BeginClose, Service!Close, Service!GiveUp, Service!vars, Door,
       StatusOf, OutcomeOf, Reported

\* What happens to one send.
LEMMA ServiceSend ==
  ASSUME NEW s \in Sends, NEW o
  PROVE  /\ Service!Admit(s) <=> /\ Door = "open" /\ StatusOf[s] = "new"
                                 /\ StatusOf' = [StatusOf EXCEPT ![s] = "pending"]
                                 /\ UNCHANGED <<Door, OutcomeOf>>
         /\ Service!Decide(s) <=> /\ StatusOf[s] = "pending" /\ OutcomeOf[s] = "none"
                                  /\ \A z \in Sends : OutcomeOf[z] # "decided"
                                  /\ OutcomeOf' = [OutcomeOf EXCEPT ![s] = "decided"]
                                  /\ UNCHANGED <<Door, StatusOf>>
         /\ Service!Tell(s, o) <=> /\ StatusOf[s] # "new"
                                   /\ OutcomeOf[s] = IF o = "result" THEN "decided" ELSE "none"
                                   /\ OutcomeOf' = [OutcomeOf EXCEPT ![s] = o]
                                   /\ UNCHANGED <<Door, StatusOf>>
         /\ Service!Settle(s) <=>
              /\ StatusOf[s] \in {"pending", "cancelled"}
              /\ StatusOf' = [StatusOf EXCEPT ![s] = "settled"]
              /\ \/ UNCHANGED OutcomeOf
                 \/ OutcomeOf[s] = "none" /\ OutcomeOf' = [OutcomeOf EXCEPT ![s] = "error"]
              /\ UNCHANGED Door
BY DEF Service!Admit, Service!Decide, Service!Tell, Service!Settle, Door, StatusOf, OutcomeOf, Reported

\* The status of every send stays, unless one is admitted, given back or given up.
LEMMA SameStatus ==
  ASSUME UNCHANGED <<released, wiped>>, \A s \in Sends : cb'[s] = "none" <=> cb[s] = "none"
  PROVE  StatusOf' = StatusOf
BY DEF StatusOf

\* A step that takes and tells no decision of CallJs to report a result.
NoDecision == UNCHANGED main \/ (main.pc # "result" /\ main'.pc # "result")

\* Only CallJs takes one, and only CallJsTells follows it.
LEMMA DecidedInCallJs ==
  ASSUME AllInv, [Next]_vars
  PROVE  NoDecision \/ CallJsTells \/ \E s \in Sends : CallJs(s)
<1> USE DEF NoDecision, AllInv, Inv, TInv, TypeOK, ThreadTypes
<1>1. CASE Application
  <2>1. CASE \E s \in Sends : SendAdmit(s)
    BY <2>1 DEF SendAdmit
  <2>2. CASE Start \/ ForceDestroy \/ DropReference \/ Destroy
    BY <2>2 DEF Start, ForceDestroy, DropReference, Destroy
  <2>3. CASE Shutdown \/ ShutdownRetry
    BY <2>3 DEF Shutdown, ShutdownRetry, ShutdownPoints
  <2> QED BY <1>1, <2>1, <2>2, <2>3 DEF Application
<1>2. CASE SendStep
  BY <1>2 DEF SendStep, SendBuildFails, SendConstruct, SendCheckGeneration, SendLock,
              SendAccepted, SendThrows, SendUnwind, MainAt, MainGoto, Idle
<1>3. CASE ShutdownStep
  <2>1. main.pc # "result"
    BY <1>3 DEF ShutdownStep, ShutdownEnqueue, ShutdownQueueFails, MainAt
  <2>2. CASE ShutdownEnqueue
    BY <2>1, <2>2 DEF ShutdownEnqueue, Returned
  <2>3. CASE ShutdownQueueFails
    BY <2>1, <2>3 DEF ShutdownQueueFails
  <2> QED BY <1>3, <2>2, <2>3 DEF ShutdownStep
<1>4. CASE MainCommon
  <2>1. AfterJoin => main'.pc # "result"
    BY DEF AfterJoin, Returned, MainGoto
  <2> QED BY <1>4, <2>1 DEF MainCommon, MainBump, MainTake, MainAbort, MainJoin, MainJoined,
                            MainFlag, MainStopLock, MainStop, MainDelete, MainMembers,
                            AfterStop, MainGoto, Idle
<1>5. CASE CallJsReturns \/ StartCompletes \/ ShutCompletes \/ \E s \in Sends : Finalize(s)
  BY <1>5 DEF CallJsReturns, StartCompletes, ShutCompletes, Finalize, MainAt, Idle
<1>6. CASE TimerStep \/ UNCHANGED vars
  BY <1>6 DEF TimerStep, TimerDone, TimerTimeout, TimerBump, TimerTake, TimerAbort
<1>7. CASE StartWorker \/ ShutdownWorker
  BY <1>7 DEF StartWorker, StartCheck, StartLock, StartCall, StartPublish, StartFlag,
              StartStopLock, StartStop, ShutdownWorker, ShutCheck, ShutJoin, ShutJoined,
              ShutFlag, ShutStopLock, ShutStop, ShutDelete, ShutPublish
<1>8. CASE \E s \in Sends : SdkEnters(s) \/ SdkThread(s)
  BY <1>8 DEF SdkEnters, SdkThread, SdkClaims, SdkDelivers, SdkDeliveryFails, SdkReleases,
              SdkPurges
<1> QED BY <1>1, <1>2, <1>3, <1>4, <1>5, <1>6, <1>7, <1>8 DEF Next, MainThread, Finished

\* What the caller was told, or is about to be told, stays.
LEMMA SameOutcome == ASSUME NoDecision, UNCHANGED verdict PROVE OutcomeOf' = OutcomeOf
BY DEF NoDecision, OutcomeOf

\* A step that neither admits nor gives back nor tells.
LEMMA QuietStep ==
  ASSUME NoDecision, UNCHANGED <<lifecycle, released, wiped, verdict>>,
         \A s \in Sends : cb'[s] = "none" <=> cb[s] = "none"
  PROVE  ServiceStep
<1>1. UNCHANGED <<Door, OutcomeOf>>
  BY SameOutcome DEF Door
<1> QED BY <1>1, SameStatus, ServiceDoor DEF ServiceStep

\* Giving back a unit settles the send.
LEMMA SettledStatus ==
  ASSUME TInv, NEW s \in Sends, cb[s] # "none", ~released[s], wiped' = wiped,
         released' = [released EXCEPT ![s] = TRUE],
         \A z \in Sends : cb'[z] = "none" <=> cb[z] = "none"
  PROVE  /\ StatusOf[s] \in {"pending", "cancelled"}
         /\ StatusOf' = [StatusOf EXCEPT ![s] = "settled"]
BY DEF StatusOf, TInv, TypeOK, SendTypes

\* Telling an outcome that CallJs has not decided.
LEMMA ToldOutcome ==
  ASSUME TInv, NEW s \in Sends, TellInv(s), told[s] = 0, NEW o, Tell(s, o),
         main.pc # "result", main'.pc # "result"
  PROVE  /\ OutcomeOf[s] = "none"
         /\ OutcomeOf' = [OutcomeOf EXCEPT ![s] = Reported(o)]
BY DEF TellInv, Tell, OutcomeOf, Reported, TInv, TypeOK, SendTypes

-----------------------------------------------------------------------------
(* Every step is a step of the service, or changes nothing of it.          *)

\* Send, after it was admitted.
LEMMA StepSend ==
  ASSUME AllInv, ServeInv, SendStep, NoDecision
  PROVE  ServiceStep
<1> USE DEF AllInv, Inv, MainAt
<1> DEFINE m == main.send
<1>0. main.op = "send" => m \in Sends
  BY DEF TInv, MainOK
<1>d. UNCHANGED lifecycle => UNCHANGED Door
  BY DEF Door
<1>u. ASSUME main.op = "send", main.pc # "build", SendUnwind(m) PROVE ServiceStep
  <2>1. m \in Sends /\ told[m] = 0 /\ cb[m] \in {"live", "deleted"}
    BY <1>0, <1>u DEF TInv, MainOK, SendPcs, SInv, SendInv, CallbackInv, ToldInv, Holding
  <2>2. OutcomeOf[m] = "none" /\ OutcomeOf' = [OutcomeOf EXCEPT ![m] = "error"]
    BY <1>u, <2>1, ToldOutcome DEF SendUnwind, Reported, ServeInv, Idle, TInv, MainOK
  <2>3. cb' = [s \in Sends |-> IF s \in {m} THEN "deleted" ELSE cb[s]]
    BY <1>u DEF SendUnwind, DestroyCallbacks
  <2>4. StatusOf' = StatusOf
    BY <1>u, <2>1, <2>3, SameStatus DEF SendUnwind
  <2>5. StatusOf[m] # "new" /\ UNCHANGED Door
    BY <1>d, <1>u, <2>1 DEF SendUnwind, StatusOf
  <2> QED BY <2>1, <2>2, <2>4, <2>5, ServiceSend DEF ServiceStep, Service!Next
<1>1. CASE SendBuildFails
  <2>1. m \in Sends /\ cb[m] = "building"
    BY <1>0, <1>1 DEF SendBuildFails, SInv, SendInv, CallbackInv, Building
  <2>2. told[m] = 0 /\ ~released[m]
    BY <2>1 DEF SInv, SendInv, ToldInv, CountInv, UnitInv
  <2>3. OutcomeOf[m] = "none" /\ OutcomeOf' = [OutcomeOf EXCEPT ![m] = "error"]
    BY <1>1, <2>1, <2>2, ToldOutcome DEF SendBuildFails, Reported, ServeInv, Idle
  <2>4. \A z \in Sends : cb'[z] = "none" <=> cb[z] = "none"
    BY <1>1, <2>1 DEF SendBuildFails, TInv, TypeOK, SendTypes
  <2>5. StatusOf[m] \in {"pending", "cancelled"} /\ StatusOf' = [StatusOf EXCEPT ![m] = "settled"]
    BY <1>1, <2>1, <2>2, <2>4, SettledStatus DEF SendBuildFails
  <2>6. UNCHANGED Door
    BY <1>d, <1>1 DEF SendBuildFails
  <2> QED BY <2>1, <2>3, <2>5, <2>6, ServiceSend DEF ServiceStep, Service!Next
<1>2. CASE SendConstruct
  <2>1. m \in Sends /\ cb[m] = "building"
    BY <1>0, <1>2 DEF SendConstruct, SInv, SendInv, CallbackInv, Building
  <2>2. \A z \in Sends : cb'[z] = "none" <=> cb[z] = "none"
    BY <1>2, <2>1 DEF SendConstruct, TInv, TypeOK, SendTypes
  <2> QED BY <1>2, <2>2, QuietStep DEF SendConstruct
<1>3. CASE SendCheckGeneration
  BY <1>3, <1>u, QuietStep DEF SendCheckGeneration
<1>4. CASE SendLock \/ SendAccepted
  BY <1>4, QuietStep DEF SendLock, SendAccepted
<1>5. CASE SendThrows
  BY <1>5, <1>u DEF SendThrows
<1> QED BY <1>1, <1>2, <1>3, <1>4, <1>5 DEF SendStep

\* Giving back the unit of a send, in a step that tells nothing more.
LEMMA StepRelease ==
  ASSUME AllInv, NEW s \in Sends, cb[s] # "none", ReleasePendingSend(s), NoDecision,
         UNCHANGED <<lifecycle, cb, wiped, verdict>>
  PROVE  ServiceStep
<1>1. CASE released[s]
  BY <1>1, QuietStep DEF ReleasePendingSend
<1>2. CASE ~released[s]
  <2>1. StatusOf[s] \in {"pending", "cancelled"} /\ StatusOf' = [StatusOf EXCEPT ![s] = "settled"]
    BY <1>2, SettledStatus DEF ReleasePendingSend, AllInv, Inv
  <2>2. UNCHANGED <<Door, OutcomeOf>>
    BY SameOutcome DEF Door
  <2> QED BY <2>1, <2>2, ServiceSend DEF ServiceStep, Service!Next
<1> QED BY <1>1, <1>2

\* The events of a TSFN.
LEMMA StepTsfn ==
  ASSUME AllInv, ServeInv, CallJsTells \/ CallJsReturns \/ \E s \in Sends : CallJs(s) \/ Finalize(s)
  PROVE  ServiceStep
<1> USE DEF AllInv, Inv
<1>d. UNCHANGED lifecycle => UNCHANGED Door
  BY DEF Door
<1>n. CallJsReturns \/ (\E s \in Sends : Finalize(s)) => NoDecision
  BY DEF CallJsReturns, Finalize, MainAt, Idle, NoDecision
<1>1. CASE CallJsReturns
  <2>1. main.send \in Sends /\ InCall(main.send)
    BY <1>1 DEF CallJsReturns, MainAt, TInv, MainOK, InCall
  <2>2. cb[main.send] # "none"
    BY <2>1 DEF CountInv, UnitInv, Built
  <2> QED BY <1>n, <1>1, <2>1, <2>2, StepRelease DEF CallJsReturns
<1>4. CASE CallJsTells
  <2>1. main.send \in Sends /\ Telling(main.send) /\ main'.pc = "callback"
    BY <1>4 DEF CallJsTells, MainGoto, TInv, TypeOK, ThreadTypes, MainOK, Telling
  <2>2. told[main.send] = 0 /\ cb[main.send] # "none"
    BY <2>1 DEF SInv, SendInv, ToldInv, CallbackInv
  <2>3. StatusOf' = StatusOf /\ UNCHANGED Door /\ StatusOf[main.send] # "new"
    BY <1>4, <1>d, <2>1, <2>2, SameStatus DEF CallJsTells, StatusOf
  <2>4. CASE main.pc = "result"
    <3>1. OutcomeOf[main.send] = "decided"
      BY <2>1, <2>4 DEF OutcomeOf
    <3>2. OutcomeOf' = [OutcomeOf EXCEPT ![main.send] = "result"]
      BY <1>4, <2>1, <2>4 DEF CallJsTells, Tell, MainGoto, OutcomeOf, Reported, TInv, TypeOK,
                              SendTypes, ThreadTypes
    <3> QED BY <2>1, <2>3, <3>1, <3>2, ServiceSend DEF ServiceStep, Service!Next
  <2>5. CASE main.pc # "result"
    <3>1. main.pc = "cancelled"
      BY <1>4, <2>5 DEF CallJsTells
    <3>2. /\ OutcomeOf[main.send] = "none"
          /\ OutcomeOf' = [OutcomeOf EXCEPT ![main.send] = "error"]
      BY <1>4, <2>1, <2>2, <3>1, ToldOutcome DEF CallJsTells, Reported, ServeInv
    <3> QED BY <2>1, <2>3, <3>2, ServiceSend DEF ServiceStep, Service!Next
  <2> QED BY <2>4, <2>5
<1>2. ASSUME NEW s \in Sends, CallJs(s) PROVE ServiceStep
  <2>1. told[s] = 0 /\ tsfn[s] # "none" /\ ~released[s]
    BY <1>2 DEF CallJs, SInv, SendInv, ToldInv, TsfnInv, ServeInv, TellInv
  <2>2. cb[s] # "none"
    BY <2>1 DEF CountInv, UnitInv, Built
  <2>3. sgen[s] = gen => StatusOf[s] = "pending"
    <3>1. wiped => sgen[s] < gen
      BY <2>2 DEF ServeInv, TellInv, Bumped
    <3> QED BY <2>1, <2>2, <3>1 DEF StatusOf, TInv, TypeOK, SendTypes, ObjectTypes
  <2>4. OutcomeOf[s] = "none" /\ \A z \in Sends : OutcomeOf[z] # "decided"
    BY <1>2, <2>1 DEF CallJs, OutcomeOf, Reported, ServeInv, TellInv
  <2>5. StatusOf' = StatusOf /\ UNCHANGED Door
    BY <1>2, <1>d, SameStatus DEF CallJs
  <2>6. CASE sgen[s] = gen
    <3>1. OutcomeOf' = [OutcomeOf EXCEPT ![s] = "decided"]
      BY <1>2, <2>6 DEF CallJs, OutcomeOf
    <3> QED BY <2>3, <2>4, <2>5, <2>6, <3>1, ServiceSend DEF ServiceStep, Service!Next
  <2>7. CASE sgen[s] # gen
    <3>1. OutcomeOf' = OutcomeOf
      BY <1>2, <2>7 DEF CallJs, OutcomeOf
    <3> QED BY <2>5, <3>1, ServiceDoor DEF ServiceStep
  <2> QED BY <2>6, <2>7
<1>3. ASSUME NEW s \in Sends, Finalize(s) PROVE ServiceStep
  <2>1. cb[s] # "none"
    BY <1>3 DEF Finalize, CountInv, UnitInv, Built
  <2>2. CASE ~ReportsDeliveryError(s)
    BY <1>n, <1>3, <2>1, <2>2, StepRelease DEF Finalize
  <2>3. CASE ReportsDeliveryError(s)
    <3>1. told[s] = 0
      BY <2>3 DEF ReportsDeliveryError, SInv, SendInv, ToldInv
    <3>2. OutcomeOf[s] = "none" /\ OutcomeOf' = [OutcomeOf EXCEPT ![s] = "error"]
      BY <1>3, <2>3, <3>1, ToldOutcome DEF Finalize, Reported, ServeInv
    <3>3. UNCHANGED Door /\ UNCHANGED <<cb, wiped>>
      BY <1>3, <1>d DEF Finalize
    <3>4. CASE released[s]
      <4>1. StatusOf' = StatusOf /\ StatusOf[s] # "new"
        BY <1>3, <2>1, <3>3, <3>4, SameStatus DEF Finalize, ReleasePendingSend, StatusOf
      <4> QED BY <3>2, <3>3, <4>1, ServiceSend DEF ServiceStep, Service!Next
    <3>5. CASE ~released[s]
      <4>1. StatusOf[s] \in {"pending", "cancelled"}
            /\ StatusOf' = [StatusOf EXCEPT ![s] = "settled"]
        BY <1>3, <2>1, <3>3, <3>5, SettledStatus DEF Finalize, ReleasePendingSend
      <4> QED BY <3>2, <3>3, <4>1, ServiceSend DEF ServiceStep, Service!Next
    <3> QED BY <3>4, <3>5
  <2> QED BY <2>2, <2>3
<1> QED BY <1>1, <1>2, <1>3, <1>4

\* The SDK threads settle a send whose delivery failed, and tell nobody.
LEMMA StepSdk ==
  ASSUME AllInv, NEW s \in Sends, SdkEnters(s) \/ SdkThread(s), NoDecision
  PROVE  ServiceStep
<1>1. CASE SdkDeliveryFails(s)
  <2>1. cb[s] # "none"
    BY <1>1 DEF SdkDeliveryFails, AllInv, Inv, SInv, SendInv, CallbackInv
  <2> QED BY <1>1, <2>1, StepRelease DEF SdkDeliveryFails
<1>2. CASE ~SdkDeliveryFails(s)
  BY <1>2, QuietStep DEF SdkEnters, SdkThread, SdkClaims, SdkDelivers, SdkReleases, SdkPurges
<1> QED BY <1>1, <1>2

\* The second half of CancelPendingSends gives up on what is pending, or finds nothing.
LEMMA StepTake ==
  ASSUME AllInv, ServeInv, TimerTake \/ MainTake, NoDecision
  PROVE  ServiceStep
<1>0. wiped' = TRUE /\ UNCHANGED <<lifecycle, cb, released, verdict>>
  BY DEF TimerTake, MainTake, CancelTake
<1>1. StatusOf' = [s \in Sends |-> IF StatusOf[s] = "pending" THEN "cancelled" ELSE StatusOf[s]]
  BY <1>0 DEF StatusOf
<1>2. UNCHANGED <<Door, OutcomeOf>>
  BY <1>0, SameOutcome DEF Door
<1>3. CASE lifecycle = "ShuttingDown"
  <2>1. Door = "closing"
    BY <1>3 DEF Door
  <2> QED BY <1>1, <1>2, <2>1, ServiceDoor DEF ServiceStep, Service!Next
<1>4. CASE lifecycle # "ShuttingDown"
  <2>1. Drained
    <3>1. CASE TimerTake
      BY <1>4, <3>1 DEF TimerTake, ServeInv, TimerInv
    <3>2. CASE MainTake
      <4>1. main.op = "dtor" /\ pinned = {}
        BY <1>4, <3>2 DEF MainTake, ServeInv, HookInv, AllInv, WaitInv, PcInv, WhoInv, EndInv,
                          DestroyInv, Inv, TInv, TypeOK, ThreadTypes, MainOK, MainOps, SendPcs
      <4> QED BY <4>1, UnpinnedDrained DEF Drained
    <3> QED BY <3>1, <3>2
  <2>2. \A s \in Sends : StatusOf[s] # "pending"
    BY <2>1 DEF Drained, Unreleased, Admitted, StatusOf
  <2>3. StatusOf' = StatusOf
    BY <1>1, <2>2 DEF StatusOf
  <2> QED BY <1>2, <2>3, ServiceDoor DEF ServiceStep
<1> QED BY <1>3, <1>4

\* A send is admitted while the service is open.
LEMMA StepAdmit ==
  ASSUME AllInv, NEW s \in Sends, SendAdmit(s), NoDecision
  PROVE  ServiceStep
<1>1. ~wiped /\ ~released[s]
  BY DEF SendAdmit, TakesSends, AllInv, WaitInv, OpenInv, Closed, CountInv, UnitInv
<1>2. Door = "open" /\ StatusOf[s] = "new" /\ UNCHANGED <<Door, OutcomeOf>>
  BY SameOutcome DEF SendAdmit, TakesSends, Door, StatusOf
<1>3. StatusOf' = [StatusOf EXCEPT ![s] = "pending"]
  BY <1>1 DEF SendAdmit, StatusOf, AllInv, Inv, TInv, TypeOK, SendTypes
<1> QED BY <1>2, <1>3, ServiceSend DEF ServiceStep, Service!Next

\* The service opens, begins to close, and closes when nothing is pending.
LEMMA StepDoor ==
  ASSUME AllInv, ServeInv, Start \/ Shutdown \/ Destroy \/ StartPublish \/ ShutPublish,
         NoDecision
  PROVE  ServiceStep
<1>0. UNCHANGED <<StatusOf, OutcomeOf>>
  BY SameOutcome DEF Start, Shutdown, Destroy, StartPublish, ShutPublish, StatusOf
<1>c. ASSUME Drained, Door' = "closed" PROVE ServiceStep
  <2>1. \A s \in Sends : StatusOf[s] # "pending"
    BY <1>c DEF Drained, Unreleased, Admitted, StatusOf
  <2> QED BY <1>0, <1>c, <2>1, ServiceDoor DEF ServiceStep, Service!Next
<1>1. CASE Start
  <2>1. Door' = Door
    BY <1>1 DEF Start, Door
  <2> QED BY <1>0, <2>1, ServiceDoor DEF ServiceStep
<1>2. CASE Shutdown
  <2>1. Door = "open" /\ Door' = "closing"
    BY <1>2 DEF Shutdown, Door
  <2> QED BY <1>0, <2>1, ServiceDoor DEF ServiceStep, Service!Next
<1>3. CASE Destroy
  <2>1. Unreleased = {}
    BY <1>3, UnpinnedDrained DEF Destroy
  <2>2. Door' = "closed"
    BY <1>3 DEF Destroy, Door
  <2> QED BY <1>c, <2>1, <2>2 DEF Drained
<1>4. CASE StartPublish
  <2>1. lifecycle = "Starting"
    BY <1>4 DEF StartPublish, AllInv, WaitInv, OpenInv, WhoInv, ServeInv, HookInv
  <2>2. Unreleased = {}
    BY <2>1 DEF Unreleased, Admitted, AllInv, WaitInv, OpenInv
  <2>3. CASE start.ok
    <3>1. Door = "shut" /\ Door' = "open"
      BY <1>4, <2>1, <2>3 DEF StartPublish, Door
    <3> QED BY <1>0, <3>1, ServiceDoor DEF ServiceStep, Service!Next
  <2>4. CASE ~start.ok
    <3>1. Door' = "closed"
      BY <1>4, <2>1, <2>4 DEF StartPublish, Door
    <3> QED BY <1>c, <2>2, <3>1 DEF Drained
  <2> QED BY <2>3, <2>4
<1>5. CASE ShutPublish
  <2>1. Drained
    BY <1>5 DEF ShutPublish, AllInv, WaitInv, DrainInv
  <2>2. Door' = "closed" \/ Door' = Door
    BY <1>5 DEF ShutPublish, Door
  <2> QED BY <1>0, <1>c, <2>1, <2>2, ServiceDoor DEF ServiceStep
<1> QED BY <1>1, <1>2, <1>3, <1>4, <1>5

\* Deleting the tracked callbacks changes nothing of the service.
LEMMA StepDelete ==
  ASSUME AllInv, DestroyCallbacks(Orphans), NoDecision,
         UNCHANGED <<lifecycle, released, wiped, verdict>>
  PROVE  ServiceStep
<1>1. \A s \in Sends : cb'[s] = "none" <=> cb[s] = "none"
  BY DEF DestroyCallbacks, Orphans, AllInv, Inv, SInv, SendInv, CallbackInv
<1> QED BY <1>1, QuietStep

\* Every step but the two in which CallJs decides and tells.
LEMMA StepUndecided ==
  ASSUME ~TestHooks, AllInv, ServeInv, [Next]_vars, NoDecision
  PROVE  ServiceStep
<1>1. CASE ShutdownRetry \/ DropReference \/ ForceDestroy \/ ShutdownStep \/ UNCHANGED vars
  BY <1>1, QuietStep DEF ShutdownRetry, DropReference, ForceDestroy, ShutdownStep,
                         ShutdownEnqueue, ShutdownQueueFails
<1>2. CASE MainCommon
  <2>1. CASE MainDelete
    BY <2>1, StepDelete DEF MainDelete
  <2>2. CASE MainTake
    BY <2>2, StepTake
  <2>3. CASE \/ MainBump \/ MainAbort \/ MainJoin \/ MainJoined \/ MainFlag \/ MainStopLock
             \/ MainStop \/ MainMembers
    BY <2>3, QuietStep DEF MainBump, MainAbort, MainJoin, MainJoined, MainFlag, MainStopLock,
                           MainStop, MainMembers
  <2> QED BY <1>2, <2>1, <2>2, <2>3 DEF MainCommon
<1>3. CASE StartWorker \/ StartCompletes
  <2>1. CASE ~StartPublish
    BY <1>3, <2>1, QuietStep DEF StartWorker, StartCheck, StartLock, StartCall, StartFlag,
                                 StartStopLock, StartStop, StartCompletes
  <2> QED BY <2>1, StepDoor
<1>4. CASE ShutdownWorker \/ ShutCompletes
  <2>1. CASE ShutDelete
    BY <2>1, StepDelete DEF ShutDelete
  <2>2. CASE ~ShutDelete /\ ~ShutPublish
    BY <1>4, <2>2, QuietStep DEF ShutdownWorker, ShutCheck, ShutJoin, ShutJoined, ShutFlag,
                                 ShutStopLock, ShutStop, ShutCompletes
  <2> QED BY <2>1, <2>2, StepDoor
<1>5. CASE TimerStep
  <2>1. CASE ~TimerTake
    BY <1>5, <2>1, QuietStep DEF TimerStep, TimerDone, TimerTimeout, TimerBump, TimerAbort
  <2> QED BY <2>1, StepTake
<1> QED BY <1>1, <1>2, <1>3, <1>4, <1>5, StepAdmit, StepDoor, StepSend, StepTsfn, StepSdk
        DEF Next, Application, MainThread, Finished

\* Every step.
LEMMA StepNext ==
  ASSUME ~TestHooks, AllInv, ServeInv, [Next]_vars
  PROVE  ServiceStep
BY StepUndecided, DecidedInCallJs, StepTsfn

\* The service starts as the producer does.
LEMMA StepInit == Init => Service!Init
BY DEF Init, Idle, Service!Init

\* The native producer implements SendService: it closes only when no admitted send is
\* still pending, gives up on sends only while it shuts down, and reports each send at
\* most once; a result is reported only of a send that was not given up when CallJs
\* compared the generations, and that is one send at a time (Send, Shutdown, CallJs,
\* Finalize and the cancel timer of lib/producer.cpp, built without test hooks).
THEOREM Sending == ASSUME ~TestHooks PROVE SafetySpec => ImplementsSendService
<1>1. AllInv /\ ServeInv /\ [Next]_vars => ServeInv'
  BY HookNext, TimerNext, TellNext DEF ServeInv
<1>2. SafetySpec => []AllInv
  BY AllInvHolds
<1>3. SafetySpec => []ServeInv
  BY <1>1, <1>2, ServeInvInit, PTL DEF SafetySpec
<1>4. AllInv /\ ServeInv /\ [Next]_vars => [Service!Next]_(Service!vars)
  BY StepNext DEF ServiceStep
<1> QED BY <1>2, <1>3, <1>4, StepInit, PTL DEF SafetySpec, ImplementsSendService, Service!Spec

-----------------------------------------------------------------------------
(* No callback is used after it was deleted.                               *)

\* The build and the use under which a callback is never deleted under a thread.
OwnAndQuiet == ~TestHooks /\ ~Reentrant /\ ~SharedInstance /\ ~SdkStopThrows

\* The SDK calls back while it runs, and it calls callbacks that are live.
CallsInv == \A s \in Sends : sdk[s] \in InCallback \cup {"accepted"} =>
                cb[s] = "live" /\ sdkState = "running"

\* Send holds a live callback, before a shutdown begins.
HoldInv ==
    /\ main.op = "send" => lifecycle = "Started" /\ (main.pc # "build" => cb[main.send] = "live")
    /\ main.ret # "build"

\* Who deletes the callbacks has stopped the SDK, or found it stopped.
StopInv ==
    /\ lifecycle = "Idle" \/ start.pc \in {"queued", "lock", "call"} => sdkState = "fresh"
    /\ start.pc \notin {"flag", "stopLock", "stop"}
    /\ sdkFlag => /\ Closed
                  /\ \/ sdkState # "running"
                     \/ main.op = "dtor" /\ main.pc \in {"sdkLock", "sdkStop"}
    /\ shut.pc = "delete" => sdkState # "running"
    /\ main.op = "dtor" /\ main.pc \in {"bump", "take", "abort", "join", "joining", "delete"} =>
         sdkState # "running"

UseInv == CallsInv /\ HoldInv /\ StopInv

\* The SDK has no callback and does not run at first.
LEMMA UseInvInit == Init => UseInv
BY DEF Init, Idle, UseInv, CallsInv, HoldInv, StopInv, InCallback

\* A step that leaves the SDK and the callbacks alone.
LEMMA UseSame ==
  ASSUME AllInv, UseInv, UNCHANGED <<lifecycle, sdkFlag, sdkState, start, shut, cb>>,
         \A s \in Sends : sdk'[s] \in InCallback \cup {"accepted"} =>
                            sdk[s] \in InCallback \cup {"accepted"},
         \/ UNCHANGED main
         \/ main.op # "dtor" /\ main'.op \notin {"send", "dtor"} /\ main'.ret # "build"
  PROVE  UseInv'
BY DEF UseInv, CallsInv, HoldInv, StopInv, Closed

\* Send.
LEMMA UseSend ==
  ASSUME OwnAndQuiet, AllInv, UseInv, SendStep
  PROVE  UseInv'
<1> USE DEF AllInv, Inv, TInv, TypeOK, ThreadTypes, SendTypes, MainAt, UseInv, HoldInv
<1> DEFINE m == main.send
<1>0. main.op = "send" => m \in Sends /\ lifecycle = "Started" /\ main.ret = "loop"
  BY DEF MainOK
<1>c. main.op = "send" => sdk[m] = "none"
  <2>1. main.op = "send" => Building(m) \/ Holding(m)
    BY DEF MainOK, SendPcs, Building, Holding
  <2> QED BY <1>0, <2>1 DEF SInv, SendInv, CallbackInv
<1>u. ASSUME main.op = "send", SendUnwind(m) PROVE UseInv'
  <2>1. /\ main' = Idle("none") /\ UNCHANGED <<lifecycle, sdkFlag, sdkState, start, shut, sdk>>
        /\ \A s \in Sends : s # m => cb'[s] = cb[s]
    BY <1>u DEF SendUnwind, DestroyCallbacks
  <2> QED BY <1>u, <1>0, <1>c, <2>1 DEF Idle, CallsInv, StopInv, Closed, InCallback
<1>1. CASE SendBuildFails
  <2>1. /\ main' = Idle("none") /\ UNCHANGED <<lifecycle, sdkFlag, sdkState, start, shut, sdk>>
        /\ main.op = "send" /\ \A s \in Sends : s # m => cb'[s] = cb[s]
    BY <1>1 DEF SendBuildFails
  <2> QED BY <1>0, <1>c, <2>1 DEF Idle, CallsInv, StopInv, Closed, InCallback
<1>2. CASE SendConstruct
  <2>1. /\ main.op = "send" /\ main' = [main EXCEPT !.pc = "check"]
        /\ UNCHANGED <<lifecycle, sdkFlag, sdkState, start, shut, sdk>>
        /\ cb' = [cb EXCEPT ![m] = "live"]
    BY <1>2 DEF SendConstruct, MainGoto
  <2> QED BY <1>0, <1>c, <2>1 DEF CallsInv, StopInv, Closed, InCallback
<1>3. CASE SendCheckGeneration
  <2>1. CASE SendUnwind(m)
    BY <1>3, <1>u, <2>1 DEF SendCheckGeneration
  <2>2. CASE ~SendUnwind(m)
    <3>1. /\ main.op = "send" /\ main.pc = "check" /\ main' = [main EXCEPT !.pc = "lock"]
          /\ UNCHANGED <<lifecycle, sdkFlag, sdkState, start, shut, sdk, cb>>
      BY <1>3, <2>2 DEF SendCheckGeneration, MainGoto
    <3> QED BY <3>1 DEF CallsInv, StopInv, Closed
  <2> QED BY <2>1, <2>2
<1>4. CASE SendLock
  BY <1>4 DEF SendLock, MainGoto, CallsInv, StopInv, Closed
<1>5. CASE SendAccepted
  <2>1. /\ main.op = "send" /\ main.pc = "call" /\ main' = Idle("none")
        /\ UNCHANGED <<lifecycle, sdkFlag, sdkState, start, shut, cb>>
        /\ sdk' = [sdk EXCEPT ![m] = IF sdkState = "running" THEN "accepted" ELSE "dropped"]
    BY <1>5 DEF SendAccepted, SdkGoto
  <2>2. cb[m] = "live"
    BY <2>1
  <2> QED BY <1>0, <2>1, <2>2 DEF Idle, CallsInv, StopInv, Closed, InCallback
<1>6. CASE SendThrows
  BY <1>6, <1>u DEF SendThrows
<1> QED BY <1>1, <1>2, <1>3, <1>4, <1>5, <1>6 DEF SendStep

\* The steps of the TSFN and of the SDK threads.
LEMMA UseCallbacks ==
  ASSUME AllInv, UseInv,
         \/ CallJsTells \/ CallJsReturns \/ \E s \in Sends : CallJs(s) \/ Finalize(s)
         \/ \E s \in Sends : SdkEnters(s) \/ SdkThread(s)
  PROVE  UseInv'
<1> USE DEF AllInv, Inv, TInv, TypeOK, SendTypes, ThreadTypes
<1>1. CASE CallJsTells \/ CallJsReturns
  BY <1>1, UseSame DEF CallJsTells, CallJsReturns, MainGoto, MainAt, Idle, MainOK
<1>2. CASE \E s \in Sends : CallJs(s)
  BY <1>2, UseSame DEF CallJs, MainOK
<1>3. CASE \E s \in Sends : Finalize(s)
  BY <1>3, UseSame DEF Finalize
<1>4. CASE \E s \in Sends : SdkEnters(s) \/ SdkThread(s)
  BY <1>4, UseSame DEF SdkEnters, SdkThread, SdkClaims, SdkDelivers, SdkDeliveryFails,
                       SdkReleases, SdkPurges, SdkGoto, InCallback
<1> QED BY <1>1, <1>2, <1>3, <1>4

\* What the application asks for.
LEMMA UseApplication ==
  ASSUME OwnAndQuiet, AllInv, UseInv, Application
  PROVE  UseInv'
<1> USE DEF AllInv, Inv, TInv, TypeOK, ThreadTypes, SendTypes, OwnAndQuiet
<1>1. CASE Start
  BY <1>1 DEF Start, UseInv, CallsInv, HoldInv, StopInv, Closed, MainOK
<1>2. CASE Shutdown
  <2>1. /\ main' = [main EXCEPT !.op = "shutdown", !.pc = "enqueue", !.ret = main.pc]
        /\ main.pc \in {"loop", "callback"} /\ lifecycle = "Started"
        /\ lifecycle' = "ShuttingDown" /\ UNCHANGED <<sdkFlag, sdkState, start, shut, cb, sdk>>
    BY <1>2 DEF Shutdown, ShutdownPoints
  <2>2. main'.op = "shutdown" /\ main'.ret # "build" /\ main.op # "dtor"
    BY <2>1 DEF WaitInv, PcInv
  <2> QED BY <2>1, <2>2 DEF UseInv, CallsInv, HoldInv, StopInv, Closed
<1>3. CASE ShutdownRetry
  <2>1. /\ main' = [main EXCEPT !.op = "shutdown", !.pc = "join", !.ret = main.pc]
        /\ main.pc \in {"loop", "callback"}
        /\ UNCHANGED <<lifecycle, sdkFlag, sdkState, start, shut, cb, sdk>>
    BY <1>3 DEF ShutdownRetry, ShutdownPoints
  <2>2. main'.op = "shutdown" /\ main'.ret # "build" /\ main.op # "dtor"
    BY <2>1 DEF WaitInv, PcInv
  <2> QED BY <2>1, <2>2, UseSame
<1>4. CASE ForceDestroy \/ DropReference
  BY <1>4, UseSame DEF ForceDestroy, DropReference
<1>5. CASE Destroy
  <2>1. /\ main'.op = "dtor" /\ main'.pc \in {"members", "flag"} /\ main'.ret = main.ret
        /\ lifecycle' = "Destroyed" /\ main.pc = "loop" /\ start.pc = "none" /\ shut.pc = "none"
        /\ UNCHANGED <<sdkFlag, sdkState, start, shut, cb, sdk>>
    BY <1>5 DEF Destroy
  <2>2. main.op # "dtor"
    BY <2>1 DEF WaitInv, PcInv
  <2> QED BY <2>1, <2>2 DEF UseInv, CallsInv, HoldInv, StopInv, Closed
<1>6. ASSUME NEW s \in Sends, SendAdmit(s) PROVE UseInv'
  <2>1. /\ main' = [op |-> "send", pc |-> "build", send |-> s, ret |-> "loop"]
        /\ lifecycle = "Started" /\ cb[s] = "none" /\ main.pc = "loop"
        /\ UNCHANGED <<lifecycle, sdkFlag, sdkState, start, shut, sdk>>
        /\ \A z \in Sends : z # s => cb'[z] = cb[z]
    BY <1>6 DEF SendAdmit, TakesSends
  <2>2. sdk[s] = "none"
    BY <2>1 DEF SInv, SendInv, CallbackInv
  <2> QED BY <2>1, <2>2 DEF UseInv, CallsInv, HoldInv, StopInv, Closed, InCallback
<1> QED BY <1>1, <1>2, <1>3, <1>4, <1>5, <1>6 DEF Application

\* Stopping the SDK, without another client and without an exception.
LEMMA SdkStopped ==
  ASSUME OwnAndQuiet, AllInv, CallsInv, SdkStop \/ SdkStopFails
  PROVE  /\ sdkState' # "running" /\ (sdkState = "fresh" => sdkState' = "fresh")
         /\ \A s \in Sends : sdk'[s] \notin InCallback \cup {"accepted"}
BY DEF OwnAndQuiet, AllInv, Inv, TInv, TypeOK, ObjectTypes, SendTypes, CallsInv, SdkStop,
       SdkStopFails, InCallback

\* Deleting the tracked callbacks while the SDK does not run and Send holds none.
LEMMA UseDelete ==
  ASSUME CallsInv, sdkState # "running", UNCHANGED <<sdk, sdkState>>
  PROVE  CallsInv'
BY DEF CallsInv

\* The main thread in a shutdown or a destruction.
LEMMA UseMain ==
  ASSUME OwnAndQuiet, AllInv, HookInv, UseInv, ShutdownStep \/ MainCommon
  PROVE  UseInv'
<1> USE DEF AllInv, Inv, TInv, TypeOK, ThreadTypes, HookInv
<1>1. CASE ShutdownEnqueue
  BY <1>1 DEF ShutdownEnqueue, MainAt, Returned, UseInv, CallsInv, HoldInv, StopInv, Closed
<1>2. CASE ShutdownQueueFails
  BY <1>2, UseSame DEF ShutdownQueueFails, MainAt, UseInv, HoldInv
<1>3. CASE MainBump \/ MainTake \/ MainAbort
  BY <1>3 DEF MainBump, MainTake, MainAbort, MainGoto, MainOK, SendPcs, UseInv, CallsInv,
              HoldInv, StopInv, Closed
<1>4. CASE MainJoin \/ MainJoined
  <2>1. /\ UNCHANGED <<lifecycle, sdkFlag, sdkState, start, shut, cb, sdk>>
        /\ main.pc \in {"join", "joining"}
    BY <1>4 DEF MainJoin, MainJoined
  <2>2. CASE main.op = "dtor"
    <3>1. main'.op = "dtor" /\ main'.pc \in {"joining", "delete"} /\ main'.ret = main.ret
      BY <1>4, <2>2 DEF MainJoin, MainJoined, AfterJoin, MainGoto
    <3>2. sdkState # "running"
      BY <2>1, <2>2 DEF UseInv, StopInv
    <3> QED BY <2>1, <2>2, <3>1, <3>2 DEF UseInv, CallsInv, HoldInv, StopInv, Closed
  <2>3. CASE main.op # "dtor"
    <3>1. main.ret # "build" /\ main.op # "send"
      BY <2>1 DEF UseInv, HoldInv, MainOK, SendPcs
    <3>2. main'.op \notin {"send", "dtor"} /\ main'.ret # "build"
      <4>1. CASE MainJoin
        BY <2>3, <3>1, <4>1 DEF MainJoin, AfterJoin, MainGoto, Returned
      <4>2. CASE MainJoined
        BY <2>3, <3>1, <4>2 DEF MainJoined, AfterJoin, MainGoto, Returned
      <4> QED BY <1>4, <4>1, <4>2
    <3> QED BY <2>1, <2>3, <3>2, UseSame
  <2> QED BY <2>2, <2>3
<1>5. CASE MainFlag
  <2>1. main.op = "dtor" /\ main.pc = "flag"
    BY <1>5 DEF MainFlag, WaitInv, PcInv, MainOK, MainOps, SendPcs
  <2>2. /\ main'.op = "dtor" /\ main'.ret = main.ret /\ sdkFlag' = TRUE
        /\ main'.pc = IF sdkFlag THEN "bump" ELSE "sdkLock"
        /\ UNCHANGED <<lifecycle, sdkState, start, shut, cb, sdk>>
    BY <1>5, <2>1 DEF MainFlag, AfterStop, MainGoto
  <2>3. lifecycle = "Destroyed" /\ (sdkFlag => sdkState # "running")
    BY <2>1 DEF WaitInv, WhoInv, UseInv, StopInv
  <2> QED BY <2>1, <2>2, <2>3 DEF UseInv, CallsInv, HoldInv, StopInv, Closed
<1>6. CASE MainStopLock
  BY <1>6 DEF MainStopLock, MainGoto, WaitInv, PcInv, MainOK, UseInv, CallsInv, HoldInv, StopInv,
              Closed
<1>7. CASE MainStop \/ MainMembers
  <2>1. /\ sdkState' # "running" /\ (sdkState = "fresh" => sdkState' = "fresh")
        /\ \A s \in Sends : sdk'[s] \notin InCallback \cup {"accepted"}
    BY <1>7, SdkStopped DEF MainStop, MainMembers, UseInv
  <2>2. /\ UNCHANGED <<lifecycle, sdkFlag, start, shut, cb>>
        /\ main'.op = main.op /\ main'.ret = main.ret /\ main.op # "send"
    BY <1>7 DEF MainStop, MainMembers, AfterStop, MainGoto, MainOK, SendPcs
  <2> QED BY <2>1, <2>2 DEF UseInv, CallsInv, HoldInv, StopInv, Closed
<1>8. CASE MainDelete
  <2>1. main.op = "dtor" /\ main.pc = "delete" /\ main' = [main EXCEPT !.pc = "members"]
    BY <1>8 DEF MainDelete, MainGoto, WaitInv, PcInv, MainOK, MainOps, SendPcs
  <2>2. UNCHANGED <<lifecycle, sdkFlag, sdkState, start, shut, sdk>>
    BY <1>8 DEF MainDelete
  <2>3. sdkState # "running"
    BY <2>1 DEF UseInv, StopInv
  <2> QED BY <2>1, <2>2, <2>3, UseDelete DEF UseInv, HoldInv, StopInv, Closed
<1> QED BY <1>1, <1>2, <1>3, <1>4, <1>5, <1>6, <1>7, <1>8 DEF ShutdownStep, MainCommon

\* The start worker.
LEMMA UseStart ==
  ASSUME OwnAndQuiet, AllInv, HookInv, UseInv, StartWorker \/ StartCompletes
  PROVE  UseInv'
<1> USE DEF AllInv, Inv, TInv, TypeOK, ThreadTypes, HookInv, UseInv, CallsInv, HoldInv, StopInv,
            Closed, WaitInv, StartGoto
<1>1. CASE StartCheck \/ StartLock
  BY <1>1 DEF StartCheck, StartLock
<1>2. CASE StartCall
  <2>1. lifecycle = "Starting" /\ start.pc = "call"
    BY <1>2 DEF StartCall, OpenInv, WhoInv
  <2>2. shut.pc = "none" /\ main.op # "dtor" /\ ~sdkFlag
    BY <2>1 DEF OpenInv
  <2>3. \A s \in Sends : sdk[s] \notin InCallback \cup {"accepted"}
    BY <2>1 DEF OpenInv, SInv, SendInv, CallbackInv, InCallback
  <2> QED BY <1>2, <2>1, <2>2, <2>3 DEF StartCall
<1>3. CASE StartPublish
  BY <1>3 DEF StartPublish, OpenInv, WhoInv
<1>4. CASE StartFlag \/ StartStopLock \/ StartStop
  BY <1>4 DEF StartFlag, StartStopLock, StartStop
<1>5. CASE StartCompletes
  BY <1>5 DEF StartCompletes
<1> QED BY <1>1, <1>2, <1>3, <1>4, <1>5 DEF StartWorker

\* The shutdown worker.
LEMMA UseShut ==
  ASSUME OwnAndQuiet, AllInv, UseInv, ShutdownWorker \/ ShutCompletes
  PROVE  UseInv'
<1> USE DEF AllInv, Inv, TInv, TypeOK, ThreadTypes, WaitInv, ShutGoto
<1>0. shut.pc # "none" => Closed /\ main.op \notin {"send", "dtor"}
  BY DEF UseInv, HoldInv, OpenInv, WhoInv, Closed
<1>1. CASE ShutCheck \/ ShutJoin \/ ShutJoined \/ ShutStopLock \/ ShutCompletes
  BY <1>1 DEF ShutCheck, ShutJoin, ShutJoined, ShutStopLock, ShutCompletes, UseInv, CallsInv,
              HoldInv, StopInv, Closed
<1>2. CASE ShutFlag
  BY <1>0, <1>2 DEF ShutFlag, SdkCallIsDone, UseInv, CallsInv, HoldInv, StopInv, Closed
<1>3. CASE ShutStop
  <2>1. /\ sdkState' # "running" /\ (sdkState = "fresh" => sdkState' = "fresh")
        /\ \A s \in Sends : sdk'[s] \notin InCallback \cup {"accepted"}
    BY <1>3, SdkStopped DEF ShutStop, UseInv
  <2>2. UNCHANGED <<lifecycle, start, main, cb>> /\ Closed
    BY <1>3, <1>0 DEF ShutStop
  <2> QED BY <2>1, <2>2 DEF UseInv, CallsInv, HoldInv, StopInv, Closed
<1>4. CASE ShutDelete
  <2>1. sdkState # "running" /\ shut'.pc = "publish" /\ main.op # "send"
        /\ UNCHANGED <<lifecycle, sdkFlag, sdkState, start, main, sdk>>
    BY <1>0, <1>4 DEF ShutDelete, UseInv, StopInv
  <2> QED BY <2>1, UseDelete DEF UseInv, HoldInv, StopInv, Closed
<1>5. CASE ShutPublish
  BY <1>0, <1>5 DEF ShutPublish, UseInv, CallsInv, HoldInv, StopInv, Closed
<1> QED BY <1>1, <1>2, <1>3, <1>4, <1>5 DEF ShutdownWorker

\* Every step.
LEMMA UseNext ==
  ASSUME OwnAndQuiet, AllInv, HookInv, UseInv, [Next]_vars
  PROVE  UseInv'
<1>1. CASE TimerStep \/ UNCHANGED vars
  BY <1>1, UseSame DEF TimerStep, TimerDone, TimerTimeout, TimerBump, TimerTake, TimerAbort
<1> QED BY <1>1, UseSend, UseCallbacks, UseApplication, UseMain, UseStart, UseShut
        DEF Next, MainThread, Finished

\* For a producer on an MQClientInstance of its own, whose SDK shutdown does not throw,
\* used by code whose option getters do not call shutdown(): no thread is inside a
\* callback, and Send holds none, that DeleteOrphanedCallbacks has deleted.
THEOREM CallbacksOutliveTheirUse ==
  ASSUME OwnAndQuiet PROVE SafetySpec => []NoUseAfterDelete
<1>1. AllInv /\ HookInv /\ UseInv /\ [Next]_vars => HookInv' /\ UseInv'
  BY HookNext, UseNext DEF OwnAndQuiet
<1>2. SafetySpec => []AllInv
  BY AllInvHolds
<1>3. Init => HookInv /\ UseInv
  BY ServeInvInit, UseInvInit DEF ServeInv
<1>4. UseInv => NoUseAfterDelete
  BY DEF UseInv, CallsInv, HoldInv, NoUseAfterDelete
<1> QED BY <1>1, <1>2, <1>3, <1>4, PTL DEF SafetySpec
=============================================================================
