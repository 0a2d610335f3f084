----------------------- MODULE ProducerShutdown_proofs -----------------------
(***************************************************************************)
(* Shutdown of the native producer: the pending count is exact, the        *)
(* shutdown worker waits for every admitted send or for the cancel timer,  *)
(* the destroyed object leaves nothing behind, and no thread stands in the *)
(* way of all the others or runs in circles.                               *)
(***************************************************************************)
EXTENDS ProducerNative_proofs, FiniteSetTheorems

USE DEF vars, objectVars, sendVars, workerVars, lifeVars, countVars, listVars,
        sdkVars, envVars, ctxVars, tsfnVars

-----------------------------------------------------------------------------
(* The pending count.                                                      *)

Built(s) == cb[s] \in {"live", "deleted"}

\* What the main thread does in CallJs.
CallPcs == {"result", "cancelled", "callback"}
USE DEF CallPcs

\* CallJs of s tells its outcome or runs its callback, also while that calls shutdown().
InCall(s) == main.send = s /\ (main.pc \in CallPcs \/ main.ret = "callback")

\* What gives back the unit of a send belongs to a send that was admitted.
UnitInv(s) ==
    /\ cb[s] \in {"none", "building"} => ~released[s]
    /\ cb[s] = "unbuilt" => released[s]
    /\ tsfn[s] # "none" => Built(s)
    /\ s \in handles \cup taken["main"] \cup taken["timer"] => Built(s)
    /\ InCall(s) => Built(s)

CountInv == (\A s \in Sends : UnitInv(s)) /\ PendingCountExact

\* No send is admitted and the count is zero at first.
LEMMA CountInvInit == Init => CountInv
<1> SUFFICES ASSUME Init PROVE CountInv
  OBVIOUS
<1>1. \A s \in Sends : UnitInv(s)
  BY DEF Init, UnitInv, InCall, Idle, Cancellers
<1>2. Unreleased = {} /\ pending = 0
  BY DEF Init, Unreleased, Admitted
<1> QED BY <1>1, <1>2, FS_EmptySet DEF CountInv, PendingCountExact

\* There are finitely many sends, so that they can be counted.
LEMMA UnreleasedFinite == IsFiniteSet(Unreleased)
BY SendsAssumption, FS_Subset DEF Unreleased, Admitted

\* A step that admits and gives back nothing.
LEMMA CountSame ==
  ASSUME PendingCountExact, released' = released,
         \A s \in Sends : cb'[s] = "none" <=> cb[s] = "none",
         wiped' \/ UNCHANGED <<pending, wiped>>
  PROVE  PendingCountExact'
<1>1. Unreleased' = Unreleased
  BY DEF Unreleased, Admitted
<1> QED BY <1>1 DEF PendingCountExact

\* A step that gives back the unit of one admitted send.
LEMMA CountLess ==
  ASSUME TInv, PendingCountExact, NEW s \in Unreleased, Decrement, wiped' = wiped,
         released' = [released EXCEPT ![s] = TRUE],
         \A z \in Sends : cb'[z] = "none" <=> cb[z] = "none"
  PROVE  PendingCountExact'
<1>1. Unreleased' = Unreleased \ {s}
  BY DEF Unreleased, Admitted, TInv, TypeOK, SendTypes
<1>2. Cardinality(Unreleased') = Cardinality(Unreleased) - 1 /\ Cardinality(Unreleased) # 0
  BY <1>1, UnreleasedFinite, FS_RemoveElement, FS_EmptySet
<1>3. Cardinality(Unreleased) \in Nat
  BY UnreleasedFinite, FS_CardinalityType
<1> QED BY <1>2, <1>3 DEF PendingCountExact, Decrement

\* ReleasePendingSend of an admitted send, the first time or again.
LEMMA CountRelease ==
  ASSUME TInv, PendingCountExact, NEW s \in Sends, cb[s] # "none", ReleasePendingSend(s),
         UNCHANGED <<cb, wiped>>
  PROVE  PendingCountExact'
<1>1. CASE released[s]
  BY <1>1, CountSame DEF ReleasePendingSend
<1>2. CASE ~released[s]
  <2>1. s \in Unreleased
    BY <1>2 DEF Unreleased, Admitted
  <2> QED BY <1>2, <2>1, CountLess DEF ReleasePendingSend
<1> QED BY <1>1, <1>2

\* Send() adds one to the count and one send to those it counts.
LEMMA CountAdmit ==
  ASSUME TInv, CountInv, NEW s \in Sends, SendAdmit(s)
  PROVE  PendingCountExact'
<1>1. Unreleased' = Unreleased \cup {s} /\ s \notin Unreleased
  BY DEF SendAdmit, Unreleased, Admitted, CountInv, UnitInv, TInv, TypeOK, SendTypes
<1>2. Cardinality(Unreleased') = Cardinality(Unreleased) + 1
  BY <1>1, UnreleasedFinite, FS_AddElement
<1> QED BY <1>2 DEF SendAdmit, CountInv, PendingCountExact

-----------------------------------------------------------------------------
(* The units, group by group.                                              *)

\* Aborted TSFNs belong to constructed callbacks.
LEMMA UnitAbort ==
  ASSUME TInv, NEW S \in SUBSET Sends, \A s \in S : Built(s), NEW z \in Sends, UnitInv(z),
         AbortTsfns(S), UNCHANGED released, InCall(z)' => InCall(z),
         \A s \in handles' \cup taken'["main"] \cup taken'["timer"] :
            s \in handles \cup taken["main"] \cup taken["timer"],
         cb' = [s \in Sends |-> IF s \in S THEN "deleted" ELSE cb[s]] \/ UNCHANGED cb
  PROVE  UnitInv(z)'
BY DEF UnitInv, Built, AbortTsfns, Unclaimed, TInv, TypeOK, SendTypes

\* Steps that touch no send.
LEMMA UnitSame ==
  ASSUME NEW z \in Sends, UnitInv(z), UNCHANGED <<cb, tsfn, released>>,
         InCall(z)' => InCall(z),
         \A s \in handles' \cup taken'["main"] \cup taken'["timer"] :
            s \in handles \cup taken["main"] \cup taken["timer"]
  PROVE  UnitInv(z)'
BY DEF UnitInv, Built

\* The cancel timer only aborts what was constructed.
LEMMA UnitTimer == ASSUME Inv, CountInv, TimerStep PROVE CountInv'
<1> USE DEF CountInv, InCall
<1>1. CASE TimerDone \/ TimerTimeout \/ TimerBump
  BY <1>1, UnitSame, CountSame DEF TimerDone, TimerTimeout, TimerBump
<1>2. CASE TimerTake
  <2>1. /\ taken'["timer"] = handles /\ handles' = {} /\ taken'["main"] = taken["main"]
        /\ wiped'
    BY <1>2 DEF TimerTake, CancelTake, Inv, TInv, TypeOK, ObjectTypes, Cancellers
  <2> QED BY <1>2, <2>1, UnitSame, CountSame DEF TimerTake
<1>3. CASE TimerAbort
  <2>1. /\ taken["timer"] \in SUBSET Sends /\ AbortTsfns(taken["timer"])
        /\ taken'["timer"] = {} /\ taken'["main"] = taken["main"]
    BY <1>3 DEF TimerAbort, CancelAbort, Inv, TInv, TypeOK, ObjectTypes, Cancellers
  <2>2. \A s \in taken["timer"] : Built(s)
    BY <2>1 DEF UnitInv
  <2>3. ASSUME NEW z \in Sends PROVE UnitInv(z)'
    BY <1>3, <2>1, <2>2, UnitAbort DEF TimerAbort, Inv
  <2>4. PendingCountExact'
    BY <1>3, CountSame DEF TimerAbort
  <2> QED BY <2>3, <2>4
<1> QED BY <1>1, <1>2, <1>3 DEF TimerStep

\* The SDK threads: a failed delivery gives back the unit.
LEMMA UnitSdk ==
  ASSUME Inv, CountInv, NEW s \in Sends, SdkEnters(s) \/ SdkThread(s)
  PROVE  CountInv'
<1> USE DEF CountInv, InCall, Inv
<1>1. CASE SdkEnters(s) \/ SdkClaims(s) \/ SdkDelivers(s)
  BY <1>1, UnitSame, CountSame DEF SdkEnters, SdkClaims, SdkDelivers
<1>b. sdk[s] \in {"deliver", "release"} => Built(s)
  BY DEF SInv, SendInv, CallbackInv, Built
<1>2. CASE SdkDeliveryFails(s)
  <2>1. PendingCountExact'
    BY <1>2, <1>b, CountRelease DEF SdkDeliveryFails, Built
  <2>2. ASSUME NEW z \in Sends PROVE UnitInv(z)'
    BY <1>2, <1>b DEF SdkDeliveryFails, UnitInv, Built, ReleasePendingSend, TInv, TypeOK,
                     SendTypes
  <2> QED BY <2>1, <2>2
<1>3. CASE SdkReleases(s)
  <2>1. ASSUME NEW z \in Sends PROVE UnitInv(z)'
    BY <1>3, <1>b DEF SdkReleases, UnitInv, Built, TInv, TypeOK, SendTypes
  <2> QED BY <1>3, <2>1, CountSame DEF SdkReleases
<1>4. CASE SdkPurges(s)
  BY <1>4, UnitSame, CountSame DEF SdkPurges, Purged, Unclaimed
<1> QED BY <1>1, <1>2, <1>3, <1>4 DEF SdkThread

\* Send() throws after the constructor.
LEMMA UnitUnwind ==
  ASSUME Inv, CountInv, Holding(main.send), main.op = "send", SendUnwind(main.send)
  PROVE  CountInv'
<1> USE DEF CountInv, Inv
<1> DEFINE m == main.send
<1>1. m \in Sends /\ Built(m)
  BY DEF TInv, MainOK, SInv, SendInv, CallbackInv, Built
<1>2. /\ AbortTsfns({m}) /\ UNCHANGED <<released, handles, taken, pending, wiped>>
      /\ cb' = [s \in Sends |-> IF s \in {m} THEN "deleted" ELSE cb[s]]
  BY DEF SendUnwind, DestroyCallbacks
<1>3. ASSUME NEW z \in Sends PROVE UnitInv(z)'
  BY <1>1, <1>2, UnitAbort DEF SendUnwind, Idle, InCall
<1>4. PendingCountExact'
  BY <1>1, <1>2, CountSame DEF Built
<1> QED BY <1>3, <1>4

\* Send() after it was admitted.
LEMMA UnitSend == ASSUME Inv, CountInv, SendStep PROVE CountInv'
<1> USE DEF CountInv, InCall, Inv
<1> DEFINE m == main.send
<1>0. main.op = "send" => m \in Sends
  BY DEF TInv, MainOK
<1>1. CASE SendBuildFails
  <2>1. main.pc = "build" /\ m \in Sends /\ cb[m] = "building"
    BY <1>0, <1>1 DEF SendBuildFails, MainAt, SInv, SendInv, CallbackInv, Building
  <2>2. m \in Unreleased
    BY <2>1 DEF Unreleased, Admitted, UnitInv
  <2>3. /\ cb' = [cb EXCEPT ![m] = "unbuilt"] /\ Decrement /\ wiped' = wiped
        /\ released' = [released EXCEPT ![m] = TRUE] /\ main'.pc = "loop"
        /\ main'.ret = "loop" /\ UNCHANGED <<tsfn, handles, taken>>
    BY <1>1 DEF SendBuildFails, Idle
  <2>4. \A z \in Sends : cb'[z] = "none" <=> cb[z] = "none"
    BY <2>1, <2>3 DEF TInv, TypeOK, SendTypes
  <2>5. PendingCountExact'
    BY <2>2, <2>3, <2>4, CountLess
  <2>6. ASSUME NEW z \in Sends PROVE UnitInv(z)'
    BY <2>1, <2>3 DEF UnitInv, Built, TInv, TypeOK, SendTypes
  <2> QED BY <2>5, <2>6
<1>2. CASE SendConstruct
  <2>1. main.pc = "build" /\ m \in Sends /\ cb[m] = "building"
    BY <1>0, <1>2 DEF SendConstruct, MainAt, SInv, SendInv, CallbackInv, Building
  <2>2. /\ cb' = [cb EXCEPT ![m] = "live"] /\ tsfn' = [tsfn EXCEPT ![m] = "open"]
        /\ handles' \subseteq handles \cup {m} /\ main'.pc = "check"
        /\ main'.ret = main.ret /\ main'.send = main.send
        /\ UNCHANGED <<taken, released, pending, wiped>>
    BY <1>2 DEF SendConstruct, MainGoto, Purged, Unclaimed, TInv, TypeOK, ThreadTypes
  <2>3. \A z \in Sends : cb'[z] = "none" <=> cb[z] = "none"
    BY <2>1, <2>2 DEF TInv, TypeOK, SendTypes
  <2>4. PendingCountExact'
    BY <2>2, <2>3, CountSame
  <2>5. ASSUME NEW z \in Sends PROVE UnitInv(z)'
    BY <2>1, <2>2 DEF UnitInv, Built, TInv, TypeOK, SendTypes
  <2> QED BY <2>4, <2>5
<1>3. CASE SendCheckGeneration
  <2>1. CASE SendUnwind(main.send)
    BY <1>3, <2>1, UnitUnwind DEF SendCheckGeneration, MainAt, Holding
  <2>2. CASE MainGoto("lock") /\ UNCHANGED <<countVars, listVars, taken, sendVars>>
    BY <2>2, UnitSame, CountSame DEF MainGoto, TInv, TypeOK, ThreadTypes
  <2> QED BY <1>3, <2>1, <2>2 DEF SendCheckGeneration
<1>4. CASE SendLock
  BY <1>4, UnitSame, CountSame DEF SendLock, MainGoto, TInv, TypeOK, ThreadTypes
<1>5. CASE SendAccepted
  BY <1>5, UnitSame, CountSame DEF SendAccepted, Idle
<1>6. CASE SendThrows
  BY <1>6, UnitUnwind DEF SendThrows, MainAt, Holding
<1> QED BY <1>1, <1>2, <1>3, <1>4, <1>5, <1>6 DEF SendStep

\* CallJs and Finalize give back the unit of their send.
LEMMA UnitTsfn ==
  ASSUME Inv, CountInv, CallJsTells \/ CallJsReturns \/ \E s \in Sends : CallJs(s) \/ Finalize(s)
  PROVE  CountInv'
<1> USE DEF CountInv, Inv
<1>1. ASSUME NEW s \in Sends, CallJs(s) PROVE CountInv'
  <2>1. Built(s)
    BY <1>1 DEF CallJs, SInv, SendInv, ToldInv, CallbackInv, Built
  <2>2. ASSUME NEW z \in Sends PROVE UnitInv(z)'
    BY <1>1, <2>1 DEF CallJs, UnitInv, InCall, Built
  <2> QED BY <1>1, <2>2, CountSame DEF CallJs
<1>2. CASE CallJsReturns
  <2>1. main.send \in Sends /\ Built(main.send)
    BY <1>2 DEF CallJsReturns, MainAt, TInv, MainOK, UnitInv, InCall
  <2>2. PendingCountExact'
    BY <1>2, <2>1, CountRelease DEF CallJsReturns, Built
  <2>3. ASSUME NEW z \in Sends PROVE UnitInv(z)'
    BY <1>2, <2>1 DEF CallJsReturns, UnitInv, Built, InCall, Idle, ReleasePendingSend, TInv,
                     TypeOK, SendTypes
  <2> QED BY <2>2, <2>3
<1>3. ASSUME NEW s \in Sends, Finalize(s) PROVE CountInv'
  <2>1. Built(s)
    BY <1>3 DEF Finalize, UnitInv
  <2>2. PendingCountExact'
    BY <1>3, <2>1, CountRelease DEF Finalize, Built
  <2>3. ASSUME NEW z \in Sends PROVE UnitInv(z)'
    BY <1>3, <2>1 DEF Finalize, UnitInv, Built, InCall, ReleasePendingSend, TInv, TypeOK,
                     SendTypes
  <2> QED BY <2>2, <2>3
<1>4. CASE CallJsTells
  BY <1>4, UnitSame, CountSame DEF CallJsTells, MainGoto, InCall, TInv, TypeOK, ThreadTypes
<1> QED BY <1>1, <1>2, <1>3, <1>4

\* What the application asks for.
LEMMA UnitApplication == ASSUME Inv, CountInv, Application PROVE CountInv'
<1> USE DEF CountInv, InCall, Inv, TInv, TypeOK, ThreadTypes
<1>1. ASSUME NEW s \in Sends, SendAdmit(s) PROVE CountInv'
  <2>1. ASSUME NEW z \in Sends PROVE UnitInv(z)'
    BY <1>1 DEF SendAdmit, UnitInv, Built, SendTypes
  <2> QED BY <1>1, <2>1, CountAdmit
<1>2. CASE Start \/ DropReference
  BY <1>2, UnitSame, CountSame DEF Start, DropReference
<1>3. CASE Shutdown
  BY <1>3, UnitSame, CountSame DEF Shutdown, MainOK
<1>4. CASE ShutdownRetry
  BY <1>4, UnitSame, CountSame DEF ShutdownRetry, MainOK
<1>5. CASE ForceDestroy
  BY <1>5, UnitSame, CountSame DEF ForceDestroy
<1>6. CASE Destroy
  BY <1>6, UnitSame, CountSame DEF Destroy
<1> QED BY <1>1, <1>2, <1>3, <1>4, <1>5, <1>6 DEF Application

\* A destructor of tracked callbacks.
LEMMA UnitDestroy ==
  ASSUME Inv, CountInv, DestroyCallbacks(Orphans), UNCHANGED <<released, handles, taken>>,
         UNCHANGED <<pending, wiped>>, \A z \in Sends : InCall(z)' => InCall(z)
  PROVE  CountInv'
<1> USE DEF CountInv, Inv
<1>1. tracked \in SUBSET Sends /\ \A s \in tracked : Built(s)
  BY DEF TInv, TypeOK, ObjectTypes, SInv, SendInv, CallbackInv, Built
<1>2. /\ AbortTsfns(tracked)
      /\ cb' = [s \in Sends |-> IF s \in tracked THEN "deleted" ELSE cb[s]]
  BY DEF DestroyCallbacks, Orphans
<1>3. ASSUME NEW z \in Sends PROVE UnitInv(z)'
  BY <1>1, <1>2, UnitAbort
<1>4. PendingCountExact'
  BY <1>1, <1>2, CountSame DEF Built
<1> QED BY <1>3, <1>4

\* The main thread in a shutdown or a destruction.
LEMMA UnitMain == ASSUME Inv, CountInv, ShutdownStep \/ MainCommon PROVE CountInv'
<1> USE DEF CountInv, Inv, TInv, TypeOK, ThreadTypes, MainGoto
<1>c. ASSUME main' = Returned, NEW z \in Sends PROVE InCall(z)' => InCall(z)
  BY <1>c DEF InCall, Returned
<1>g. ASSUME main'.send = main.send, main'.ret = main.ret, main'.pc \notin CallPcs,
             NEW z \in Sends
      PROVE  InCall(z)' => InCall(z)
  BY <1>g DEF InCall
<1>1. CASE ShutdownStep
  BY <1>1, <1>c, <1>g, UnitSame, CountSame
     DEF ShutdownStep, ShutdownEnqueue, ShutdownQueueFails, MainAt
<1>2. CASE MainBump \/ MainStopLock
  BY <1>2, <1>g, UnitSame, CountSame DEF MainBump, MainStopLock
<1>3. CASE MainFlag
  BY <1>3, <1>g, UnitSame, CountSame DEF MainFlag, AfterStop
<1>4. CASE MainStop \/ MainMembers
  BY <1>4, <1>g, UnitSame, CountSame DEF MainStop, MainMembers, AfterStop
<1>5. CASE MainTake
  <2>1. /\ taken'["main"] = handles /\ handles' = {} /\ taken'["timer"] = taken["timer"]
        /\ wiped'
    BY <1>5 DEF MainTake, CancelTake, ObjectTypes, Cancellers
  <2> QED BY <1>5, <2>1, <1>g, UnitSame, CountSame DEF MainTake
<1>6. CASE MainAbort
  <2>1. /\ taken["main"] \in SUBSET Sends /\ AbortTsfns(taken["main"])
        /\ taken'["main"] = {} /\ taken'["timer"] = taken["timer"]
    BY <1>6 DEF MainAbort, CancelAbort, ObjectTypes, Cancellers
  <2>2. \A s \in taken["main"] : Built(s)
    BY <2>1 DEF UnitInv
  <2>3. ASSUME NEW z \in Sends PROVE UnitInv(z)'
    BY <1>6, <1>g, <2>1, <2>2, UnitAbort DEF MainAbort
  <2>4. PendingCountExact'
    BY <1>6, CountSame DEF MainAbort
  <2> QED BY <2>3, <2>4
<1>7. CASE MainJoin \/ MainJoined
  <2>1. ASSUME NEW z \in Sends PROVE InCall(z)' => InCall(z)
    BY <1>7, <1>c, <1>g DEF MainJoin, MainJoined, AfterJoin
  <2> QED BY <1>7, <2>1, UnitSame, CountSame DEF MainJoin, MainJoined
<1>8. CASE MainDelete
  <2>1. ASSUME NEW z \in Sends PROVE InCall(z)' => InCall(z)
    BY <1>8, <1>g DEF MainDelete, Idle, InCall
  <2> QED BY <1>8, <2>1, UnitDestroy DEF MainDelete
<1> QED BY <1>1, <1>2, <1>3, <1>4, <1>5, <1>6, <1>7, <1>8 DEF MainCommon

\* The two workers.
LEMMA UnitWorkers ==
  ASSUME Inv, CountInv,
         StartWorker \/ StartCompletes \/ ShutdownWorker \/ ShutCompletes
  PROVE  CountInv'
<1> USE DEF CountInv, InCall
<1>1. CASE StartWorker \/ StartCompletes
  BY <1>1, UnitSame, CountSame
     DEF StartWorker, StartCompletes, StartCheck, StartLock, StartCall, StartPublish,
         StartFlag, StartStopLock, StartStop
<1>2. CASE ShutDelete
  BY <1>2, UnitDestroy DEF ShutDelete
<1>3. CASE \/ ShutCheck \/ ShutJoin \/ ShutJoined \/ ShutFlag \/ ShutStopLock \/ ShutStop
           \/ ShutPublish \/ ShutCompletes
  BY <1>3, UnitSame, CountSame
     DEF ShutCheck, ShutJoin, ShutJoined, ShutFlag, ShutStopLock, ShutStop, ShutPublish,
         ShutCompletes
<1> QED BY <1>1, <1>2, <1>3 DEF ShutdownWorker

\* The units are accounted for by every step.
LEMMA CountInvNext == ASSUME Inv, CountInv, [Next]_vars PROVE CountInv'
<1>1. CASE MainThread
  BY <1>1, UnitSend, UnitTsfn, UnitMain, UnitWorkers DEF MainThread
<1>2. CASE UNCHANGED vars
  BY <1>2, UnitSame, CountSame DEF CountInv, InCall
<1> QED BY <1>1, <1>2, UnitApplication, UnitTimer, UnitSdk, UnitWorkers DEF Next, Finished

\* For any number of sends and faults: until CancelPendingSends zeroes it,
\* pending_send_callbacks is the number of admitted sends not yet given back.
THEOREM ExactCount == SafetySpec => []PendingCountExact
<1>1. Inv /\ CountInv /\ [Next]_vars => (Inv /\ CountInv)'
  BY InvNext, CountInvNext
<1>2. Init => Inv /\ CountInv
  BY TInvInit, SInvInit, CountInvInit DEF Inv
<1>3. CountInv => PendingCountExact
  BY DEF CountInv
<1> QED BY <1>1, <1>2, <1>3, PTL DEF SafetySpec

-----------------------------------------------------------------------------
(* What shutdown waits for. Once the producer has begun to shut down       *)
(* nothing is admitted, so that "drained" stays true: every admitted send  *)
(* was given back, or all were cancelled.                                  *)

Closed == lifecycle \in {"ShuttingDown", "Shutdown", "Destroyed"}
Drained == wiped \/ Unreleased = {}
ShutBusy == shut.pc \notin {"none", "complete"}

\* A step that admits nothing.
Calm ==
    /\ \A s \in Sends : (cb[s] = "none" => cb'[s] = "none")
                        /\ (released[s] => released'[s])
    /\ wiped => wiped'

\* A step that admits nothing leaves what is drained so.
LEMMA CalmDrained == ASSUME Calm, Drained PROVE Drained'
BY DEF Calm, Drained, Unreleased, Admitted

\* The later steps of Send() admit nothing.
LEMMA CalmSend == ASSUME Inv, SendStep PROVE Calm
<1> USE DEF Calm, Inv, TInv, TypeOK, SendTypes, MainAt
<1> DEFINE m == main.send
<1>0. main.op = "send" => m \in Sends
  BY DEF MainOK
<1>u. ASSUME main.op = "send", main.pc # "build", SendUnwind(m) PROVE Calm
  <2>1. cb[m] # "none"
    BY <1>0, <1>u DEF MainOK, SendPcs, SInv, SendInv, CallbackInv, Holding
  <2> QED BY <1>u, <2>1 DEF SendUnwind, DestroyCallbacks
<1>1. CASE SendBuildFails \/ SendConstruct
  <2>1. m \in Sends /\ cb[m] = "building"
    BY <1>0, <1>1 DEF SendBuildFails, SendConstruct, SInv, SendInv, CallbackInv, Building
  <2> QED BY <1>1, <2>1 DEF SendBuildFails, SendConstruct
<1>2. CASE SendCheckGeneration
  BY <1>2, <1>u DEF SendCheckGeneration
<1>3. CASE SendThrows
  BY <1>3, <1>u DEF SendThrows
<1>4. CASE SendLock \/ SendAccepted
  BY <1>4 DEF SendLock, SendAccepted
<1> QED BY <1>1, <1>2, <1>3, <1>4 DEF SendStep

\* Deleting the tracked callbacks admits nothing.
LEMMA CalmDestroy ==
  ASSUME Inv, DestroyCallbacks(Orphans), UNCHANGED <<released, wiped>>
  PROVE  Calm
BY DEF Calm, Inv, SInv, SendInv, CallbackInv, DestroyCallbacks, Orphans

\* SendAdmit is the only step that admits.
LEMMA CalmOthers ==
  ASSUME Inv, [Next]_vars, \A s \in Sends : ~SendAdmit(s)
  PROVE  Calm
<1> USE DEF Calm
<1>1. CASE SendStep
  BY <1>1, CalmSend
<1>2. CASE Start \/ Shutdown \/ ShutdownRetry \/ ForceDestroy \/ DropReference \/ Destroy
  BY <1>2 DEF Start, Shutdown, ShutdownRetry, ForceDestroy, DropReference, Destroy
<1>3. CASE ShutdownStep
  BY <1>3 DEF ShutdownStep, ShutdownEnqueue, ShutdownQueueFails
<1>4. CASE MainCommon
  <2>1. CASE MainDelete
    BY <2>1, CalmDestroy DEF MainDelete
  <2>2. CASE ~MainDelete
    BY <1>4, <2>2 DEF MainCommon, MainBump, MainTake, MainAbort, MainJoin, MainJoined,
                      MainFlag, MainStopLock, MainStop, MainMembers, CancelTake
  <2> QED BY <2>1, <2>2
<1>5. CASE CallJsTells \/ CallJsReturns \/ \E s \in Sends : CallJs(s) \/ Finalize(s)
  BY <1>5 DEF CallJsTells, CallJsReturns, CallJs, Finalize, ReleasePendingSend, Inv, TInv, TypeOK, SendTypes
<1>6. CASE StartWorker \/ StartCompletes
  BY <1>6 DEF StartWorker, StartCompletes, StartCheck, StartLock, StartCall, StartPublish,
              StartFlag, StartStopLock, StartStop
<1>7. CASE ShutdownWorker \/ ShutCompletes
  <2>1. CASE ShutDelete
    BY <2>1, CalmDestroy DEF ShutDelete
  <2>2. CASE ~ShutDelete
    BY <1>7, <2>2 DEF ShutdownWorker, ShutCompletes, ShutCheck, ShutJoin, ShutJoined,
                      ShutFlag, ShutStopLock, ShutStop, ShutPublish
  <2> QED BY <2>1, <2>2
<1>8. CASE TimerStep
  BY <1>8 DEF TimerStep, TimerDone, TimerTimeout, TimerBump, TimerTake, TimerAbort, CancelTake
<1>9. CASE \E s \in Sends : SdkEnters(s) \/ SdkThread(s)
  BY <1>9 DEF SdkEnters, SdkThread, SdkClaims, SdkDelivers, SdkDeliveryFails, SdkReleases,
              SdkPurges, ReleasePendingSend, Inv, TInv, TypeOK, SendTypes
<1>10. CASE UNCHANGED vars
  BY <1>10
<1> QED BY <1>1, <1>2, <1>3, <1>4, <1>5, <1>6, <1>7, <1>8, <1>9, <1>10
        DEF Next, Application, MainThread, Finished

\* Which steps each operation of the main thread takes.
PcInv ==
    /\ main.op = "none" <=> main.pc = "loop"
    /\ main.op = "calljs" <=> main.pc \in CallPcs
    /\ main.op = "shutdown" => main.pc \in {"enqueue", "join", "joining"}
    /\ main.op = "queueFail" => main.pc \in {"bump", "take", "abort", "join", "joining"}
    /\ main.op = "forceDestroy" =>
         main.pc \in {"bump", "take", "abort", "join", "joining", "flag", "sdkLock",
                      "sdkStop", "delete"}
    /\ main.op = "dtor" =>
         main.pc \in {"flag", "sdkLock", "sdkStop", "bump", "take", "abort", "join",
                      "joining", "delete", "members", "gone"}

\* Nothing of a shutdown exists before it begins.
OpenInv ==
    /\ wiped => Closed
    /\ lifecycle \in {"Idle", "Starting"} => \A s \in Sends : cb[s] = "none"
    /\ start.pc \in {"queued", "lock", "call", "publish"} =>
         lifecycle \in {"Starting", "Destroyed"}
    /\ ~Closed => /\ timer.pc = "none" /\ timer.owner = "none" /\ shut.pc = "none"
                  /\ main.op \in {"none", "send", "calljs"} /\ ~active

\* Who is at work while the lifecycle is what it is.
WhoInv ==
    /\ ShutBusy => active
    /\ lifecycle = "Shutdown" => ~ShutBusy
    /\ main.op \in {"shutdown", "queueFail"} =>
         lifecycle = "ShuttingDown" /\ ~active /\ ~ShutBusy
    /\ main.op = "forceDestroy" => lifecycle = "Destroyed"
    /\ main.op = "dtor" => shut.pc = "none" /\ start.pc = "none" /\ lifecycle = "Destroyed"
    /\ lifecycle = "Destroyed" => main.op \in {"none", "calljs", "forceDestroy", "dtor"}

\* A retry finds everything drained; a first attempt finds the timer in its slot,
\* and whoever takes it out waits for it, unless all sends have been cancelled.
DrainInv ==
    /\ timer.pc = "abort" => wiped
    /\ timer.pc = "done" => Drained
    /\ main.op = "shutdown" => Drained \/ (main.pc = "enqueue" /\ timer.owner = "slot")
    /\ main.op = "queueFail" => main.pc \in {"bump", "take"} \/ wiped
    /\ main.op = "forceDestroy" => main.pc \in {"bump", "take"} \/ wiped \/ ~ShutBusy
    /\ lifecycle = "ShuttingDown" /\ ~active =>
         Drained \/ main.op \in {"shutdown", "queueFail"}
    /\ shut.pc \in {"queued", "join"} => timer.owner = "slot" \/ Drained
    /\ shut.pc \in {"flag", "stopLock", "stop", "delete", "publish"} => Drained

WaitInv == PcInv /\ OpenInv /\ WhoInv /\ DrainInv

\* Nothing of a shutdown exists at first.
LEMMA WaitInvInit == Init => WaitInv
BY DEF Init, Idle, WaitInv, PcInv, OpenInv, WhoInv, DrainInv, Closed, ShutBusy

\* A step of other threads than those of the shutdown.
LEMMA WaitSame ==
  ASSUME WaitInv, Calm,
         UNCHANGED <<lifecycle, active, timer, start, shut>>,
         UNCHANGED wiped,
         \/ main'.op = main.op /\ main'.pc = main.pc
         \/ /\ main.op \in {"none", "send", "calljs"} /\ main'.op \in {"none", "send", "calljs"}
            /\ main'.op = "none" <=> main'.pc = "loop"
            /\ main'.op = "calljs" <=> main'.pc \in CallPcs
            /\ lifecycle = "Destroyed" => main'.op # "send"
  PROVE  WaitInv'
<1>1. Drained => Drained'
  BY CalmDrained
<1>2. PcInv' /\ OpenInv' /\ WhoInv'
  BY DEF WaitInv, PcInv, OpenInv, WhoInv, Closed, ShutBusy, Calm
<1>3. DrainInv'
  BY <1>1 DEF WaitInv, DrainInv, ShutBusy
<1> QED BY <1>2, <1>3 DEF WaitInv

\* The steps that carry one send.
LEMMA WaitOthers ==
  ASSUME Inv, WaitInv, Calm,
         \/ SendStep \/ CallJsTells \/ CallJsReturns \/ \E s \in Sends : CallJs(s) \/ Finalize(s)
         \/ \E s \in Sends : SdkEnters(s) \/ SdkThread(s)
         \/ DropReference \/ UNCHANGED vars
  PROVE  WaitInv'
<1> USE DEF Inv, TInv, TypeOK, ThreadTypes
<1>1. CASE SendStep
  <2>1. lifecycle # "Destroyed" /\ main.op = "send"
    BY <1>1 DEF SendStep, SendBuildFails, SendConstruct, SendCheckGeneration, SendLock,
                SendAccepted, SendThrows, MainAt, WaitInv, WhoInv
  <2>2. \/ main'.op = "send" /\ main'.pc \in SendPcs
        \/ main'.op = "none" /\ main'.pc = "loop"
    BY <1>1 DEF SendStep, SendBuildFails, SendConstruct, SendCheckGeneration, SendLock,
                SendAccepted, SendThrows, SendUnwind, MainAt, MainGoto, Idle, SendPcs
  <2>3. UNCHANGED <<lifecycle, active, timer, start, shut, wiped>>
    BY <1>1 DEF SendStep, SendBuildFails, SendConstruct, SendCheckGeneration, SendLock,
                SendAccepted, SendThrows, SendUnwind
  <2> QED BY <2>1, <2>2, <2>3, WaitSame DEF SendPcs
<1>2. CASE CallJsTells \/ CallJsReturns \/ \E s \in Sends : CallJs(s)
  BY <1>2, WaitSame DEF CallJsTells, CallJsReturns, CallJs, MainGoto, MainAt, Idle, WaitInv, PcInv
<1>3. CASE \E s \in Sends : Finalize(s)
  BY <1>3, WaitSame DEF Finalize
<1>4. CASE \E s \in Sends : SdkEnters(s) \/ SdkThread(s)
  BY <1>4, WaitSame DEF SdkEnters, SdkThread, SdkClaims, SdkDelivers, SdkDeliveryFails,
                        SdkReleases, SdkPurges
<1>5. CASE DropReference \/ UNCHANGED vars
  BY <1>5, WaitSame DEF DropReference
<1> QED BY <1>1, <1>2, <1>3, <1>4, <1>5

\* A send is admitted before the shutdown begins.
LEMMA WaitAdmit == ASSUME Inv, WaitInv, NEW s \in Sends, SendAdmit(s) PROVE WaitInv'
BY DEF SendAdmit, TakesSends, WaitInv, PcInv, OpenInv, WhoInv, DrainInv, Closed, ShutBusy

\* The shutdown begins, is retried, or the object is destroyed.
LEMMA WaitApplication ==
  ASSUME Inv, WaitInv, Calm, Start \/ Shutdown \/ ShutdownRetry \/ ForceDestroy \/ Destroy
  PROVE  WaitInv'
<1> USE DEF Inv, TInv, TypeOK, ThreadTypes, MainOK, WaitInv
<1>0. Drained => Drained'
  BY CalmDrained
<1>1. CASE Start
  BY <1>1, <1>0 DEF Start, PcInv, OpenInv, WhoInv, DrainInv, Closed, ShutBusy
<1>2. CASE Shutdown
  BY <1>2, <1>0 DEF Shutdown, ShutdownPoints, PcInv, OpenInv, WhoInv, DrainInv, Closed, ShutBusy
<1>3. CASE ShutdownRetry
  BY <1>3, <1>0 DEF ShutdownRetry, MayRetry, ShutdownPoints, SendPcs, PcInv, OpenInv, WhoInv,
                    DrainInv, Closed, ShutBusy
<1>4. CASE ForceDestroy
  BY <1>4, <1>0 DEF ForceDestroy, PcInv, OpenInv, WhoInv, DrainInv, Closed, ShutBusy, Lifecycles,
                    ObjectTypes
<1>5. CASE Destroy
  BY <1>5, <1>0 DEF Destroy, PcInv, OpenInv, WhoInv, DrainInv, Closed, ShutBusy
<1> QED BY <1>1, <1>2, <1>3, <1>4, <1>5

\* The worker is queued, or Queue() fails.
LEMMA WaitShutdownStep == ASSUME Inv, WaitInv, Calm, ShutdownStep PROVE WaitInv'
<1> USE DEF Inv, TInv, TypeOK, ThreadTypes, MainOK, WaitInv
<1>0. Drained => Drained'
  BY CalmDrained
<1>1. CASE ShutdownEnqueue
  BY <1>1, <1>0 DEF ShutdownEnqueue, MainAt, Returned, PcInv, OpenInv, WhoInv, DrainInv,
                    Closed, ShutBusy
<1>2. CASE ShutdownQueueFails
  BY <1>2, <1>0 DEF ShutdownQueueFails, MainAt, PcInv, OpenInv, WhoInv, DrainInv, Closed, ShutBusy
<1> QED BY <1>1, <1>2 DEF ShutdownStep

\* The main thread in a shutdown or a destruction.
LEMMA WaitMainCommon == ASSUME Inv, WaitInv, Calm, MainCommon PROVE WaitInv'
<1> USE DEF Inv, TInv, TypeOK, ThreadTypes, MainOK, WaitInv, MainGoto, PcInv, OpenInv, WhoInv,
            DrainInv, Closed, ShutBusy, SendPcs, MainOps
<1>0. Drained => Drained'
  BY CalmDrained
<1>1. CASE MainBump
  BY <1>1, <1>0 DEF MainBump
<1>2. CASE MainTake
  BY <1>2, <1>0 DEF MainTake, CancelTake, Drained
<1>3. CASE MainAbort
  BY <1>3, <1>0 DEF MainAbort
<1>w. wiped => Drained
  BY DEF Drained
<1>4. CASE MainJoin
  BY <1>4, <1>0, <1>w DEF MainJoin, TimerInSlot, AfterJoin, Returned
<1>5. CASE MainJoined
  BY <1>5, <1>0, <1>w DEF MainJoined, AfterJoin, Returned
<1>6. CASE MainFlag \/ MainStopLock
  BY <1>6, <1>0 DEF MainFlag, MainStopLock, AfterStop
<1>7. CASE MainStop \/ MainMembers
  BY <1>7, <1>0 DEF MainStop, MainMembers, AfterStop
<1>8. CASE MainDelete
  BY <1>8, <1>0 DEF MainDelete, Idle, Calm
<1> QED BY <1>1, <1>2, <1>3, <1>4, <1>5, <1>6, <1>7, <1>8 DEF MainCommon

\* The timer ends when the exact count is zero, or after it has wiped the count.
LEMMA WaitTimer == ASSUME Inv, CountInv, WaitInv, Calm, TimerStep PROVE WaitInv'
<1> USE DEF Inv, TInv, TypeOK, ThreadTypes, WaitInv, PcInv, OpenInv, WhoInv, DrainInv, Closed,
            ShutBusy
<1>0. Drained => Drained'
  BY CalmDrained
<1>1. CASE TimerDone
  <2>1. wiped \/ Cardinality(Unreleased) = 0
    BY <1>1 DEF TimerDone, CountInv, PendingCountExact
  <2>2. Drained
    BY <2>1, UnreleasedFinite, FS_EmptySet DEF Drained
  <2> QED BY <1>0, <1>1, <2>2 DEF TimerDone
<1>2. CASE TimerTimeout \/ TimerBump
  BY <1>2, <1>0 DEF TimerTimeout, TimerBump
<1>3. CASE TimerTake
  BY <1>3, <1>0 DEF TimerTake, CancelTake, Drained
<1>4. CASE TimerAbort
  BY <1>4, <1>0 DEF TimerAbort, Drained
<1> QED BY <1>1, <1>2, <1>3, <1>4 DEF TimerStep

\* The start worker.
LEMMA WaitStart ==
  ASSUME Inv, WaitInv, Calm, StartWorker \/ StartCompletes
  PROVE  WaitInv'
<1> USE DEF Inv, TInv, TypeOK, ThreadTypes, WaitInv, PcInv, OpenInv, WhoInv, DrainInv, Closed,
            ShutBusy, StartGoto
<1>0. Drained => Drained'
  BY CalmDrained
<1>1. CASE StartCheck
  BY <1>1, <1>0 DEF StartCheck
<1>2. CASE StartLock \/ StartCall
  BY <1>2, <1>0 DEF StartLock, StartCall
<1>3. CASE StartPublish
  BY <1>3, <1>0 DEF StartPublish
<1>4. CASE StartFlag \/ StartStopLock \/ StartStop
  BY <1>4, <1>0 DEF StartFlag, StartStopLock, StartStop
<1>5. CASE StartCompletes
  BY <1>5, <1>0 DEF StartCompletes
<1> QED BY <1>1, <1>2, <1>3, <1>4, <1>5 DEF StartWorker

\* The shutdown worker passes the join only when the timer is done.
LEMMA WaitShut ==
  ASSUME Inv, WaitInv, Calm, ShutdownWorker \/ ShutCompletes
  PROVE  WaitInv'
<1> USE DEF Inv, TInv, TypeOK, ThreadTypes, WaitInv, PcInv, OpenInv, WhoInv, DrainInv, Closed,
            ShutBusy, ShutGoto
<1>0. Drained => Drained'
  BY CalmDrained
<1>1. CASE ShutCheck
  BY <1>1, <1>0 DEF ShutCheck
<1>2. CASE ShutJoin
  BY <1>2, <1>0 DEF ShutJoin, TimerInSlot
<1>3. CASE ShutJoined
  BY <1>3, <1>0 DEF ShutJoined
<1>4. CASE ShutFlag \/ ShutStopLock
  BY <1>4, <1>0 DEF ShutFlag, ShutStopLock
<1>5. CASE ShutStop
  BY <1>5, <1>0 DEF ShutStop
<1>6. CASE ShutDelete
  BY <1>6, <1>0 DEF ShutDelete, Calm
<1>7. CASE ShutPublish
  BY <1>7, <1>0 DEF ShutPublish
<1>8. CASE ShutCompletes
  BY <1>8, <1>0 DEF ShutCompletes
<1> QED BY <1>1, <1>2, <1>3, <1>4, <1>5, <1>6, <1>7, <1>8 DEF ShutdownWorker

\* The shutdown waits, whatever step is taken.
LEMMA WaitInvNext == ASSUME Inv, CountInv, WaitInv, [Next]_vars PROVE WaitInv'
<1>1. CASE \E s \in Sends : SendAdmit(s)
  BY <1>1, WaitAdmit
<1>2. CASE \A s \in Sends : ~SendAdmit(s)
  <2>1. Calm
    BY <1>2, CalmOthers
  <2> QED BY <1>2, <2>1, WaitOthers, WaitApplication, WaitShutdownStep, WaitMainCommon,
             WaitTimer, WaitStart, WaitShut
          DEF Next, Application, MainThread, Finished
<1> QED BY <1>1, <1>2

\* The invariants of this module hold throughout.
LEMMA WaitInvHolds == SafetySpec => [](Inv /\ CountInv /\ WaitInv)
<1>1. Inv /\ CountInv /\ WaitInv /\ [Next]_vars => (Inv /\ CountInv /\ WaitInv)'
  BY InvNext, CountInvNext, WaitInvNext
<1>2. Init => Inv /\ CountInv /\ WaitInv
  BY TInvInit, SInvInit, CountInvInit, WaitInvInit DEF Inv
<1> QED BY <1>1, <1>2, PTL DEF SafetySpec

\* For any number of sends and faults, with retries, re-entrant calls and forced
\* destruction: a shutdown worker past the join finds every admitted send given back,
\* or all of them cancelled.
THEOREM ShutdownWaits == SafetySpec => []ShutdownWaitsForSends
<1>1. WaitInv => ShutdownWaitsForSends
  BY DEF WaitInv, DrainInv, Drained, ShutdownWaitsForSends
<1> QED BY WaitInvHolds, <1>1, PTL

\* A Shutdown that is about to queue a worker finds no other at work: the worker of the
\* attempt before has at most its completion left, however often shutdown() is called, from
\* the event loop, a callback or a getter (RocketMQProducer::Shutdown).
RetryFindsWorkerDone == MainAt("shutdown", "enqueue") => shut.pc \in {"none", "complete"}

THEOREM OneWorkerAtATime == SafetySpec => []RetryFindsWorkerDone
<1>1. WaitInv => RetryFindsWorkerDone
  BY DEF WaitInv, WhoInv, ShutBusy, RetryFindsWorkerDone, MainAt
<1> QED BY WaitInvHolds, <1>1, PTL

-----------------------------------------------------------------------------
(* What the destroyed object leaves behind.                                *)

\* Every constructed callback is on the tracking list until it is deleted, and a
\* TSFN that Node has not finalized pins the producer, as does an unsettled send.
PinInv(s) ==
    /\ cb[s] = "live" => s \in tracked
    /\ cb[s] = "building" => Building(s)
    /\ tsfn[s] \in {"open", "closing"} => s \in pinned
    /\ cb[s] \in {"live", "deleted"} /\ ~released[s] => s \in pinned

\* A forced or final destruction has joined the timer and deleted the callbacks.
DestroyInv ==
    /\ main.op = "dtor" => pinned = {}
    /\ main.op = "dtor" /\ main.pc \in {"members", "gone"} => tracked = {}
    /\ lifecycle = "Destroyed" /\ main.op \notin {"dtor", "forceDestroy"} => tracked = {}
    /\ lifecycle = "Destroyed" /\ timer.owner = "slot" =>
         /\ main.op \in {"dtor", "forceDestroy"}
         /\ main.pc \in {"bump", "take", "abort", "join"}
            \/ (main.op = "dtor" /\ main.pc \in {"flag", "sdkLock", "sdkStop"})

EndInv == (\A s \in Sends : PinInv(s)) /\ DestroyInv

AllInv == Inv /\ CountInv /\ WaitInv /\ EndInv

\* Nothing is tracked or pinned at first.
LEMMA EndInvInit == Init => EndInv
BY DEF Init, Idle, EndInv, PinInv, DestroyInv

\* Steps that touch no send.
LEMMA PinSame ==
  ASSUME NEW z \in Sends, PinInv(z), UNCHANGED <<cb, tsfn, tracked, pinned>>,
         released[z] => released'[z], Building(z) => Building(z)'
  PROVE  PinInv(z)'
BY DEF PinInv

\* Aborting TSFNs, with or without deleting their callbacks.
LEMMA PinAbort ==
  ASSUME AllInv, NEW z \in Sends, NEW S \in SUBSET Sends, \A s \in S : Built(s),
         AbortTsfns(S), UNCHANGED <<released, pinned>>, Building(z) => Building(z)',
         \/ UNCHANGED <<cb, tracked>>
         \/ /\ cb' = [s \in Sends |-> IF s \in S THEN "deleted" ELSE cb[s]]
            /\ tracked' = tracked \ S
  PROVE  PinInv(z)'
BY DEF AllInv, EndInv, PinInv, Built, AbortTsfns, Unclaimed, Inv, SInv, SendInv, TsfnInv

\* Deleting everything on the tracking list.
LEMMA PinDestroy ==
  ASSUME AllInv, NEW z \in Sends, DestroyCallbacks(Orphans), UNCHANGED <<released, pinned>>,
         Building(z) => Building(z)'
  PROVE  PinInv(z)'
<1>1. tracked \in SUBSET Sends /\ \A s \in tracked : Built(s)
  BY DEF AllInv, Inv, TInv, TypeOK, ObjectTypes, SInv, SendInv, CallbackInv, Built
<1> QED BY <1>1, PinAbort DEF DestroyCallbacks, Orphans

\* Send() tracks and pins what it constructs.
LEMMA PinSend ==
  ASSUME AllInv, NEW z \in Sends, SendStep
  PROVE  PinInv(z)'
<1> USE DEF AllInv, Inv, TInv, TypeOK, ThreadTypes, EndInv
<1> DEFINE m == main.send
<1>0. main.op = "send" => m \in Sends /\ main.ret = "loop"
  BY DEF MainOK
<1>u. ASSUME main.op = "send", main.pc # "build", SendUnwind(m) PROVE PinInv(z)'
  <2>1. Built(m) /\ m \in Sends
    BY <1>0, <1>u DEF MainOK, SendPcs, SInv, SendInv, CallbackInv, Holding, Built
  <2>2. ~Building(z)
    BY <1>0, <1>u DEF Building
  <2> QED BY <1>u, <2>1, <2>2, PinAbort DEF SendUnwind, DestroyCallbacks
<1>1. CASE SendBuildFails
  <2>1. m \in Sends /\ UNCHANGED <<tsfn, tracked, pinned>>
    BY <1>0, <1>1 DEF SendBuildFails, MainAt
  <2>2. cb' = [cb EXCEPT ![m] = "unbuilt"] /\ released' = [released EXCEPT ![m] = TRUE]
    BY <1>1 DEF SendBuildFails
  <2>3. z # m => ~Building(z)
    BY DEF Building
  <2> QED BY <2>1, <2>2, <2>3 DEF PinInv, SendTypes
<1>2. CASE SendConstruct
  <2>1. m \in Sends /\ UNCHANGED released
    BY <1>0, <1>2 DEF SendConstruct, MainAt
  <2>2. /\ cb' = [cb EXCEPT ![m] = "live"] /\ tsfn' = [tsfn EXCEPT ![m] = "open"]
        /\ tracked' = tracked \cup {m} /\ pinned' = pinned \cup {m}
    BY <1>2 DEF SendConstruct
  <2>3. z # m => ~Building(z)
    BY DEF Building
  <2> QED BY <2>1, <2>2, <2>3 DEF PinInv, SendTypes
<1>3. CASE SendCheckGeneration
  BY <1>3, <1>u, <1>0, PinSame DEF SendCheckGeneration, MainAt, MainGoto, Building
<1>4. CASE SendLock \/ SendAccepted
  BY <1>4, <1>0, PinSame DEF SendLock, SendAccepted, MainAt, MainGoto, Building
<1>5. CASE SendThrows
  BY <1>5, <1>u DEF SendThrows, MainAt
<1> QED BY <1>1, <1>2, <1>3, <1>4, <1>5 DEF SendStep

\* CallJs and Finalize: the finalizer unpins.
LEMMA PinTsfn ==
  ASSUME AllInv, NEW z \in Sends,
         CallJsTells \/ CallJsReturns \/ \E s \in Sends : CallJs(s) \/ Finalize(s)
  PROVE  PinInv(z)'
<1> USE DEF AllInv, Inv, TInv, TypeOK, ThreadTypes, EndInv
<1>0. main.pc \in {"loop"} \cup CallPcs => ~Building(z)
  BY DEF MainOK, Building
<1>1. CASE \E s \in Sends : CallJs(s)
  BY <1>0, <1>1, PinSame DEF CallJs
<1>2. CASE CallJsReturns
  BY <1>0, <1>2, PinSame DEF CallJsReturns, MainAt, ReleasePendingSend, SendTypes
<1>4. CASE CallJsTells
  BY <1>0, <1>4, PinSame DEF CallJsTells, MainGoto, Building
<1>3. ASSUME NEW s \in Sends, Finalize(s) PROVE PinInv(z)'
  BY <1>0, <1>3 DEF Finalize, ReleasePendingSend, PinInv, SendTypes
<1> QED BY <1>1, <1>2, <1>3, <1>4

\* The SDK threads.
LEMMA PinSdk ==
  ASSUME AllInv, NEW z \in Sends, NEW s \in Sends, SdkEnters(s) \/ SdkThread(s)
  PROVE  PinInv(z)'
<1> USE DEF AllInv, Inv, TInv, TypeOK, EndInv
<1>1. CASE SdkReleases(s)
  BY <1>1 DEF SdkReleases, PinInv, SInv, SendInv, TsfnInv, Building, SendTypes
<1>2. CASE SdkDeliveryFails(s)
  BY <1>2, PinSame DEF SdkDeliveryFails, ReleasePendingSend, Building, SendTypes
<1>3. CASE SdkEnters(s) \/ SdkClaims(s) \/ SdkDelivers(s) \/ SdkPurges(s)
  BY <1>3, PinSame DEF SdkEnters, SdkClaims, SdkDelivers, SdkPurges, Building
<1> QED BY <1>1, <1>2, <1>3 DEF SdkThread

\* What the application asks for.
LEMMA PinApplication ==
  ASSUME AllInv, NEW z \in Sends, Application
  PROVE  PinInv(z)'
<1> USE DEF AllInv, Inv, TInv, TypeOK, ThreadTypes, EndInv
<1>0. main.pc = "loop" => ~Building(z)
  BY DEF MainOK, Building
<1>1. CASE \E s \in Sends : SendAdmit(s)
  BY <1>0, <1>1 DEF SendAdmit, PinInv, Building, SendTypes, CountInv, UnitInv, Built
<1>2. CASE Start \/ DropReference \/ ForceDestroy \/ Destroy
  BY <1>0, <1>2, PinSame DEF Start, DropReference, ForceDestroy, Destroy, Building
<1>3. CASE Shutdown \/ ShutdownRetry
  <2>1. Building(z) => Building(z)'
    BY <1>3 DEF Shutdown, ShutdownRetry, ShutdownPoints, Building, WaitInv, OpenInv, WhoInv,
                MainOK, Closed
  <2> QED BY <1>3, <2>1, PinSame DEF Shutdown, ShutdownRetry
<1> QED BY <1>1, <1>2, <1>3 DEF Application

\* The main thread in a shutdown or a destruction.
LEMMA PinMain ==
  ASSUME AllInv, NEW z \in Sends, ShutdownStep \/ MainCommon
  PROVE  PinInv(z)'
<1> USE DEF AllInv, Inv, TInv, TypeOK, ThreadTypes, EndInv
<1>r. ASSUME main' = Returned, main.ret = "build" \/ main.pc # "build"
      PROVE  Building(z) => Building(z)'
  BY <1>r DEF Returned, Building
<1>g. ASSUME main'.send = main.send, main'.ret = main.ret, main.pc # "build"
      PROVE  Building(z) => Building(z)'
  BY <1>g DEF Building
<1>1. CASE ShutdownStep
  BY <1>1, <1>r, <1>g, PinSame DEF ShutdownStep, ShutdownEnqueue, ShutdownQueueFails, MainAt
<1>2. CASE MainBump \/ MainTake \/ MainFlag \/ MainStopLock \/ MainStop \/ MainMembers
  BY <1>2, <1>g, PinSame DEF MainBump, MainTake, MainFlag, MainStopLock, MainStop, MainMembers,
                             MainGoto, AfterStop
<1>3. CASE MainAbort
  <2>1. taken["main"] \in SUBSET Sends /\ \A s \in taken["main"] : Built(s)
    BY DEF ObjectTypes, Cancellers, CountInv, UnitInv
  <2>2. Building(z) => Building(z)'
    BY <1>3, <1>g DEF MainAbort, MainGoto
  <2> QED BY <1>3, <2>1, <2>2, PinAbort DEF MainAbort, CancelAbort
<1>4. CASE MainJoin \/ MainJoined
  <2>1. Building(z) => Building(z)'
    BY <1>4, <1>r, <1>g DEF MainJoin, MainJoined, AfterJoin, MainGoto
  <2> QED BY <1>4, <2>1, PinSame DEF MainJoin, MainJoined
<1>5. CASE MainDelete
  <2>1. ~Building(z)
    BY <1>5 DEF MainDelete, Building, MainOK, WaitInv, PcInv
  <2> QED BY <1>5, <2>1, PinDestroy DEF MainDelete
<1> QED BY <1>1, <1>2, <1>3, <1>4, <1>5 DEF MainCommon

\* The workers and the timer.
LEMMA PinWorkers ==
  ASSUME AllInv, NEW z \in Sends,
         \/ StartWorker \/ StartCompletes \/ ShutdownWorker \/ ShutCompletes \/ TimerStep
         \/ UNCHANGED vars
  PROVE  PinInv(z)'
<1> USE DEF AllInv, EndInv, Building
<1>1. CASE StartWorker \/ StartCompletes \/ UNCHANGED vars
  BY <1>1, PinSame
     DEF StartWorker, StartCompletes, StartCheck, StartLock, StartCall, StartPublish,
         StartFlag, StartStopLock, StartStop
<1>2. CASE ShutDelete
  BY <1>2, PinDestroy DEF ShutDelete
<1>3. CASE \/ ShutCheck \/ ShutJoin \/ ShutJoined \/ ShutFlag \/ ShutStopLock \/ ShutStop
           \/ ShutPublish \/ ShutCompletes
  BY <1>3, PinSame
     DEF ShutCheck, ShutJoin, ShutJoined, ShutFlag, ShutStopLock, ShutStop, ShutPublish,
         ShutCompletes
<1>4. CASE TimerDone \/ TimerTimeout \/ TimerBump \/ TimerTake
  BY <1>4, PinSame DEF TimerDone, TimerTimeout, TimerBump, TimerTake
<1>5. CASE TimerAbort
  <2>1. taken["timer"] \in SUBSET Sends /\ \A s \in taken["timer"] : Built(s)
    BY DEF Inv, TInv, TypeOK, ObjectTypes, Cancellers, CountInv, UnitInv
  <2> QED BY <1>5, <2>1, PinAbort DEF TimerAbort, CancelAbort
<1> QED BY <1>1, <1>2, <1>3, <1>4, <1>5 DEF ShutdownWorker, TimerStep

\* Every step.
LEMMA PinNext == ASSUME AllInv, [Next]_vars, NEW z \in Sends PROVE PinInv(z)'
BY PinSend, PinTsfn, PinSdk, PinApplication, PinMain, PinWorkers DEF Next, MainThread, Finished

\* The steps of the main thread, which alone goes through a destruction.
LEMMA DestroyMain ==
  ASSUME AllInv, Application \/ MainThread
  PROVE  DestroyInv'
<1> USE DEF AllInv, Inv, TInv, TypeOK, ThreadTypes, EndInv, DestroyInv, WaitInv
<1>1. CASE \/ Start \/ Shutdown \/ ShutdownRetry \/ DropReference
           \/ \E s \in Sends : SendAdmit(s)
  <2>1. lifecycle # "Destroyed" => lifecycle' # "Destroyed" /\ main'.op # "dtor"
    <3>1. CASE Start \/ DropReference
      BY <3>1 DEF Start, DropReference, WhoInv
    <3>2. CASE Shutdown \/ ShutdownRetry
      BY <3>2 DEF Shutdown, ShutdownRetry, MayRetry
    <3>3. CASE \E s \in Sends : SendAdmit(s)
      BY <3>3 DEF SendAdmit
    <3> QED BY <1>1, <3>1, <3>2, <3>3
  <2>2. lifecycle = "Destroyed" => UNCHANGED <<lifecycle, main, pinned, tracked, timer>>
    BY <1>1 DEF Start, Shutdown, ShutdownRetry, DropReference, SendAdmit, TakesSends, MayRetry
  <2> QED BY <2>1, <2>2
<1>2. CASE ForceDestroy
  BY <1>2 DEF ForceDestroy, OpenInv, Closed, PcInv
<1>3. CASE Destroy
  BY <1>3 DEF Destroy, PcInv
<1>4. CASE SendStep
  <2>1. lifecycle # "Destroyed" /\ main.op = "send"
    BY <1>4 DEF SendStep, SendBuildFails, SendConstruct, SendCheckGeneration, SendLock,
                SendAccepted, SendThrows, MainAt, WhoInv
  <2>2. main'.op \in {"send", "none"} /\ UNCHANGED lifecycle
    BY <1>4 DEF SendStep, SendBuildFails, SendConstruct, SendCheckGeneration, SendLock,
                SendAccepted, SendThrows, SendUnwind, MainAt, MainGoto, Idle
  <2> QED BY <2>1, <2>2
<1>5. CASE CallJsTells \/ CallJsReturns \/ \E s \in Sends : CallJs(s) \/ Finalize(s)
  BY <1>5 DEF CallJsTells, CallJsReturns, CallJs, Finalize, MainAt, MainGoto, Idle, PcInv
<1>6. CASE ShutdownStep
  <2>1. lifecycle' # "Destroyed" /\ main'.op # "dtor"
    <3>1. CASE ShutdownEnqueue
      BY <3>1 DEF ShutdownEnqueue, MainAt, WhoInv, Returned
    <3>2. CASE ShutdownQueueFails
      BY <3>2 DEF ShutdownQueueFails, MainAt, WhoInv
    <3> QED BY <1>6, <3>1, <3>2 DEF ShutdownStep
  <2> QED BY <2>1
<1>7. CASE MainBump \/ MainTake \/ MainAbort
  BY <1>7 DEF MainBump, MainTake, MainAbort, MainGoto, PcInv
<1>8. CASE MainJoin
  BY <1>8 DEF MainJoin, TimerInSlot, AfterJoin, MainGoto, Returned, WhoInv, PcInv, MainOK,
              MainOps, SendPcs
<1>9. CASE MainJoined
  BY <1>9 DEF MainJoined, AfterJoin, MainGoto, Returned, WhoInv, PcInv, MainOK, MainOps, SendPcs
<1>10. CASE MainFlag \/ MainStopLock \/ MainStop
  BY <1>10 DEF MainFlag, MainStopLock, MainStop, AfterStop, MainGoto, PcInv
<1>11. CASE MainDelete
  BY <1>11 DEF MainDelete, DestroyCallbacks, Orphans, MainGoto, Idle
<1>12. CASE MainMembers
  BY <1>12 DEF MainMembers, MainGoto
<1>13. CASE StartCompletes \/ ShutCompletes
  BY <1>13 DEF StartCompletes, ShutCompletes
<1> QED BY <1>1, <1>2, <1>3, <1>4, <1>5, <1>6, <1>7, <1>8, <1>9, <1>10, <1>11, <1>12, <1>13
        DEF Application, MainThread, MainCommon

\* The other threads join the timer for the destructor, or do not touch it.
LEMMA DestroyOthers ==
  ASSUME AllInv,
         \/ TimerStep \/ StartWorker \/ ShutdownWorker \/ UNCHANGED vars
         \/ \E s \in Sends : SdkEnters(s) \/ SdkThread(s)
  PROVE  DestroyInv'
<1> USE DEF AllInv, Inv, TInv, TypeOK, ThreadTypes, EndInv, DestroyInv
<1>1. CASE TimerStep \/ UNCHANGED vars
  BY <1>1 DEF TimerStep, TimerDone, TimerTimeout, TimerBump, TimerTake, TimerAbort
<1>2. CASE StartWorker
  BY <1>2 DEF StartWorker, StartCheck, StartLock, StartCall, StartPublish, StartFlag,
              StartStopLock, StartStop
<1>3. CASE ShutdownWorker
  BY <1>3 DEF ShutdownWorker, ShutCheck, ShutJoin, ShutJoined, ShutFlag, ShutStopLock, ShutStop,
              ShutDelete, ShutPublish, DestroyCallbacks, Orphans
<1>4. CASE \E s \in Sends : SdkEnters(s) \/ SdkThread(s)
  BY <1>4 DEF SdkEnters, SdkThread, SdkClaims, SdkDelivers, SdkDeliveryFails, SdkReleases,
              SdkPurges
<1> QED BY <1>1, <1>2, <1>3, <1>4

\* All the invariants hold throughout.
LEMMA AllInvHolds == SafetySpec => []AllInv
<1>1. AllInv /\ [Next]_vars => EndInv'
  BY PinNext, DestroyMain, DestroyOthers DEF EndInv, Next, Finished
<1>2. SafetySpec => [](Inv /\ CountInv /\ WaitInv)
  BY WaitInvHolds
<1> QED BY <1>1, <1>2, EndInvInit, PTL DEF SafetySpec, AllInv

\* For any number of sends and faults and in every build: a producer that is gone
\* has freed its callbacks, no TSFN is open, and no thread is left joinable.
THEOREM CleanEnd == SafetySpec => []NothingLeftBehind
<1>1. ASSUME AllInv, main.pc = "gone" PROVE NothingLeftBehind
  <2>1. main.op = "dtor"
    BY <1>1 DEF AllInv, Inv, TInv, TypeOK, ThreadTypes, MainOK, MainOps, SendPcs, WaitInv, PcInv
  <2>2. tracked = {} /\ pinned = {} /\ timer.owner # "slot"
    BY <1>1, <2>1 DEF AllInv, EndInv, DestroyInv, WaitInv, WhoInv
  <2>3. \A s \in Sends : ~Building(s)
    BY <1>1, <2>1 DEF AllInv, Inv, TInv, MainOK, Building
  <2> QED BY <1>1, <2>2, <2>3
          DEF AllInv, EndInv, PinInv, NothingLeftBehind, Inv, TInv, TypeOK, SendTypes
<1>2. AllInv => NothingLeftBehind
  BY <1>1 DEF NothingLeftBehind
<1> QED BY AllInvHolds, <1>2, PTL

-----------------------------------------------------------------------------
(* No mutex is held across a join: as long as a thread is at work, one of  *)
(* them can take its next step.                                            *)

\* native_access_mutex_ is held by the thread in a call of the SDK, and by no other.
HolderInv ==
    /\ native = "main" <=> main.pc \in {"call", "sdkStop"}
    /\ native = "start" <=> start.pc \in {"call", "stop"}
    /\ native = "shut" <=> shut.pc = "stop"

\* Who joins the timer thread has taken it over, and it was started.
JoinInv ==
    /\ timer.pc = "none" <=> timer.owner = "none"
    /\ main.pc = "joining" \/ shut.pc = "joining" => timer.owner # "none"

\* The SDK producer is started once, by the one start worker.
FreshInv ==
    /\ lifecycle = "Idle" => start.pc = "none" /\ sdkState = "fresh"
    /\ start.pc \in {"queued", "lock", "call"} => sdkState = "fresh"

GoInv == HolderInv /\ JoinInv /\ FreshInv

LEMMA GoInvInit == Init => GoInv
BY DEF Init, Idle, GoInv, HolderInv, JoinInv, FreshInv

\* A step that moves no thread of the shutdown and none that holds the mutex.
LEMMA GoSame ==
  ASSUME GoInv, UNCHANGED <<native, sdkState, start, shut, timer, lifecycle>>,
         main'.pc = main.pc \/ {main.pc, main'.pc} \cap {"call", "sdkStop", "joining"} = {}
  PROVE  GoInv'
BY DEF GoInv, HolderInv, JoinInv, FreshInv

\* The stop of the SDK never makes it fresh again.
LEMMA GoStop ==
  ASSUME SdkStop \/ SdkStopFails, sdkState \in {"fresh", "running", "stopped"}
  PROVE  sdkState = "fresh" => sdkState' = "fresh"
BY DEF SdkStop, SdkStopFails

\* The steps that carry one send.
LEMMA GoSend ==
  ASSUME Inv, WaitInv, GoInv,
         \/ SendStep \/ CallJsTells \/ CallJsReturns
         \/ \E s \in Sends : SendAdmit(s) \/ CallJs(s) \/ Finalize(s)
         \/ \E s \in Sends : SdkEnters(s) \/ SdkThread(s)
  PROVE  GoInv'
<1> USE DEF Inv, TInv, TypeOK, ThreadTypes, ObjectTypes
<1>1. CASE SendBuildFails \/ SendConstruct
  BY <1>1, GoSame DEF SendBuildFails, SendConstruct, MainAt, MainGoto, Idle
<1>2. CASE SendCheckGeneration
  <2>1. main'.pc \in {"lock", "loop"}
    BY <1>2 DEF SendCheckGeneration, SendUnwind, MainGoto, Idle
  <2> QED BY <1>2, <2>1, GoSame DEF SendCheckGeneration, SendUnwind, MainAt
<1>3. CASE SendLock
  BY <1>3 DEF SendLock, MainAt, MainGoto, GoInv, HolderInv, JoinInv, FreshInv
<1>4. CASE SendAccepted \/ SendThrows
  BY <1>4 DEF SendAccepted, SendThrows, SendUnwind, MainAt, Idle, GoInv, HolderInv, JoinInv,
              FreshInv
<1>5. CASE CallJsTells \/ CallJsReturns \/ \E s \in Sends : SendAdmit(s) \/ CallJs(s) \/ Finalize(s)
  BY <1>5, GoSame DEF CallJsTells, CallJsReturns, SendAdmit, CallJs, Finalize, MainAt, MainGoto, Idle
<1>6. CASE \E s \in Sends : SdkEnters(s) \/ SdkThread(s)
  BY <1>6, GoSame DEF SdkEnters, SdkThread, SdkClaims, SdkDelivers, SdkDeliveryFails,
                      SdkReleases, SdkPurges
<1> QED BY <1>1, <1>2, <1>3, <1>4, <1>5, <1>6 DEF SendStep

\* What the application asks for, and the timer thread.
LEMMA GoApplication ==
  ASSUME Inv, WaitInv, GoInv,
         \/ Start \/ Shutdown \/ ShutdownRetry \/ ForceDestroy \/ DropReference \/ Destroy
         \/ ShutdownStep \/ TimerStep
  PROVE  GoInv'
<1> USE DEF Inv, TInv, TypeOK, ThreadTypes, ObjectTypes
<1>1. CASE Start
  BY <1>1 DEF Start, GoInv, HolderInv, JoinInv, FreshInv
<1>2. CASE Shutdown
  BY <1>2 DEF Shutdown, ShutdownPoints, GoInv, HolderInv, JoinInv, FreshInv
<1>3. CASE ShutdownRetry \/ ForceDestroy \/ DropReference \/ Destroy
  BY <1>3 DEF ShutdownRetry, ForceDestroy, DropReference, Destroy, ShutdownPoints, GoInv,
              HolderInv, JoinInv, FreshInv
<1>4. CASE ShutdownEnqueue
  <2>1. main'.pc = main.ret /\ shut'.pc = "queued" /\ shut.pc # "stop"
    BY <1>4 DEF ShutdownEnqueue, Returned, MainAt, WaitInv, WhoInv, ShutBusy
  <2> QED BY <1>4, <2>1 DEF ShutdownEnqueue, MainAt, GoInv, HolderInv, JoinInv, FreshInv
<1>5. CASE ShutdownQueueFails
  BY <1>5, GoSame DEF ShutdownQueueFails, MainAt
<1>6. CASE TimerStep
  BY <1>6 DEF TimerStep, TimerDone, TimerTimeout, TimerBump, TimerTake, TimerAbort, GoInv,
              HolderInv, JoinInv, FreshInv
<1> QED BY <1>1, <1>2, <1>3, <1>4, <1>5, <1>6 DEF ShutdownStep

\* The main thread in a shutdown or a destruction.
LEMMA GoMain == ASSUME Inv, WaitInv, GoInv, MainCommon PROVE GoInv'
<1> USE DEF Inv, TInv, TypeOK, ThreadTypes, ObjectTypes, MainGoto
<1>0. ASSUME AfterJoin PROVE main'.pc \in {"enqueue", "flag", "delete", "loop", "build", "callback"}
  BY <1>0 DEF AfterJoin, Returned
<1>1. CASE MainBump \/ MainTake \/ MainAbort
  BY <1>1, GoSame DEF MainBump, MainTake, MainAbort
<1>2. CASE MainJoin \/ MainJoined
  BY <1>2, <1>0 DEF MainJoin, MainJoined, TimerInSlot, GoInv, HolderInv, JoinInv, FreshInv
<1>3. CASE MainFlag
  BY <1>3, GoSame DEF MainFlag, AfterStop
<1>4. CASE MainStopLock
  BY <1>4 DEF MainStopLock, GoInv, HolderInv, JoinInv, FreshInv
<1>5. CASE MainStop
  BY <1>5, GoStop DEF MainStop, AfterStop, GoInv, HolderInv, JoinInv, FreshInv
<1>6. CASE MainMembers
  BY <1>6, GoStop DEF MainMembers, GoInv, HolderInv, JoinInv, FreshInv
<1>7. CASE MainDelete
  BY <1>7, GoSame DEF MainDelete, Idle
<1> QED BY <1>1, <1>2, <1>3, <1>4, <1>5, <1>6, <1>7 DEF MainCommon

\* The start worker.
LEMMA GoStart == ASSUME Inv, WaitInv, GoInv, StartWorker \/ StartCompletes PROVE GoInv'
<1> USE DEF Inv, TInv, TypeOK, ThreadTypes, ObjectTypes, StartGoto, GoInv, HolderInv, JoinInv,
            FreshInv
<1>1. CASE StartCheck \/ StartLock
  BY <1>1 DEF StartCheck, StartLock
<1>2. CASE StartCall
  BY <1>2 DEF StartCall, WaitInv, OpenInv
<1>3. CASE StartPublish \/ StartFlag \/ StartStopLock
  BY <1>3 DEF StartPublish, StartFlag, StartStopLock
<1>4. CASE StartStop
  BY <1>4, GoStop DEF StartStop
<1>5. CASE StartCompletes
  BY <1>5 DEF StartCompletes
<1> QED BY <1>1, <1>2, <1>3, <1>4, <1>5 DEF StartWorker

\* The shutdown worker.
LEMMA GoShut == ASSUME Inv, WaitInv, GoInv, ShutdownWorker \/ ShutCompletes PROVE GoInv'
<1> USE DEF Inv, TInv, TypeOK, ThreadTypes, ObjectTypes, ShutGoto, GoInv, HolderInv, JoinInv,
            FreshInv
<1>1. CASE ShutCheck \/ ShutJoined \/ ShutFlag \/ ShutStopLock
  BY <1>1 DEF ShutCheck, ShutJoined, ShutFlag, ShutStopLock
<1>2. CASE ShutJoin
  BY <1>2 DEF ShutJoin, TimerInSlot
<1>3. CASE ShutStop
  BY <1>3, GoStop DEF ShutStop
<1>4. CASE ShutDelete \/ ShutPublish \/ ShutCompletes
  BY <1>4 DEF ShutDelete, ShutPublish, ShutCompletes
<1> QED BY <1>1, <1>2, <1>3, <1>4 DEF ShutdownWorker

\* Reachable states satisfy the invariants of the shutdown and this one.
LEMMA GoInvHolds == SafetySpec => [](Inv /\ WaitInv /\ GoInv)
<1>1. ASSUME Inv, WaitInv, GoInv, [Next]_vars PROVE GoInv'
  <2>1. CASE UNCHANGED vars
    BY <1>1, <2>1, GoSame
  <2> QED BY <1>1, <2>1, GoSend, GoApplication, GoMain, GoStart, GoShut
          DEF Next, Application, MainThread, Finished
<1>2. Inv /\ WaitInv /\ GoInv /\ [Next]_vars => GoInv'
  BY <1>1
<1> QED BY <1>2, WaitInvHolds, GoInvInit, PTL DEF SafetySpec

\* No thread of the SDK is inside a callback.
SdkQuiet == \A s \in Sends : sdk[s] \notin InCallback

\* producer_.shutdown() returns at once.
StopMayReturn == sdkState = "running" /\ ~SharedInstance => SdkQuiet

\* Nothing keeps the thread from its next step: the guards of the steps.
MainMayStep ==
    /\ main.pc \notin {"loop", "gone"}
    /\ main.pc \in {"lock", "sdkLock"} => native = "free"
    /\ main.pc = "joining" => timer.pc = "done"
    /\ main.pc \in {"sdkStop", "members"} => StopMayReturn

StartMayStep ==
    /\ start.pc # "none"
    /\ start.pc \in {"lock", "stopLock"} => native = "free"
    /\ start.pc = "call" => sdkState = "fresh"
    /\ start.pc = "stop" => StopMayReturn
    /\ start.pc = "complete" => main.pc = "loop"

ShutMayStep ==
    /\ shut.pc # "none"
    /\ shut.pc = "stopLock" => native = "free"
    /\ shut.pc = "joining" => timer.pc = "done"
    /\ shut.pc = "stop" => StopMayReturn
    /\ shut.pc = "complete" => main.pc = "loop"

TimerMayStep == timer.pc \notin {"none", "done"}

SomebodyMayStep == MainMayStep \/ StartMayStep \/ ShutMayStep \/ TimerMayStep \/ ~SdkQuiet

AtWork == main.pc \notin {"loop", "gone"} \/ start.pc # "none" \/ shut.pc # "none"

\* As long as the main thread or a worker is at work, one of them, the cancel timer or an
\* SDK thread inside a callback can go on, with no help of the application and no answer
\* from a broker: native_access_mutex_, the join of the timer thread, the stop of the SDK
\* and the completions of the workers never block all of them (lib/producer.cpp).
THEOREM SomebodyMoves == SafetySpec => [](AtWork => SomebodyMayStep)
<1>1. ASSUME Inv, WaitInv, GoInv, AtWork PROVE SomebodyMayStep
  <2> USE <1>1 DEF SomebodyMayStep, Inv, TInv, TypeOK, ThreadTypes, GoInv
  <2>1. CASE ~SdkQuiet
    BY <2>1
  <2>2. CASE SdkQuiet
    <3>0. StopMayReturn
      BY <2>2 DEF StopMayReturn
    <3>1. CASE native # "free"
      <4>1. native \in {"main", "start", "shut"}
        BY <3>1 DEF ObjectTypes
      <4> QED BY <3>0, <4>1 DEF HolderInv, FreshInv, MainMayStep, StartMayStep, ShutMayStep
    <3>2. CASE native = "free" /\ timer.pc \notin {"none", "done"}
      BY <3>2 DEF TimerMayStep
    <3>3. CASE native = "free" /\ timer.pc \in {"none", "done"}
      <4>1. main.pc = "joining" \/ shut.pc = "joining" => timer.pc = "done"
        BY <3>3 DEF JoinInv
      <4>2. CASE main.pc \notin {"loop", "gone"}
        BY <3>0, <3>3, <4>1, <4>2 DEF MainMayStep
      <4>3. CASE main.pc \in {"loop", "gone"} /\ start.pc # "none"
        <5>1. main.pc = "loop"
          BY <4>3 DEF WaitInv, PcInv, WhoInv, MainOK, MainOps, SendPcs
        <5> QED BY <3>0, <3>3, <4>3, <5>1 DEF StartMayStep, HolderInv
      <4>4. CASE main.pc \in {"loop", "gone"} /\ start.pc = "none"
        <5>1. main.pc = "loop" /\ shut.pc # "none"
          BY <4>4 DEF AtWork, WaitInv, PcInv, WhoInv, MainOK, MainOps, SendPcs
        <5> QED BY <3>0, <3>3, <4>1, <5>1 DEF ShutMayStep
      <4> QED BY <4>2, <4>3, <4>4
    <3> QED BY <3>1, <3>2, <3>3
  <2> QED BY <2>1, <2>2
<1>2. Inv /\ WaitInv /\ GoInv => (AtWork => SomebodyMayStep)
  BY <1>1
<1> QED BY <1>2, GoInvHolds, PTL

-----------------------------------------------------------------------------
(* Whoever goes on comes nearer to its end.                                *)

\* How many steps the main thread has still to take, at most, until it is back in the
\* event loop or in the JavaScript code that called shutdown(): the destructor stops the
\* SDK first, a forced destruction and a further attempt of Shutdown join the timer first.
MainRank ==
    LET pc == main.pc IN
    CASE pc \in {"loop", "gone"} -> 0
      [] pc \in {"callback", "members"} -> 1
      [] pc \in {"call", "delete", "result", "cancelled"} -> 2
      [] pc = "lock" -> 3
      [] pc = "check" -> 4
      [] pc = "build" -> 5
      [] pc = "sdkStop" -> IF main.op = "dtor" THEN 11 ELSE 3
      [] pc = "sdkLock" -> IF main.op = "dtor" THEN 12 ELSE 4
      [] pc = "flag" -> IF main.op = "dtor" THEN 13 ELSE 5
      [] pc = "joining" -> IF main.op = "shutdown" THEN 12 ELSE 6
      [] pc = "join" -> IF main.op = "shutdown" THEN 13 ELSE 7
      [] pc = "abort" -> 8
      [] pc = "take" -> 9
      [] pc = "bump" -> 10
      [] OTHER -> 11

\* The same of ProducerStartWorker and ProducerShutdownWorker.
WorkerRank(pc) ==
    CASE pc = "none" -> 0
      [] pc = "complete" -> 1
      [] pc = "publish" -> 2
      [] pc = "delete" -> 3
      [] pc = "stop" -> 4
      [] pc = "stopLock" -> 5
      [] pc = "flag" -> 6
      [] pc = "joining" -> 7
      [] pc = "join" -> 8
      [] pc = "call" -> 9
      [] pc = "lock" -> 10
      [] OTHER -> 11

\* StartPublish stops the producer that was destroyed meanwhile, after it published.
StartRank == IF start.pc = "publish" THEN 7 ELSE WorkerRank(start.pc)

TimerRank ==
    CASE timer.pc = "waiting" -> 4
      [] timer.pc = "bump" -> 3
      [] timer.pc = "take" -> 2
      [] timer.pc = "abort" -> 1
      [] OTHER -> 0

\* How far the SDK is with the callback of s.
SdkRank(s) ==
    CASE sdk[s] = "accepted" -> 5
      [] sdk[s] = "entered" -> 4
      [] sdk[s] = "deliver" -> 3
      [] sdk[s] = "release" -> 2
      [] sdk[s] = "purge" -> 1
      [] OTHER -> 0

BeginsShutdown == main.op # "shutdown" /\ main'.op = "shutdown"

MainAdvances ==
    main'.pc # main.pc /\ main.pc # "loop" /\ ~BeginsShutdown => MainRank' < MainRank
WorkersAdvance ==
    /\ start' # start /\ start.pc # "none" => StartRank' < StartRank
    /\ shut' # shut /\ shut.pc \notin {"none", "complete"}
         => WorkerRank(shut.pc)' < WorkerRank(shut.pc)
TimerAdvances == timer'.pc # timer.pc /\ timer.pc # "none" => TimerRank' < TimerRank
SdkAdvances == \A s \in Sends : sdk'[s] # sdk[s] /\ sdk[s] # "none" => SdkRank(s)' < SdkRank(s)

\* Shutdown sequences and sends on the main thread.
LEMMA MainGoesOn == ASSUME Inv, WaitInv, Next PROVE MainAdvances
<1> USE DEF Inv, TInv, TypeOK, ThreadTypes, MainAdvances, MainRank, MainGoto
<1>1. CASE SendStep
  <2>1. \/ main.pc = "build" /\ main'.pc \in {"loop", "check"}
        \/ main.pc = "check" /\ main'.pc \in {"loop", "lock"}
        \/ main.pc = "lock" /\ main'.pc = "call"
        \/ main.pc = "call" /\ main'.pc = "loop"
    BY <1>1 DEF SendStep, SendBuildFails, SendConstruct, SendCheckGeneration, SendLock,
                SendAccepted, SendThrows, SendUnwind, MainAt, Idle
  <2> QED BY <2>1
<1>2. CASE CallJsTells \/ CallJsReturns
  BY <1>2 DEF CallJsTells, CallJsReturns, MainAt, Idle
<1>3. CASE ShutdownStep
  <2>1. \/ main'.pc = main.ret
        \/ main'.pc = "bump"
    <3>1. CASE ShutdownEnqueue
      <4>1. main' = Returned
        BY <3>1 DEF ShutdownEnqueue
      <4> QED BY <4>1 DEF Returned
    <3>2. CASE ShutdownQueueFails
      BY <3>2 DEF ShutdownQueueFails
    <3> QED BY <1>3, <3>1, <3>2 DEF ShutdownStep
  <2>2. main.pc = "enqueue"
    BY <1>3 DEF ShutdownStep, ShutdownEnqueue, ShutdownQueueFails, MainAt
  <2>3. MainRank = 11
    BY <2>2
  <2>4. MainRank' \in {0, 1, 5, 10}
    BY <2>1
  <2> QED BY <2>3, <2>4
<1>4. CASE MainCommon
  <2> USE DEF WaitInv, PcInv, MainOK
  <2>1. CASE MainBump \/ MainTake \/ MainAbort
    BY <2>1 DEF MainBump, MainTake, MainAbort
  <2>2. CASE MainJoin /\ TimerInSlot
    <3>1. main.pc = "join" /\ main'.pc = "joining" /\ main'.op = main.op
      BY <2>2 DEF MainJoin
    <3> QED BY <3>1
  <2>3. CASE (MainJoin /\ ~TimerInSlot) \/ MainJoined
    <3>1. AfterJoin /\ main.pc \in {"join", "joining"}
      BY <2>3 DEF MainJoin, MainJoined
    <3>2. CASE main.op \in {"shutdown", "forceDestroy", "dtor"}
      BY <3>1, <3>2 DEF AfterJoin
    <3>3. CASE main.op \notin {"shutdown", "forceDestroy", "dtor"}
      <4>1. main'.pc = main.ret
        BY <3>1, <3>3 DEF AfterJoin, Returned
      <4> QED BY <3>1, <3>3, <4>1
    <3> QED BY <3>2, <3>3
  <2>4. CASE MainFlag
    <3>1. main.pc = "flag" /\ main'.op = main.op
      BY <2>4 DEF MainFlag, AfterStop
    <3>2. \/ main'.pc = "sdkLock"
          \/ main'.pc = "bump" /\ main.op = "dtor"
          \/ main'.pc = "delete" /\ main.op # "dtor"
      BY <2>4 DEF MainFlag, AfterStop
    <3> QED BY <3>1, <3>2
  <2>5. CASE MainStopLock
    BY <2>5 DEF MainStopLock
  <2>6. CASE MainStop
    BY <2>6 DEF MainStop, AfterStop
  <2>7. CASE MainDelete
    BY <2>7 DEF MainDelete, Idle
  <2>8. CASE MainMembers
    BY <2>8 DEF MainMembers
  <2> QED BY <1>4, <2>1, <2>2, <2>3, <2>4, <2>5, <2>6, <2>7, <2>8 DEF MainCommon
<1>5. CASE Shutdown \/ ShutdownRetry
  <2>1. main.op # "shutdown"
    BY <1>5 DEF Shutdown, ShutdownRetry, ShutdownPoints, WaitInv, PcInv
  <2> QED BY <1>5, <2>1 DEF Shutdown, ShutdownRetry, BeginsShutdown
<1>6. CASE main.pc = "loop" \/ UNCHANGED main
  BY <1>6
<1>7. CASE StartWorker \/ StartCompletes
  BY <1>7, <1>6 DEF StartWorker, StartCheck, StartLock, StartCall, StartPublish, StartFlag,
                    StartStopLock, StartStop, StartCompletes
<1>8. CASE ShutdownWorker \/ ShutCompletes
  BY <1>8, <1>6 DEF ShutdownWorker, ShutCheck, ShutJoin, ShutJoined, ShutFlag, ShutStopLock,
                    ShutStop, ShutDelete, ShutPublish, ShutCompletes
<1>9. CASE TimerStep
  BY <1>9, <1>6 DEF TimerStep, TimerDone, TimerTimeout, TimerBump, TimerTake, TimerAbort
<1>10. CASE \E s \in Sends : SdkEnters(s) \/ SdkThread(s)
  BY <1>10, <1>6 DEF SdkEnters, SdkThread, SdkClaims, SdkDelivers, SdkDeliveryFails,
                     SdkReleases, SdkPurges
<1>11. CASE \/ Start \/ ForceDestroy \/ DropReference \/ Destroy \/ Finished
            \/ \E s \in Sends : SendAdmit(s) \/ CallJs(s) \/ Finalize(s)
  BY <1>11, <1>6 DEF Start, ForceDestroy, DropReference, Destroy, Finished, SendAdmit, CallJs,
                     Finalize
<1> QED BY <1>1, <1>2, <1>3, <1>4, <1>5, <1>7, <1>8, <1>9, <1>10, <1>11
        DEF Next, Application, MainThread

\* The actions of the main thread and of the SDK that touch neither worker nor timer.
LEMMA OthersLeaveWorkers ==
  ASSUME \/ SendStep \/ CallJsTells \/ CallJsReturns \/ \E s \in Sends : SendAdmit(s) \/ CallJs(s) \/ Finalize(s)
         \/ \E s \in Sends : SdkEnters(s) \/ SdkThread(s)
         \/ DropReference \/ ShutdownRetry \/ ForceDestroy \/ Destroy \/ ShutdownQueueFails
  PROVE  UNCHANGED <<start, shut, timer>>
<1>1. CASE SendStep
  BY <1>1 DEF SendStep, SendBuildFails, SendConstruct, SendCheckGeneration, SendLock,
              SendAccepted, SendThrows, SendUnwind
<1>2. CASE CallJsTells \/ CallJsReturns \/ \E s \in Sends : SendAdmit(s) \/ CallJs(s) \/ Finalize(s)
  BY <1>2 DEF CallJsTells, CallJsReturns, SendAdmit, CallJs, Finalize
<1>3. CASE \E s \in Sends : SdkEnters(s) \/ SdkThread(s)
  BY <1>3 DEF SdkEnters, SdkThread, SdkClaims, SdkDelivers, SdkDeliveryFails, SdkReleases,
              SdkPurges
<1>4. CASE DropReference \/ ShutdownRetry \/ ForceDestroy \/ Destroy \/ ShutdownQueueFails
  BY <1>4 DEF DropReference, ShutdownRetry, ForceDestroy, Destroy, ShutdownQueueFails
<1> QED BY <1>1, <1>2, <1>3, <1>4

\* The workers, and the main thread that queues them.
LEMMA WorkersGoOn == ASSUME Inv, WaitInv, GoInv, Next PROVE WorkersAdvance
<1> USE DEF Inv, TInv, TypeOK, ThreadTypes, WorkersAdvance
<1>1. CASE StartWorker
  <2>1. UNCHANGED shut
    BY <1>1 DEF StartWorker, StartCheck, StartLock, StartCall, StartPublish, StartFlag,
                StartStopLock, StartStop
  <2>2. \/ start.pc = "queued" /\ start'.pc \in {"complete", "lock"}
        \/ start.pc = "lock" /\ start'.pc = "call"
        \/ start.pc = "call" /\ start'.pc = "publish"
        \/ start.pc = "publish" /\ start'.pc \in {"flag", "complete"}
        \/ start.pc = "flag" /\ start'.pc \in {"stopLock", "complete"}
        \/ start.pc = "stopLock" /\ start'.pc = "stop"
        \/ start.pc = "stop" /\ start'.pc = "complete"
    BY <1>1 DEF StartWorker, StartCheck, StartLock, StartCall, StartPublish, StartFlag,
                StartStopLock, StartStop, StartGoto
  <2> QED BY <2>1, <2>2 DEF StartRank, WorkerRank
<1>2. CASE ShutdownWorker
  <2>1. UNCHANGED start
    BY <1>2 DEF ShutdownWorker, ShutCheck, ShutJoin, ShutJoined, ShutFlag, ShutStopLock,
                ShutStop, ShutDelete, ShutPublish
  <2>2. \/ shut.pc = "queued" /\ shut'.pc \in {"complete", "join"}
        \/ shut.pc = "join" /\ shut'.pc \in {"joining", "flag"}
        \/ shut.pc = "joining" /\ shut'.pc = "flag"
        \/ shut.pc = "flag" /\ shut'.pc \in {"stopLock", "delete"}
        \/ shut.pc = "stopLock" /\ shut'.pc = "stop"
        \/ shut.pc = "stop" /\ shut'.pc = "delete"
        \/ shut.pc = "delete" /\ shut'.pc = "publish"
        \/ shut.pc = "publish" /\ shut'.pc = "complete"
    BY <1>2 DEF ShutdownWorker, ShutCheck, ShutJoin, ShutJoined, ShutFlag, ShutStopLock,
                ShutStop, ShutDelete, ShutPublish, ShutGoto
  <2> QED BY <2>1, <2>2 DEF WorkerRank
<1>3. CASE StartCompletes \/ ShutCompletes
  BY <1>3 DEF StartCompletes, ShutCompletes, StartGoto, ShutGoto, StartRank, WorkerRank
<1>4. CASE Start
  BY <1>4 DEF Start, GoInv, FreshInv
<1>5. CASE ShutdownEnqueue
  BY <1>5 DEF ShutdownEnqueue, MainAt, WaitInv, WhoInv, ShutBusy
<1>6. CASE Shutdown \/ MainCommon \/ TimerStep \/ Finished
  BY <1>6 DEF Shutdown, Finished, MainCommon, MainBump, MainTake, MainAbort, MainJoin, MainJoined,
              MainFlag, MainStopLock, MainStop, MainDelete, MainMembers, TimerStep, TimerDone,
              TimerTimeout, TimerBump, TimerTake, TimerAbort
<1> QED BY <1>1, <1>2, <1>3, <1>4, <1>5, <1>6, OthersLeaveWorkers
        DEF Next, Application, MainThread, ShutdownStep

\* The cancel timer, which is started once.
LEMMA TimerGoesOn == ASSUME Inv, WaitInv, GoInv, Next PROVE TimerAdvances
<1> USE DEF Inv, TInv, TypeOK, ThreadTypes, TimerAdvances
<1>1. CASE TimerStep
  <2>1. \/ timer.pc = "waiting" /\ timer'.pc \in {"done", "bump"}
        \/ timer.pc = "bump" /\ timer'.pc = "take"
        \/ timer.pc = "take" /\ timer'.pc = "abort"
        \/ timer.pc = "abort" /\ timer'.pc = "done"
    BY <1>1 DEF TimerStep, TimerDone, TimerTimeout, TimerBump, TimerTake, TimerAbort
  <2> QED BY <2>1 DEF TimerRank
<1>2. CASE Shutdown
  BY <1>2 DEF Shutdown, WaitInv, OpenInv, Closed
<1>3. CASE MainJoin \/ ShutJoin
  BY <1>3 DEF MainJoin, ShutJoin
<1>4. CASE StartWorker \/ StartCompletes \/ Start \/ ShutdownEnqueue \/ ShutCompletes \/ Finished
  BY <1>4 DEF Start, ShutdownEnqueue, StartCompletes, ShutCompletes, StartWorker, StartCheck,
              StartLock, StartCall, StartPublish, StartFlag, StartStopLock, StartStop, Finished
<1>5. CASE \/ MainBump \/ MainTake \/ MainAbort \/ MainJoined \/ MainFlag \/ MainStopLock \/ MainStop
           \/ MainDelete \/ MainMembers
  BY <1>5 DEF MainBump, MainTake, MainAbort, MainJoined, MainFlag, MainStopLock, MainStop,
              MainDelete, MainMembers
<1>6. CASE \/ ShutCheck \/ ShutJoined \/ ShutFlag \/ ShutStopLock \/ ShutStop \/ ShutDelete
           \/ ShutPublish
  BY <1>6 DEF ShutCheck, ShutJoined, ShutFlag, ShutStopLock, ShutStop, ShutDelete, ShutPublish
<1> QED BY <1>1, <1>2, <1>3, <1>4, <1>5, <1>6, OthersLeaveWorkers
        DEF Next, Application, MainThread, ShutdownStep, MainCommon, ShutdownWorker

\* One callback, from producer_.send() until the SDK is through with it or drops it.
LEMMA SdkGoesOn == ASSUME Inv, Next PROVE SdkAdvances
<1> USE DEF Inv, TInv, TypeOK, SendTypes, SdkAdvances
<1>1. CASE \E s \in Sends : SdkEnters(s) \/ SdkThread(s)
  <2>1. PICK s \in Sends : SdkEnters(s) \/ SdkThread(s)
    BY <1>1
  <2>2. /\ \A z \in Sends \ {s} : sdk'[z] = sdk[z]
        /\ \/ sdk[s] = "accepted" /\ sdk'[s] = "entered"
           \/ sdk[s] = "entered" /\ sdk'[s] \in {"deliver", "returned"}
           \/ sdk[s] = "deliver" /\ sdk'[s] = "release"
           \/ sdk[s] = "release" /\ sdk'[s] = "purge"
           \/ sdk[s] = "purge" /\ sdk'[s] = "returned"
    BY <2>1 DEF SdkEnters, SdkThread, SdkClaims, SdkDelivers, SdkDeliveryFails, SdkReleases,
                SdkPurges, SdkGoto
  <2> QED BY <2>2 DEF SdkRank
<1>2. CASE SendAccepted
  <2>1. main.send \in Sends /\ sdk[main.send] = "none"
    BY <1>2 DEF SendAccepted, MainAt, MainOK, SInv, SendInv, CallbackInv, Holding
  <2> QED BY <1>2, <2>1 DEF SendAccepted, SdkGoto
<1>3. ASSUME SdkStop \/ SdkStopFails PROVE SdkAdvances
  <2>1. \A s \in Sends : sdk'[s] = sdk[s] \/ (sdk[s] = "accepted" /\ sdk'[s] = "dropped")
    BY <1>3 DEF SdkStop, SdkStopFails
  <2> QED BY <2>1 DEF SdkRank
<1>4. CASE MainStop \/ MainMembers \/ StartStop \/ ShutStop
  BY <1>3, <1>4 DEF MainStop, MainMembers, StartStop, ShutStop
<1>5. CASE UNCHANGED sdk
  BY <1>5
<1>6. CASE \/ SendBuildFails \/ SendConstruct \/ SendCheckGeneration \/ SendLock \/ SendThrows
           \/ CallJsTells \/ CallJsReturns \/ \E s \in Sends : SendAdmit(s) \/ CallJs(s) \/ Finalize(s)
  BY <1>5, <1>6 DEF SendBuildFails, SendConstruct, SendCheckGeneration, SendLock, SendThrows,
                    SendUnwind, CallJsTells, CallJsReturns, SendAdmit, CallJs, Finalize
<1>7. CASE \/ Start \/ Shutdown \/ ShutdownRetry \/ ForceDestroy \/ DropReference \/ Destroy
           \/ ShutdownStep \/ TimerStep \/ Finished \/ StartCompletes \/ ShutCompletes
  BY <1>5, <1>7 DEF Start, Shutdown, ShutdownRetry, ForceDestroy, DropReference, Destroy,
                    ShutdownStep, ShutdownEnqueue, ShutdownQueueFails, TimerStep, TimerDone,
                    TimerTimeout, TimerBump, TimerTake, TimerAbort, Finished, StartCompletes,
                    ShutCompletes
<1>8. CASE \/ MainBump \/ MainTake \/ MainAbort \/ MainJoin \/ MainJoined \/ MainFlag \/ MainStopLock
           \/ MainDelete
  BY <1>5, <1>8 DEF MainBump, MainTake, MainAbort, MainJoin, MainJoined, MainFlag, MainStopLock,
                    MainDelete
<1>9. CASE StartCheck \/ StartLock \/ StartCall \/ StartPublish \/ StartFlag \/ StartStopLock
  BY <1>5, <1>9 DEF StartCheck, StartLock, StartCall, StartPublish, StartFlag, StartStopLock
<1>10. CASE \/ ShutCheck \/ ShutJoin \/ ShutJoined \/ ShutFlag \/ ShutStopLock \/ ShutDelete
            \/ ShutPublish
  BY <1>5, <1>10 DEF ShutCheck, ShutJoin, ShutJoined, ShutFlag, ShutStopLock, ShutDelete,
                     ShutPublish
<1> QED BY <1>1, <1>2, <1>4, <1>6, <1>7, <1>8, <1>9, <1>10
        DEF Next, Application, MainThread, MainCommon, StartWorker, ShutdownWorker, SendStep

\* Each step of a thread brings it nearer to the end of what it does: nothing in Send,
\* Shutdown, SafeShutdown, the workers, the cancel timer and ScheduleCallback runs in
\* circles, and none of them is entered again before it is through, but for a shutdown()
\* that is called from a callback or a getter (lib/producer.cpp).
THEOREM ThreadsAdvance ==
  SafetySpec => [][MainAdvances /\ WorkersAdvance /\ TimerAdvances /\ SdkAdvances]_vars
<1>1. Inv /\ WaitInv /\ GoInv /\ [Next]_vars
        => [MainAdvances /\ WorkersAdvance /\ TimerAdvances /\ SdkAdvances]_vars
  BY MainGoesOn, WorkersGoOn, TimerGoesOn, SdkGoesOn
<1> QED BY <1>1, GoInvHolds, PTL DEF SafetySpec
=============================================================================
