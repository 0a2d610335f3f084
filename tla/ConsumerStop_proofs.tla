------------------------- MODULE ConsumerStop_proofs -------------------------
(***************************************************************************)
(* What is proved of the listener and its TSFN while the push consumer     *)
(* stops.  Until ForceDestroy is called the start worker, the shutdown     *)
(* worker and the destructor stop the consumer one after the other; with   *)
(* ForceDestroy they do so at the same time, and the listener is safe if   *)
(* no thread stalls longer than WaitForIdle waits.  Last, that the         *)
(* consumer implements DeliveryService.                                    *)
(***************************************************************************)
EXTENDS ConsumerNative_proofs

USE DEF vars, lifeVars, listenerVars, callVars, sdkVars, envVars

-----------------------------------------------------------------------------
(* The invariant: what holds where the three threads are.                  *)

NoneAcquires == \A c \in Calls : at[c] # "acquire"

\* A released listener has been asked to shut down, and so has one that a thread
\* waits for; no call is between the test of the request and the TSFN when it goes.
ListenersOK ==
    /\ \A l \in Listeners : released[l] => requested[l]
    /\ \A t \in Threads : /\ thread[t].pc \in Sequence /\ thread[t].l \in Listeners
                               => requested[thread[t].l]
                          /\ thread[t].pc = "finalize" /\ thread[t].l \in Listeners
                               => NoneAcquires
    /\ serving \in Listeners /\ released[serving] => NoneAcquires

StartOK ==
    LET th == thread["start"] IN
    /\ th.pc \in {"rest", "queued", "lock", "call", "called", "state", "idle", "finalize",
                  "publish", "complete"}
    /\ th.pc # "rest" => th.op = "start"
    /\ th.pc \in {"queued", "lock", "call", "called"} => ~th.ok
    /\ th.pc \in {"queued", "lock", "call"} => sdkState = "fresh"
    /\ th.pc = "called" => sdkState = "running"
    /\ th.pc = "state" => sdkState = IF th.ok THEN "running" ELSE "failed"
    /\ th.pc \in {"idle", "finalize", "publish"} =>
         ~th.ok /\ lifecycle = "Shutdown" /\ sdkState = "failed" /\ th.l = serving
    /\ th.pc = "publish" => ServingReleased
    /\ lifecycle = "Starting" <=> th.pc \in {"queued", "lock", "call", "called", "state"}

ShutOK ==
    LET th == thread["shut"] IN
    /\ th.pc \in {"rest", "queued", "publish", "complete"} \cup Sequence
    /\ th.pc \notin {"rest", "complete"} => lifecycle = "ShuttingDown" /\ th.op = "shutdown"
    /\ active <=> th.pc \notin {"rest", "complete"}
    /\ th.pc \in Sequence \cup {"publish"} => th.l = serving
    /\ th.pc = "join" => sdkState # "running"
    /\ th.pc = "idle" => th.ok
    /\ th.pc \in {"finalize", "publish"} => sdkState = "stopped"
    /\ th.pc = "publish" => ServingReleased

MainOK ==
    LET th == thread["main"] IN
    /\ th.op \in {"none", "subscribe", "dtor"}
    /\ th.op = "dtor" <=> lifecycle = "Destroyed"
    /\ th.op = "dtor" <=> th.pc \notin {"rest", "lock"}
    /\ th.op = "dtor" =>
         /\ thread["start"].pc = "rest" /\ thread["shut"].pc = "rest" /\ ~held
    /\ th.pc \notin {"state", "queued", "call", "called", "failed", "complete", "sdkLock"}
    /\ th.pc = "idle" /\ ~th.ok => sdkState \in {"fresh", "failed", "stopped"}
    /\ th.pc = "join" => sdkState # "running"
    /\ th.pc = "gone" => sdkState = "stopped" /\ ServingReleased

SdkOK ==
    /\ Within # {} => sdkState \in {"running", "stopping"}
    /\ sdkFlag => \/ sdkState = "stopped"
                  \/ thread["shut"].pc \in {"sdkLock", "stop", "join", "failed"}
                  \/ thread["main"].pc \in {"stop", "join", "finalize", "publish", "members",
                                            "gone"}
    /\ lifecycle \in {"Starting", "Started", "ShuttingDown"} => current = serving
    /\ lifecycle \in {"Started", "ShuttingDown"} =>
         sdkState \in {"running", "stopping", "halted", "stopped"}
    /\ lifecycle = "Shutdown" => sdkState \in {"failed", "stopped"}
    /\ lifecycle = "Shutdown" /\ thread["start"].pc \in {"rest", "complete"} => ServingReleased

TInv == ListenersOK /\ StartOK /\ ShutOK /\ MainOK /\ SdkOK

LEMMA TInvInit == Init => TInv
<1> SUFFICES ASSUME Init PROVE TInv
  OBVIOUS
<1> USE DEF Init, Resting, Threads, Sequence
<1>1. Within = {}
  BY DEF Within, Inside, Guarded
<1>2. ListenersOK
  BY DEF ListenersOK, NoneAcquires
<1>3. StartOK
  BY DEF StartOK
<1>4. ShutOK
  BY DEF ShutOK
<1>5. MainOK
  BY DEF MainOK
<1>6. SdkOK
  BY <1>1 DEF SdkOK
<1> QED BY <1>2, <1>3, <1>4, <1>5, <1>6 DEF TInv

\* The consume threads keep the invariant: the flag is read before the TSFN.
LEMMA TInvCall ==
  ASSUME CInv, TInv, NEW c \in Calls, ConsumeMessage(c) \/ CallThread(c) \/ CallTimesOut(c)
  PROVE  TInv'
<1> USE DEF CallGoto, Returns
<1>1. UNCHANGED <<lifeVars, requested, released, sdkVars, held, current, thread>>
  BY DEF ConsumeMessage, CallThread, CallChecks, CallAcquires, CallOffers, CallOfferFails,
         CallResolves, CallGivesUp, CallTimesOut, CallLeaves
<1>2. /\ serving \in Listeners
      /\ Within' # {} => sdkState \in {"running", "stopping"}
  <2>1. CASE ConsumeMessage(c)
    BY <2>1 DEF CInv, Places, ConsumeMessage
  <2>2. CASE ~ConsumeMessage(c)
    <3>1. Within # {}
      BY <2>2 DEF Within, Inside, Guarded, CallThread, CallChecks, CallAcquires, CallOffers,
         CallOfferFails, CallResolves, CallGivesUp, CallTimesOut, CallLeaves
    <3> QED BY <3>1 DEF CInv, Places, TInv, SdkOK
  <2> QED BY <2>1, <2>2
<1>3. \/ CallChecks(c) /\ ~requested[serving]
      \/ \A d \in Calls : at'[d] = "acquire" => at[d] = "acquire"
  <2>1. CASE CallChecks(c)
    BY <2>1 DEF CallChecks, CInv, CallTypes
  <2>2. CASE ~CallChecks(c)
    <3>1. PICK pc \in {"check", "offer", "wait", "leave", "done"} : at' = [at EXCEPT ![c] = pc]
      BY <2>2 DEF ConsumeMessage, CallThread, CallAcquires, CallOffers, CallOfferFails,
         CallResolves, CallGivesUp, CallTimesOut, CallLeaves
    <3> QED BY <3>1 DEF CInv, CallTypes
  <2> QED BY <2>1, <2>2
<1>4. ~requested[serving] => /\ ~released[serving]
                             /\ \A t \in Threads : thread[t].pc = "finalize" => thread[t].l \notin Listeners
  <2>1. released[serving] => requested[serving]
    BY <1>2 DEF TInv, ListenersOK
  <2>2. ASSUME NEW t \in Threads, thread[t].pc = "finalize", thread[t].l \in Listeners
        PROVE  requested[serving]
    <3>1. thread[t].l = serving
      BY <2>2, SetAssumption DEF CInv, Places
    <3> QED BY <2>2, <3>1 DEF TInv, ListenersOK, Sequence
  <2> QED BY <2>1, <2>2
<1>5. ListenersOK'
  BY <1>1, <1>3, <1>4 DEF TInv, ListenersOK, NoneAcquires
<1>6. SdkOK'
  BY <1>1, <1>2 DEF TInv, SdkOK, ServingReleased
<1>7. StartOK' /\ ShutOK' /\ MainOK'
  BY <1>1 DEF TInv, StartOK, ShutOK, MainOK, ServingReleased
<1> QED BY <1>5, <1>6, <1>7 DEF TInv

\* When the SDK consumer does not run, no call is in the listener.
LEMMA QuietSdk ==
  ASSUME CInv, TInv, sdkState \notin {"running", "stopping"}
  PROVE  /\ Within = {} /\ NoneAcquires
         /\ \A l \in Listeners : inflight[l] = 0
<1>1. Within = {}
  BY DEF TInv, SdkOK
<1> QED BY <1>1, FS_EmptySet DEF Within, Inside, NoneAcquires, CInv, Counts

\* A listener whose idleness was observed has no call inside, and none acquires.
LEMMA QuietListener ==
  ASSUME CInv, TInv, NEW l \in Listeners, l = serving, inflight[l] = 0
  PROVE  NoneAcquires
<1>1. Cardinality(Within) = 0 /\ IsFiniteSet(Within)
  BY SetsFinite DEF CInv, Counts
<1>2. Within = {}
  BY <1>1, FS_EmptySet
<1> QED BY <1>2 DEF Within, Inside, NoneAcquires

\* Where the steps of the stop sequence can be taken.
LEMMA StopPlaces ==
  ASSUME CInv, TInv, NEW t \in Threads, thread[t].pc \in Sequence
  PROVE  /\ t = "start" => /\ thread[t].pc \in {"idle", "finalize"} /\ ~thread[t].ok
                           /\ lifecycle = "Shutdown" /\ sdkState = "failed"
         /\ t = "shut" => lifecycle = "ShuttingDown"
         /\ t = "main" => lifecycle = "Destroyed" /\ thread[t].op = "dtor"
         /\ \A u \in Threads : u # t => thread[u].pc \notin Sequence
BY DEF TInv, StartOK, ShutOK, MainOK, Threads, Sequence

LEMMA TInvFinalize == ASSUME CInv, TInv, NEW t \in Threads, FinalizeListener(t) PROVE TInv'
<1> USE DEF Sequence
<1>1. /\ UNCHANGED <<lifeVars, sdkVars, envVars, current, inflight, callVars>>
      /\ thread[t].pc = "finalize" /\ ThreadMoved(t, "publish")
  BY GotoMoves DEF FinalizeListener, At
<1>2. ListenerShutdown(thread[t].l)
  BY <1>1, StopPlaces DEF FinalizeListener, TInv, StartOK, ShutOK, Threads
<1>3. /\ thread[t].l \in {serving, NoListener} /\ (t \in {"start", "shut"} => thread[t].l = serving)
      /\ thread[t].l \in Listeners => NoneAcquires
  BY <1>1 DEF CInv, Places, TInv, ListenersOK, StartOK, ShutOK
<1>4. /\ \A l \in Listeners : /\ released[l] => released'[l]
                              /\ requested[l] => requested'[l]
                              /\ released'[l] => released[l] \/ l = thread[t].l
                              /\ released'[l] => requested'[l]
      /\ thread[t].l \in Listeners => released'[thread[t].l]
  <2>1. CASE thread[t].l = NoListener
    BY <1>2, <2>1, SetAssumption DEF ListenerShutdown, TInv, ListenersOK
  <2>2. CASE thread[t].l # NoListener
    BY <1>2, <2>2 DEF ListenerShutdown, TInv, ListenersOK, CInv, Shape
  <2> QED BY <2>1, <2>2
<1>5. ListenersOK'
  BY <1>1, <1>3, <1>4, StopPlaces DEF TInv, ListenersOK, NoneAcquires, ThreadMoved
<1>6. t \in {"start", "shut"} => ServingReleased'
  BY <1>1, <1>3, <1>4 DEF ServingReleased
<1>7. ServingReleased => ServingReleased'
  BY <1>1, <1>4 DEF ServingReleased
<1>8. StartOK' /\ ShutOK' /\ MainOK'
  BY <1>1, <1>6, <1>7, StopPlaces DEF TInv, StartOK, ShutOK, MainOK, ThreadMoved, Threads
<1>9. SdkOK'
  BY <1>1, <1>7, StopPlaces DEF TInv, SdkOK, StartOK, ThreadMoved, Threads, Within
<1> QED BY <1>5, <1>8, <1>9 DEF TInv

\* The steps of the sequence that leave the listener alone.
LEMMA StopKeepsListeners ==
  ASSUME CInv, TInv, NEW t \in Threads, thread[t].pc \in Sequence, NEW pc, pc \in Sequence,
         ThreadMoved(t, pc), UNCHANGED <<listenerVars, serving, at>>,
         pc = "finalize" => NoneAcquires
  PROVE  ListenersOK'
BY DEF TInv, ListenersOK, NoneAcquires, ThreadMoved

LEMMA TInvAwaitIdle == ASSUME CInv, TInv, NEW t \in Threads, AwaitIdle(t) PROVE TInv'
<1> USE DEF Sequence
<1>1. /\ UNCHANGED <<lifeVars, listenerVars, sdkVars, envVars, current, inflight, callVars>>
      /\ thread[t].pc = "idle"
  BY DEF AwaitIdle
<1>2. CASE thread[t].ok
  <2>1. ThreadMoved(t, "flag") /\ t \in {"shut", "main"}
    BY <1>1, <1>2, GotoMoves, StopPlaces DEF AwaitIdle, Threads
  <2>2. ListenersOK'
    BY <1>1, <2>1, StopKeepsListeners
  <2>3. StartOK' /\ ShutOK' /\ MainOK' /\ SdkOK'
    BY <1>1, <2>1 DEF TInv, StartOK, ShutOK, MainOK, SdkOK, ServingReleased, ThreadMoved, Threads, Within
  <2> QED BY <2>2, <2>3 DEF TInv
<1>3. CASE ~thread[t].ok
  <2>1. sdkState \in {"fresh", "failed", "stopped"} /\ t \in {"start", "main"}
    BY <1>1, <1>3 DEF TInv, StartOK, ShutOK, MainOK, Threads
  <2>2. ListenerIdle(thread[t].l) /\ NoneAcquires
    BY <2>1, QuietSdk DEF ListenerIdle
  <2>3. ThreadMoved(t, "finalize")
    BY <1>3, <2>2, GotoMoves DEF AwaitIdle
  <2>4. ListenersOK'
    BY <1>1, <2>2, <2>3, StopKeepsListeners
  <2>5. StartOK' /\ ShutOK' /\ MainOK' /\ SdkOK'
    BY <1>1, <2>1, <2>3 DEF TInv, StartOK, ShutOK, MainOK, SdkOK, ServingReleased, ThreadMoved, Threads, Within
  <2> QED BY <2>4, <2>5 DEF TInv
<1> QED BY <1>2, <1>3

LEMMA TInvTakeFlag == ASSUME CInv, TInv, NEW t \in Threads, TakeFlag(t) PROVE TInv'
<1> USE DEF Sequence
<1>1. /\ UNCHANGED <<lifecycle, active, listenerVars, sdkVars, envVars, current, inflight, callVars>>
      /\ thread[t].pc = "flag" /\ sdkFlag' = TRUE
  BY DEF TakeFlag, At
<1>2. t \in {"shut", "main"}
  BY <1>1, StopPlaces DEF Threads
<1>3. CASE sdkFlag
  <2>1. ThreadMoved(t, "finalize")
    BY <1>3, GotoMoves DEF TakeFlag
  <2>2. sdkState = "stopped"
    BY <1>1, <1>2, <1>3 DEF TInv, SdkOK, ShutOK, MainOK
  <2>3. ListenersOK'
    BY <1>1, <2>1, <2>2, QuietSdk, StopKeepsListeners
  <2>4. StartOK' /\ ShutOK' /\ MainOK' /\ SdkOK'
    BY <1>1, <1>2, <2>1, <2>2 DEF TInv, StartOK, ShutOK, MainOK, SdkOK, ServingReleased, ThreadMoved, Threads, Within
  <2> QED BY <2>3, <2>4 DEF TInv
<1>4. CASE ~sdkFlag
  <2>1. ThreadMoved(t, IF t = "main" THEN "stop" ELSE "sdkLock")
    BY <1>1, <1>2, <1>4, GotoMoves, StopPlaces DEF TakeFlag, TInv, ShutOK
  <2>2. ListenersOK'
    BY <1>1, <2>1, StopKeepsListeners
  <2>3. StartOK' /\ ShutOK' /\ MainOK' /\ SdkOK'
    BY <1>1, <1>2, <2>1, SMTT(30) DEF TInv, StartOK, ShutOK, MainOK, SdkOK, ServingReleased, ThreadMoved, Threads, Within
  <2> QED BY <2>2, <2>3 DEF TInv
<1> QED BY <1>3, <1>4

LEMMA TInvSdkStop ==
  ASSUME CInv, TInv, NEW t \in Threads,
         LockSdk(t) \/ SdkStops(t) \/ SdkStopped(t) \/ SdkStopFails(t)
  PROVE  TInv'
<1> USE DEF Sequence
<1>1. UNCHANGED <<lifeVars, listenerVars, serving, held, current, inflight, callVars>>
  BY DEF LockSdk, SdkStops, SdkStopped, SdkStopFails
<1>2. CASE LockSdk(t)
  <2>1. ThreadMoved(t, "stop") /\ t = "shut" /\ thread[t].pc = "sdkLock" /\ UNCHANGED sdkState
    BY <1>2, GotoMoves, StopPlaces DEF LockSdk, At, TInv, MainOK, Threads
  <2>2. ListenersOK'
    BY <1>1, <2>1, StopKeepsListeners
  <2>3. StartOK' /\ ShutOK' /\ MainOK' /\ SdkOK'
    BY <1>1, <2>1 DEF TInv, StartOK, ShutOK, MainOK, SdkOK, ServingReleased, ThreadMoved, Threads, Within
  <2> QED BY <2>2, <2>3 DEF TInv
<1>3. CASE SdkStops(t)
  <2>1. /\ ThreadMoved(t, "join") /\ t \in {"shut", "main"} /\ thread[t].pc = "stop"
        /\ sdkState' = IF sdkState = "running" THEN "stopping" ELSE sdkState
    BY <1>3, GotoMoves, StopPlaces DEF SdkStops, At, Threads
  <2>2. ListenersOK'
    BY <1>1, <2>1, StopKeepsListeners
  <2>3. StartOK' /\ ShutOK' /\ MainOK' /\ SdkOK'
    BY <1>1, <2>1, StopPlaces DEF TInv, StartOK, ShutOK, MainOK, SdkOK, ServingReleased, ThreadMoved, Threads, Within
  <2> QED BY <2>2, <2>3 DEF TInv
<1>4. CASE SdkStopped(t) \/ SdkStopFails(t)
  <2>1. /\ t \in {"shut", "main"} /\ thread[t].pc = "join" /\ sdkState # "running"
    BY <1>4, StopPlaces DEF SdkStopped, SdkStopFails, At, Threads, TInv, ShutOK, MainOK
  <2>2. Within = {} /\ NoneAcquires
    <3>1. CASE NoCallInside
      BY <3>1 DEF NoCallInside, Within, NoneAcquires, Inside
    <3>2. CASE ~NoCallInside
      BY <1>4, <3>2, <2>1, QuietSdk DEF SdkStopped, SdkStopFails, ConsumeThreadsJoined
    <3> QED BY <3>1, <3>2
  <2>3. CASE SdkStopped(t)
    <3>1. /\ ThreadMoved(t, "finalize")
          /\ sdkState' = IF sdkState \in {"stopping", "halted"} THEN "stopped" ELSE sdkState
      BY <2>3, GotoMoves DEF SdkStopped
    <3>2. ListenersOK'
      BY <1>1, <2>1, <2>2, <3>1, StopKeepsListeners
    <3>3. StartOK' /\ ShutOK' /\ MainOK' /\ SdkOK'
      BY <1>1, <2>1, <2>2, <3>1, StopPlaces DEF TInv, StartOK, ShutOK, MainOK, SdkOK, ServingReleased, ThreadMoved, Threads, Within
    <3> QED BY <3>2, <3>3 DEF TInv
  <2>4. CASE SdkStopFails(t)
    <3>1. /\ ThreadMoved(t, IF t = "shut" THEN "failed" ELSE "finalize")
          /\ sdkState \in {"stopping", "halted"} /\ sdkState' = "halted"
      BY <2>1, <2>4, GotoMoves, StopPlaces DEF SdkStopFails, TInv, ShutOK
    <3>2. ListenersOK'
      BY <1>1, <2>1, <2>2, <3>1, StopKeepsListeners
    <3>3. StartOK' /\ ShutOK' /\ MainOK' /\ SdkOK'
      BY <1>1, <2>1, <2>2, <3>1, StopPlaces DEF TInv, StartOK, ShutOK, MainOK, SdkOK, ServingReleased, ThreadMoved, Threads, Within
    <3> QED BY <3>2, <3>3 DEF TInv
  <2> QED BY <1>4, <2>3, <2>4
<1> QED BY <1>2, <1>3, <1>4

LEMMA TInvStop == ASSUME CInv, TInv, NEW t \in Threads, StopStep(t) PROVE TInv'
BY TInvFinalize, TInvAwaitIdle, TInvTakeFlag, TInvSdkStop DEF StopStep

\* A request leaves what was requested and adds one listener.
LEMMA RequestAdds ==
  ASSUME CInv, RequestShutdown(current)
  PROVE  /\ \A l \in Listeners : requested[l] => requested'[l]
         /\ current \in Listeners => requested'[current]
BY SetAssumption DEF RequestShutdown, CInv, Shape

LEMMA TInvStart == ASSUME CInv, TInv, StartWorker PROVE TInv'
<1> USE DEF Sequence, Threads
<1>1. CASE StopStep("start")
  BY <1>1, TInvStop
<1>2. CASE StartCheck \/ StartLock \/ SdkStartFails \/ SdkStarts
  <2>1. /\ UNCHANGED <<lifeVars, listenerVars, serving, held, current, inflight, callVars>>
        /\ thread["start"].pc \in {"queued", "lock", "call"}
    BY <1>2 DEF StartCheck, StartLock, SdkStartFails, SdkStarts, At
  <2>2. lifecycle = "Starting" /\ sdkState = "fresh"
    BY <2>1 DEF TInv, StartOK
  <2>3. CASE StartCheck \/ StartLock
    <3>1. PICK pc \in {"lock", "call"} : ThreadMoved("start", pc)
      BY <2>2, <2>3, GotoMoves DEF StartCheck, StartLock
    <3>2. UNCHANGED sdkState
      BY <2>3 DEF StartCheck, StartLock
    <3> QED BY <2>1, <2>2, <3>1, <3>2
            DEF TInv, ListenersOK, NoneAcquires, StartOK, ShutOK, MainOK, SdkOK, ServingReleased, ThreadMoved, Within
  <2>4. CASE SdkStartFails \/ SdkStarts
    <3>1. \/ ThreadMoved("start", "state") /\ sdkState' = "failed"
          \/ ThreadMoved("start", "called") /\ sdkState' = "running"
      BY <2>4, GotoMoves DEF SdkStartFails, SdkStarts
    <3>2. thread["start"].pc = "call" /\ Within = {} /\ ~sdkFlag
      BY <2>2, <2>4 DEF SdkStartFails, SdkStarts, At, TInv, SdkOK, ShutOK, MainOK
    <3>3. ListenersOK'
      BY <2>1, <3>1, <3>2 DEF TInv, ListenersOK, NoneAcquires, ThreadMoved
    <3> QED BY <2>1, <2>2, <3>1, <3>2, <3>3
            DEF TInv, StartOK, ShutOK, MainOK, SdkOK, ServingReleased, ThreadMoved, Within
  <2> QED BY <1>2, <2>3, <2>4
<1>3. CASE SdkStarted
  <2>1. /\ UNCHANGED <<lifeVars, listenerVars, sdkState, serving, envVars, current, inflight, callVars>>
        /\ thread["start"].pc = "called"
    BY <1>3 DEF SdkStarted, At
  <2>2. /\ thread'["start"].pc = "state" /\ thread'["start"].ok = TRUE
        /\ thread'["start"].op = thread["start"].op
        /\ \A u \in Threads \ {"start"} : thread'[u] = thread[u]
    BY <1>3 DEF SdkStarted, CInv, Shape
  <2>3. ListenersOK'
    BY <2>1, <2>2 DEF TInv, ListenersOK, NoneAcquires
  <2>4. StartOK'
    BY <2>1, <2>2 DEF TInv, StartOK, ServingReleased
  <2>5. ShutOK' /\ MainOK'
    BY <2>1, <2>2 DEF TInv, StartOK, ShutOK, MainOK, ServingReleased
  <2>6. SdkOK'
    BY <2>1, <2>2 DEF TInv, StartOK, SdkOK, ServingReleased, Within
  <2> QED BY <2>3, <2>4, <2>5, <2>6 DEF TInv
<1>4. CASE StartPublish
  <2>1. /\ thread["start"].pc = "state" /\ thread["start"].ok
        /\ lifecycle = "Starting" /\ sdkState = "running"
    BY <1>4 DEF StartPublish, At, TInv, StartOK
  <2>2. /\ lifecycle' = "Started" /\ ThreadMoved("start", "complete")
        /\ UNCHANGED <<active, sdkFlag, listenerVars, sdkVars, envVars, current, inflight, callVars>>
    BY <1>4, <2>1, GotoMoves DEF StartPublish
  <2>3. ListenersOK' /\ StartOK' /\ ShutOK' /\ MainOK'
    BY <2>1, <2>2 DEF TInv, ListenersOK, NoneAcquires, StartOK, ShutOK, MainOK, ServingReleased, ThreadMoved
  <2>4. SdkOK'
    BY <2>1, <2>2 DEF TInv, SdkOK, ServingReleased, Within, ThreadMoved
  <2> QED BY <2>3, <2>4 DEF TInv
<1>5. CASE StartPublishFailure
  <2>1. /\ thread["start"].pc = "state" /\ ~thread["start"].ok /\ thread["start"].op = "start"
        /\ lifecycle = "Starting" /\ sdkState = "failed" /\ current = serving
    BY <1>5 DEF StartPublishFailure, At, TInv, StartOK, SdkOK
  <2>2. /\ lifecycle' = "Shutdown" /\ RequestShutdown(current)
        /\ UNCHANGED <<active, sdkFlag, released, refs, sdkVars, envVars, current, inflight, callVars>>
    BY <1>5, <2>1 DEF StartPublishFailure
  <2>3. /\ thread'["start"].op = "start" /\ ~thread'["start"].ok
        /\ thread'["start"].pc = IF current = NoListener THEN "complete" ELSE "idle"
        /\ current # NoListener => thread'["start"].l = current
        /\ \A u \in Threads \ {"start"} : thread'[u] = thread[u]
    <3>1. CASE current = NoListener
      <4>1. thread' = [thread EXCEPT !["start"] = [thread["start"] EXCEPT !.pc = "complete"]]
        BY <1>5, <3>1 DEF StartPublishFailure
      <4> QED BY <2>1, <3>1, <4>1 DEF CInv, Shape
    <3>2. CASE current # NoListener
      <4>1. thread' = [thread EXCEPT !["start"] = Stopping("start", current, FALSE)]
        BY <1>5, <3>2 DEF StartPublishFailure
      <4> QED BY <3>2, <4>1 DEF CInv, Shape, Stopping
    <3> QED BY <3>1, <3>2
  <2>4. ListenersOK'
    BY <2>1, <2>2, <2>3, RequestAdds DEF TInv, ListenersOK, NoneAcquires
  <2>5. current = NoListener => ServingReleased'
    BY <2>1, <2>2, SetAssumption DEF ServingReleased
  <2>6. StartOK' /\ ShutOK' /\ MainOK' /\ SdkOK'
    BY <2>1, <2>2, <2>3, <2>5 DEF TInv, StartOK, ShutOK, MainOK, SdkOK, ServingReleased, Within
  <2> QED BY <2>4, <2>6 DEF TInv
<1>6. CASE StartEnds
  <2>1. /\ UNCHANGED <<lifeVars, listenerVars, sdkVars, envVars, inflight, callVars>>
        /\ thread["start"].pc = "publish" /\ ThreadMoved("start", "complete")
    BY <1>6, GotoMoves DEF StartEnds, At
  <2>2. ListenersOK' /\ StartOK' /\ ShutOK' /\ MainOK'
    BY <2>1 DEF TInv, ListenersOK, NoneAcquires, StartOK, ShutOK, MainOK, ServingReleased, ThreadMoved
  <2>3. SdkOK'
    BY <2>1 DEF TInv, StartOK, SdkOK, ServingReleased, Within, ThreadMoved
  <2> QED BY <2>2, <2>3 DEF TInv
<1> QED BY <1>1, <1>2, <1>3, <1>4, <1>5, <1>6 DEF StartWorker

LEMMA TInvShut == ASSUME CInv, TInv, ShutdownWorker PROVE TInv'
<1> USE DEF Sequence, Threads
<1>1. CASE StopStep("shut")
  BY <1>1, TInvStop
<1>2. CASE ShutCheck
  <2>1. /\ thread["shut"].pc = "queued" /\ lifecycle = "ShuttingDown" /\ current = serving
    BY <1>2 DEF ShutCheck, At, TInv, ShutOK, SdkOK
  <2>2. /\ UNCHANGED <<lifeVars, released, refs, sdkVars, envVars, current, inflight, callVars>>
        /\ RequestShutdown(current)
        /\ thread' = [thread EXCEPT !["shut"] = Stopping("shutdown", current, TRUE)]
    BY <1>2, <2>1 DEF ShutCheck
  <2>3. /\ thread'["shut"] = Stopping("shutdown", current, TRUE)
        /\ \A u \in Threads \ {"shut"} : thread'[u] = thread[u]
    BY <2>2 DEF CInv, Shape
  <2>4. ListenersOK'
    BY <2>1, <2>2, <2>3, RequestAdds DEF TInv, ListenersOK, NoneAcquires, Stopping
  <2>5. StartOK' /\ ShutOK' /\ MainOK'
    BY <2>1, <2>2, <2>3 DEF TInv, StartOK, ShutOK, MainOK, ServingReleased, Stopping
  <2>6. SdkOK'
    BY <2>1, <2>2, <2>3 DEF TInv, SdkOK, ServingReleased, Within, Stopping
  <2> QED BY <2>4, <2>5, <2>6 DEF TInv
<1>3. CASE ShutFails \/ ShutEnds
  <2>1. /\ UNCHANGED <<listenerVars, sdkVars, envVars, inflight, callVars>> /\ active' = FALSE
        /\ thread["shut"].pc \in {"failed", "publish"} /\ ThreadMoved("shut", "complete")
    BY <1>3, GotoMoves DEF ShutFails, ShutEnds, At
  <2>2. lifecycle = "ShuttingDown"
    BY <2>1 DEF TInv, ShutOK
  <2>3. ListenersOK'
    BY <2>1 DEF TInv, ListenersOK, NoneAcquires, ThreadMoved
  <2>4. CASE ShutFails
    <3>1. UNCHANGED <<lifecycle, current>> /\ sdkFlag' = FALSE
      BY <2>4 DEF ShutFails, FlagReset
    <3> QED BY <2>1, <2>2, <2>3, <3>1
            DEF TInv, StartOK, ShutOK, MainOK, SdkOK, ServingReleased, Within, ThreadMoved
  <2>5. CASE ShutEnds
    <3>1. /\ thread["shut"].pc = "publish" /\ lifecycle' = "Shutdown" /\ UNCHANGED sdkFlag
      BY <2>2, <2>5 DEF ShutEnds, At
    <3>2. StartOK' /\ ShutOK' /\ MainOK'
      BY <2>1, <2>2, <3>1 DEF TInv, StartOK, ShutOK, MainOK, ServingReleased, ThreadMoved
    <3>3. SdkOK'
      BY <2>1, <2>2, <3>1 DEF TInv, ShutOK, SdkOK, ServingReleased, Within, ThreadMoved
    <3> QED BY <2>3, <3>2, <3>3 DEF TInv
  <2> QED BY <1>3, <2>4, <2>5
<1> QED BY <1>1, <1>2, <1>3 DEF ShutdownWorker

\* A thread goes back to rest, the destructor goes on, or the main thread blocks.
LEMMA TInvRest ==
  ASSUME CInv, TInv,
         \/ Completes("start") \/ Completes("shut") \/ SubscribeReturns \/ Subscribe
         \/ ForceDestroyEnds \/ DestructorEnds \/ DestructorReturnsEarly
  PROVE  TInv'
<1> USE DEF Sequence, Threads
<1>1. UNCHANGED <<at, index, status, answer, inflight, sdkVars, envVars, listenerVars, lifeVars>>
  BY DEF Completes, SubscribeReturns, Subscribe, ForceDestroyEnds, DestructorEnds,
         DestructorReturnsEarly
<1>2. ~ForceDestroyEnds /\ ~DestructorReturnsEarly
  BY DEF TInv, MainOK, ForceDestroyEnds, DestructorReturnsEarly, Collectable, MainFree, At
<1>3. CASE Completes("start") \/ Completes("shut")
  <2>1. PICK t \in {"start", "shut"} : Completes(t)
    BY <1>3
  <2>2. /\ thread[t].pc = "complete" /\ thread["main"].pc = "rest" /\ UNCHANGED current
        /\ thread'[t].pc = "rest" /\ thread'[t].l = NoListener
        /\ \A u \in Threads \ {t} : thread'[u] = thread[u]
    BY <2>1 DEF Completes, At, MainFree, CInv, Shape, Resting
  <2>3. ListenersOK' /\ StartOK' /\ ShutOK' /\ MainOK' /\ SdkOK'
    BY <1>1, <2>2 DEF TInv, ListenersOK, NoneAcquires, StartOK, ShutOK, MainOK, SdkOK, ServingReleased, Within
  <2> QED BY <2>3 DEF TInv
<1>4. CASE SubscribeReturns \/ Subscribe
  <2>1. /\ lifecycle # "Destroyed" /\ UNCHANGED current
        /\ thread'["main"].pc \in {"rest", "lock"} /\ thread'["main"].op \in {"none", "subscribe"}
        /\ \A u \in Threads \ {"main"} : thread'[u] = thread[u]
    <3>1. CASE SubscribeReturns
      <4>1. thread'["main"] = Resting /\ \A u \in Threads \ {"main"} : thread'[u] = thread[u]
        BY <3>1 DEF SubscribeReturns, CInv, Shape
      <4> QED BY <3>1, <4>1 DEF SubscribeReturns, Resting, TInv, MainOK
    <3>2. CASE Subscribe
      <4>1. /\ thread'["main"] = [Resting EXCEPT !.op = "subscribe", !.pc = "lock"]
            /\ \A u \in Threads \ {"main"} : thread'[u] = thread[u]
        BY <3>2 DEF Subscribe, CInv, Shape
      <4> QED BY <3>2, <4>1 DEF Subscribe, Resting
    <3> QED BY <1>4, <3>1, <3>2
  <2>2. ListenersOK' /\ StartOK' /\ ShutOK' /\ MainOK' /\ SdkOK'
    BY <1>1, <2>1 DEF TInv, ListenersOK, NoneAcquires, StartOK, ShutOK, MainOK, SdkOK, ServingReleased, Within
  <2> QED BY <2>2 DEF TInv
<1>5. CASE DestructorEnds
  <2>1. thread["main"].pc = "publish" /\ ThreadMoved("main", "members") /\ lifecycle = "Destroyed"
    BY <1>5, GotoMoves DEF DestructorEnds, At, TInv, MainOK
  <2>2. ListenersOK' /\ StartOK' /\ ShutOK' /\ MainOK' /\ SdkOK'
    BY <1>1, <2>1 DEF TInv, ListenersOK, NoneAcquires, StartOK, ShutOK, MainOK, SdkOK, ServingReleased, Within, ThreadMoved
  <2> QED BY <2>2 DEF TInv
<1> QED BY <1>2, <1>3, <1>4, <1>5

LEMMA TInvObject ==
  ASSUME CInv, TInv, Start \/ Shutdown \/ ShutdownQueueFails \/ DropReference
  PROVE  TInv'
<1> USE DEF Sequence, Threads
<1>1. /\ UNCHANGED <<at, index, status, answer, inflight, sdkVars, listenerVars, sdkFlag, current>>
      /\ thread["main"].pc = "rest"
  BY DEF Start, Shutdown, ShutdownQueueFails, DropReference, MayShutdown, MainFree, At
<1>2. CASE Start
  <2>1. /\ lifecycle = "Idle" /\ sdkState = "fresh" /\ current = serving
        /\ lifecycle' = "Starting" /\ UNCHANGED <<active, held>>
    BY <1>2 DEF Start, CInv, Places
  <2>2. /\ thread'["start"].pc = "queued" /\ thread'["start"].l = NoListener
        /\ thread'["start"].op = "start" /\ thread'["start"].ok = FALSE
        /\ \A u \in Threads \ {"start"} : thread'[u] = thread[u]
    BY <1>2 DEF Start, Resting, CInv, Shape
  <2>3. ListenersOK' /\ StartOK' /\ ShutOK' /\ MainOK' /\ SdkOK'
    BY <1>1, <1>2, <2>1, <2>2 DEF Start, MainFree, TInv, ListenersOK, NoneAcquires, StartOK, ShutOK, MainOK, SdkOK, ServingReleased, Within
  <2> QED BY <2>3 DEF TInv
<1>3. CASE Shutdown
  <2>1. /\ lifecycle \in {"Started", "ShuttingDown"} /\ thread["shut"].pc \in {"rest", "complete"}
        /\ thread["main"].pc = "rest" /\ lifecycle' = "ShuttingDown" /\ active' = TRUE /\ UNCHANGED held
    BY <1>3 DEF Shutdown, MayShutdown, MainFree, At, TInv, ShutOK
  <2>2. /\ thread'["shut"].pc = "queued" /\ thread'["shut"].l = NoListener
        /\ thread'["shut"].op = "shutdown"
        /\ \A u \in Threads \ {"shut"} : thread'[u] = thread[u]
    BY <1>3 DEF Shutdown, Resting, CInv, Shape
  <2>3. ListenersOK' /\ StartOK' /\ ShutOK' /\ MainOK' /\ SdkOK'
    BY <1>1, <2>1, <2>2 DEF TInv, ListenersOK, NoneAcquires, StartOK, ShutOK, MainOK, SdkOK, ServingReleased, Within
  <2> QED BY <2>3 DEF TInv
<1>4. CASE ShutdownQueueFails
  <2>1. /\ lifecycle \in {"Started", "ShuttingDown"} /\ thread["shut"].pc \in {"rest", "complete"}
        /\ lifecycle' = "Started" /\ active' = FALSE /\ UNCHANGED <<held, thread>>
    BY <1>4 DEF ShutdownQueueFails, MayShutdown, TInv, ShutOK
  <2>2. ListenersOK' /\ StartOK' /\ ShutOK' /\ MainOK' /\ SdkOK'
    BY <1>1, <2>1 DEF TInv, ListenersOK, NoneAcquires, StartOK, ShutOK, MainOK, SdkOK, ServingReleased, Within
  <2> QED BY <2>2 DEF TInv
<1>5. CASE DropReference
  BY <1>5 DEF DropReference, MainFree, TInv, ListenersOK, NoneAcquires, StartOK, ShutOK, MainOK, SdkOK, ServingReleased, Within
<1> QED BY <1>2, <1>3, <1>4, <1>5

LEMMA TInvDestructor == ASSUME CInv, TInv, Destructor PROVE TInv'
<1> USE DEF Sequence, Threads
<1>1. /\ thread["main"].pc = "rest" /\ thread["start"].pc = "rest" /\ thread["shut"].pc = "rest"
      /\ ~held /\ lifecycle # "Destroyed" /\ lifecycle' = "Destroyed"
      /\ UNCHANGED <<active, sdkFlag, released, refs, sdkVars, envVars, current, inflight, callVars>>
      /\ RequestShutdown(current)
      /\ thread' = [thread EXCEPT !["main"] = Stopping("dtor", current, WasStarted)]
  BY DEF Destructor, Collectable, MainFree, At, BeginDestroy
<1>2. /\ thread'["main"] = Stopping("dtor", current, WasStarted)
      /\ \A u \in Threads \ {"main"} : thread'[u] = thread[u]
  BY <1>1 DEF CInv, Shape
<1>3. ~WasStarted => sdkState \in {"fresh", "failed", "stopped"}
  BY <1>1 DEF WasStarted, TInv, StartOK, SdkOK, CInv, Places, Shape, Lifecycles
<1>4. sdkFlag => sdkState = "stopped"
  BY <1>1 DEF TInv, SdkOK
<1>5. ListenersOK'
  BY <1>1, <1>2, RequestAdds DEF TInv, ListenersOK, NoneAcquires, Stopping
<1>6. StartOK' /\ ShutOK' /\ MainOK'
  BY <1>1, <1>2, <1>3 DEF TInv, StartOK, ShutOK, MainOK, ServingReleased, Stopping
<1>7. SdkOK'
  BY <1>1, <1>2, <1>4 DEF TInv, SdkOK, ServingReleased, Within, Stopping
<1> QED BY <1>5, <1>6, <1>7 DEF TInv

LEMMA TInvMembers == ASSUME CInv, TInv, MembersDestroyed PROVE TInv'
<1> USE DEF Sequence, Threads
<1>1. /\ UNCHANGED <<at, index, status, answer, inflight, lifeVars, native, serving, envVars, current>>
      /\ ListenerShutdown(serving) /\ sdkState' = "stopped"
      /\ thread["main"].pc = "members" /\ ThreadMoved("main", "gone")
  BY GotoMoves DEF MembersDestroyed, At
<1>2. thread["start"].pc = "rest" /\ thread["shut"].pc = "rest" /\ lifecycle = "Destroyed"
  BY <1>1 DEF TInv, MainOK
<1>3. Within = {} /\ NoneAcquires
  <2>1. CASE NoCallInside
    BY <2>1 DEF NoCallInside, Within, NoneAcquires, Inside
  <2>2. CASE ~NoCallInside
    BY <2>2, QuietSdk DEF MembersDestroyed
  <2> QED BY <2>1, <2>2
<1>4. (\A l \in Listeners : released'[l] => requested'[l]) /\ ServingReleased'
  <2>1. CASE serving = NoListener
    BY <1>1, <2>1, SetAssumption DEF ListenerShutdown, ServingReleased, TInv, ListenersOK
  <2>2. CASE serving # NoListener
    BY <1>1, <2>2 DEF ListenerShutdown, ServingReleased, TInv, ListenersOK, CInv, Shape
  <2> QED BY <2>1, <2>2
<1>5. ListenersOK'
  BY <1>1, <1>2, <1>3, <1>4 DEF ListenersOK, NoneAcquires, ThreadMoved
<1>6. StartOK' /\ ShutOK' /\ MainOK'
  BY <1>1, <1>2, <1>4 DEF TInv, StartOK, ShutOK, MainOK, ThreadMoved
<1>7. SdkOK'
  BY <1>1, <1>2, <1>3 DEF TInv, SdkOK, Within, ThreadMoved
<1> QED BY <1>5, <1>6, <1>7 DEF TInv

LEMMA TInvSetListener == ASSUME CInv, TInv, NEW l \in Listeners, SetListener(l) PROVE TInv'
<1> USE DEF Sequence, Threads
<1>1. /\ UNCHANGED <<lifeVars, native, sdkState, held, inflight, thread, callVars, answer>>
      /\ lifecycle = "Idle" /\ thread["main"].pc = "rest"
  BY DEF SetListener, MainFree, At
<1>2. /\ sdkState = "fresh" /\ thread["start"].pc = "rest" /\ thread["shut"].pc = "rest"
      /\ Within = {} /\ NoneAcquires
  BY <1>1 DEF CInv, Places, At, Within, NoneAcquires, Inside
<1>3. \A k \in Listeners : released'[k] => requested'[k]
  BY DEF SetListener, TInv, ListenersOK, CInv, Shape
<1>4. ListenersOK'
  BY <1>1, <1>2, <1>3 DEF ListenersOK, NoneAcquires
<1>5. StartOK' /\ ShutOK' /\ MainOK' /\ SdkOK'
  BY <1>1, <1>2 DEF TInv, StartOK, ShutOK, MainOK, SdkOK, Within
<1> QED BY <1>4, <1>5 DEF TInv

LEMMA TInvKept ==
  ASSUME TInv, UNCHANGED <<lifeVars, listenerVars, at, sdkState, serving, held, current, thread>>
  PROVE  TInv'
BY DEF TInv, ListenersOK, NoneAcquires, StartOK, ShutOK, MainOK, SdkOK, ServingReleased, Within

LEMMA TInvNext == ASSUME CInv, TInv, [Next]_vars, ~ForceDestroy PROVE TInv'
<1>1. ASSUME NEW c \in Calls, NEW i \in Positions,
             \/ CallJs(c, i) \/ CallJsDelivers(c, i) \/ CallJsFails(c, i)
             \/ AckDone(c, i) \/ AckCollected(c, i)
      PROVE  TInv'
  BY <1>1, TInvKept DEF CallJs, CallJsDelivers, CallJsFails, AckDone, AckCollected, SetAnswer
<1>2. CASE Application
  BY <1>1, <1>2, TInvRest, TInvObject, TInvDestructor, TInvSetListener
     DEF Application
<1>3. CASE MainThread
  BY <1>1, <1>3, TInvRest, TInvStop, TInvMembers DEF MainThread, Threads
<1>4. CASE StartWorker \/ ShutdownWorker
  BY <1>4, TInvStart, TInvShut
<1>5. CASE \E c \in Calls : ConsumeMessage(c) \/ CallThread(c) \/ CallTimesOut(c)
  BY <1>5, TInvCall
<1>6. CASE Finished \/ UNCHANGED vars
  BY <1>6, TInvKept DEF Finished
<1> QED BY <1>2, <1>3, <1>4, <1>5, <1>6 DEF Next

-----------------------------------------------------------------------------
(* What holds with ForceDestroy, too, if WaitForIdle never gives up.       *)

\* With threads that do not stall for 5 s, whoever has waited for its listener found no
\* call inside, and since the listener was asked before that, none comes near its TSFN.
AwaitedInv ==
    /\ \A l \in Listeners : released[l] => requested[l]
    /\ \/ \E t \in Threads : thread[t].pc \in Sequence \ {"idle"} /\ thread[t].l \in Listeners
       \/ serving \in Listeners /\ released[serving]
       => NoneAcquires

LEMMA AwaitedInit == Init => AwaitedInv
BY DEF Init, AwaitedInv, NoneAcquires

\* A consume thread that finds no request is alone with an open TSFN.
LEMMA AwaitedCall ==
  ASSUME CInv, RInv, AwaitedInv, NEW c \in Calls,
         ConsumeMessage(c) \/ CallThread(c) \/ CallTimesOut(c)
  PROVE  AwaitedInv'
<1> USE DEF CallGoto, Returns
<1>1. UNCHANGED <<requested, released, serving, thread>>
  BY DEF ConsumeMessage, CallThread, CallChecks, CallAcquires, CallOffers, CallOfferFails,
         CallResolves, CallGivesUp, CallTimesOut, CallLeaves
<1>2. CASE CallChecks(c) /\ ~requested[serving]
  <2>1. serving \in Listeners
    BY <1>2 DEF CallChecks, RInv, RunsOK, NoCallYet
  <2>2. ~released[serving] /\ \A t \in Threads : thread[t].pc \notin Sequence
    BY <1>2, <2>1 DEF RInv, AskedOK, ServingAsked, AwaitedInv
  <2> QED BY <1>1, <2>1, <2>2 DEF AwaitedInv
<1>3. CASE ~(CallChecks(c) /\ ~requested[serving])
  <2>1. NoneAcquires => NoneAcquires'
    BY <1>3 DEF NoneAcquires, CInv, CallTypes, ConsumeMessage, CallThread, CallChecks,
       CallAcquires, CallOffers, CallOfferFails, CallResolves, CallGivesUp, CallTimesOut, CallLeaves
  <2> QED BY <1>1, <2>1 DEF AwaitedInv
<1> QED BY <1>2, <1>3

\* The stop sequence: what AwaitIdle has seen stays so.
LEMMA AwaitedStop ==
  ASSUME ~SlowThreads, CInv, RInv, AwaitedInv, NEW t \in Threads, StopStep(t)
  PROVE  AwaitedInv'
<1> USE DEF Sequence
<1>1. UNCHANGED <<serving, at>>
  BY DEF StopStep, AwaitIdle, TakeFlag, LockSdk, SdkStops, SdkStopped, SdkStopFails, FinalizeListener
<1>2. thread[t].pc \in Sequence
  BY DEF StopStep, AwaitIdle, TakeFlag, LockSdk, SdkStops, SdkStopped, SdkStopFails,
         FinalizeListener, At
<1>3. \E pc : ThreadMoved(t, pc)
  BY GotoMoves DEF StopStep, AwaitIdle, TakeFlag, LockSdk, SdkStops, SdkStopped, SdkStopFails,
     FinalizeListener
<1>4. thread[t].l \in {NoListener, serving}
  BY DEF CInv, Places
<1>5. thread[t].l \in Listeners => NoneAcquires
  <2>1. CASE AwaitIdle(t) /\ thread[t].l \in Listeners
    <3>1. inflight[thread[t].l] = 0
      BY <2>1 DEF AwaitIdle, ListenerIdle
    <3>2. Cardinality(Within) = 0 /\ IsFiniteSet(Within)
      BY <1>4, <2>1, <3>1, SetsFinite, SetAssumption DEF CInv, Counts
    <3>3. Within = {}
      BY <3>2, FS_EmptySet
    <3> QED BY <3>3 DEF Within, Inside, NoneAcquires
  <2>2. CASE ~AwaitIdle(t) /\ thread[t].l \in Listeners
    <3>1. thread[t].pc # "idle"
      BY <2>2 DEF StopStep, TakeFlag, LockSdk, SdkStops, SdkStopped, SdkStopFails,
         FinalizeListener, At
    <3> QED BY <1>2, <2>2, <3>1 DEF AwaitedInv
  <2> QED BY <2>1, <2>2
<1>6. /\ \A l \in Listeners : released'[l] => requested'[l]
      /\ serving \in Listeners /\ released'[serving] => released[serving] \/ thread[t].l = serving
  <2>1. CASE UNCHANGED <<requested, released>>
    BY <2>1 DEF AwaitedInv
  <2>2. CASE ListenerShutdown(thread[t].l)
    BY <1>4, <2>2, SetAssumption DEF ListenerShutdown, AwaitedInv, CInv, Shape
  <2> QED BY <2>1, <2>2 DEF StopStep, AwaitIdle, TakeFlag, LockSdk, SdkStops, SdkStopped,
          SdkStopFails, FinalizeListener
<1>7. NoneAcquires' <=> NoneAcquires
  BY <1>1 DEF NoneAcquires
<1> QED BY <1>1, <1>3, <1>5, <1>6, <1>7 DEF AwaitedInv, ThreadMoved

\* A step that puts no thread behind AwaitIdle and releases nothing.
LEMMA AwaitedKept ==
  ASSUME AwaitedInv, UNCHANGED <<serving, at, released>>,
         \A l \in Listeners : requested[l] => requested'[l],
         \A t \in Threads : thread'[t].pc \in Sequence \ {"idle"} => thread'[t] = thread[t]
  PROVE  AwaitedInv'
BY DEF AwaitedInv, NoneAcquires

\* The workers, besides stopping the consumer.
LEMMA AwaitedWorkers ==
  ASSUME CInv, RInv, AwaitedInv,
         \/ (StartWorker /\ ~StopStep("start")) \/ (ShutdownWorker /\ ~StopStep("shut"))
         \/ Completes("start") \/ Completes("shut")
  PROVE  AwaitedInv'
<1> USE DEF Sequence, Threads
<1>1. /\ UNCHANGED <<serving, at, released>>
      /\ UNCHANGED requested \/ RequestShutdown(current)
  BY DEF StartWorker, ShutdownWorker, Completes, StartCheck, StartLock, SdkStartFails, SdkStarts,
         SdkStarted, StartPublish, StartPublishFailure, StartEnds, ShutCheck, ShutFails, ShutEnds
<1>2. PICK t \in Threads : /\ thread'[t].pc \notin Sequence \ {"idle"}
                           /\ \A u \in Threads \ {t} : thread'[u] = thread[u]
  <2>1. CASE StartCheck \/ StartLock \/ SdkStartFails \/ SdkStarts \/ SdkStarted \/ StartEnds
    BY <2>1 DEF StartCheck, StartLock, SdkStartFails, SdkStarts, SdkStarted, StartEnds,
       Goto, CInv, Shape
  <2>2. CASE StartPublish
    BY <2>2 DEF StartPublish, Goto, Stopping, CInv, Shape
  <2>3. CASE StartPublishFailure /\ current = NoListener
    <3>1. thread' = [thread EXCEPT !["start"] = [thread["start"] EXCEPT !.pc = "complete"]]
      BY <2>3 DEF StartPublishFailure
    <3> QED BY <3>1 DEF CInv, Shape
  <2>4. CASE StartPublishFailure /\ current # NoListener
    <3>1. thread' = [thread EXCEPT !["start"] = Stopping("start", current, FALSE)]
      BY <2>4 DEF StartPublishFailure
    <3> QED BY <3>1 DEF CInv, Shape, Stopping
  <2>5. CASE ShutCheck /\ lifecycle # "Destroyed"
    <3>1. thread' = [thread EXCEPT !["shut"] = Stopping("shutdown", current, TRUE)]
      BY <2>5 DEF ShutCheck
    <3> QED BY <3>1 DEF CInv, Shape, Stopping
  <2>6. CASE (ShutCheck /\ lifecycle = "Destroyed") \/ ShutFails \/ ShutEnds
    <3>1. ThreadMoved("shut", "complete")
      BY <2>6, GotoMoves DEF ShutCheck, ShutFails, ShutEnds
    <3> QED BY <3>1 DEF ThreadMoved
  <2>7. CASE Completes("start") \/ Completes("shut")
    BY <2>7 DEF Completes, Resting, CInv, Shape
  <2> QED BY <2>1, <2>2, <2>3, <2>4, <2>5, <2>6, <2>7 DEF StartWorker, ShutdownWorker
<1>3. \A l \in Listeners : requested[l] => requested'[l]
  BY <1>1 DEF RequestShutdown, CInv, Shape
<1> QED BY <1>1, <1>2, <1>3, AwaitedKept

\* The calls of the application, and what the main thread does besides stopping.
LEMMA AwaitedMain ==
  ASSUME CInv, RInv, AwaitedInv,
         \/ SubscribeReturns \/ Subscribe \/ ForceDestroyEnds \/ DestructorEnds
         \/ DestructorReturnsEarly \/ Start \/ Shutdown \/ ShutdownQueueFails \/ DropReference
         \/ ForceDestroy \/ Destructor
  PROVE  AwaitedInv'
<1> USE DEF Sequence, Threads
<1>1. /\ UNCHANGED <<serving, at, released>>
      /\ UNCHANGED requested \/ RequestShutdown(current)
  BY DEF SubscribeReturns, Subscribe, ForceDestroyEnds, DestructorEnds, DestructorReturnsEarly,
         Start, Shutdown, ShutdownQueueFails, DropReference, ForceDestroy, Destructor, BeginDestroy
<1>2. PICK t \in Threads : /\ thread'[t] = thread[t] \/ thread'[t].pc \notin Sequence \ {"idle"}
                           /\ \A u \in Threads \ {t} : thread'[u] = thread[u]
  <2>1. CASE SubscribeReturns \/ Subscribe \/ ForceDestroyEnds \/ DestructorReturnsEarly
    <3>1. PICK r : r.pc \notin Sequence /\ thread' = [thread EXCEPT !["main"] = r]
      BY <2>1 DEF SubscribeReturns, Subscribe, ForceDestroyEnds, DestructorReturnsEarly, Resting
    <3> QED BY <3>1 DEF CInv, Shape
  <2>2. CASE DestructorEnds
    BY <2>2 DEF DestructorEnds, Goto, CInv, Shape
  <2>3. CASE Start \/ Shutdown
    <3>1. \E r : /\ r.pc \notin Sequence
                /\ \/ thread' = [thread EXCEPT !["start"] = r]
                   \/ thread' = [thread EXCEPT !["shut"] = r]
      BY <2>3 DEF Start, Shutdown, Resting
    <3> QED BY <3>1 DEF CInv, Shape
  <2>4. CASE ShutdownQueueFails \/ DropReference
    BY <2>4 DEF ShutdownQueueFails, DropReference
  <2>5. CASE ForceDestroy \/ Destructor
    <3>1. PICK op \in {"force", "forceStarting", "dtor"} : BeginDestroy(op)
      BY <2>5 DEF ForceDestroy, Destructor
    <3> QED BY <3>1 DEF BeginDestroy, Stopping, CInv, Shape
  <2> QED BY <2>1, <2>2, <2>3, <2>4, <2>5
<1>3. \A l \in Listeners : requested[l] => requested'[l]
  BY <1>1 DEF RequestShutdown, CInv, Shape
<1> QED BY <1>1, <1>2, <1>3, AwaitedKept

\* When the members go nobody is in the listener any more.
LEMMA AwaitedMembers == ASSUME CInv, RInv, AwaitedInv, MembersDestroyed PROVE AwaitedInv'
<1> USE DEF Sequence, Threads
<1>1. UNCHANGED <<serving, at>> /\ ListenerShutdown(serving)
  BY DEF MembersDestroyed
<1>2. NoneAcquires
  <2>1. CASE NoCallInside
    BY <2>1 DEF NoCallInside, Inside, NoneAcquires
  <2>2. CASE sdkState \in {"fresh", "failed"}
    BY <2>2 DEF RInv, RunsOK, NoCallYet, NoneAcquires
  <2> QED BY <2>1, <2>2 DEF MembersDestroyed
<1>3. \A l \in Listeners : released'[l] => requested'[l]
  BY <1>1, SetAssumption DEF ListenerShutdown, AwaitedInv, CInv, Shape
<1> QED BY <1>1, <1>2, <1>3 DEF AwaitedInv, NoneAcquires

LEMMA AwaitedSetListener ==
  ASSUME CInv, RInv, AwaitedInv, NEW l \in Listeners, SetListener(l) PROVE AwaitedInv'
<1>1. UNCHANGED <<thread, at>> /\ lifecycle = "Idle"
  BY DEF SetListener
<1>2. NoneAcquires
  BY <1>1 DEF CInv, Places, RInv, RunsOK, NoCallYet, NoneAcquires
<1>3. \A k \in Listeners : released'[k] => requested'[k]
  BY DEF SetListener, AwaitedInv, CInv, Shape
<1> QED BY <1>1, <1>2, <1>3 DEF AwaitedInv, NoneAcquires

LEMMA AwaitedNext == ASSUME ~SlowThreads PROVE CInv /\ RInv /\ AwaitedInv /\ [Next]_vars => AwaitedInv'
<1> SUFFICES ASSUME CInv, RInv, AwaitedInv, [Next]_vars PROVE AwaitedInv'
  OBVIOUS
<1>1. ASSUME UNCHANGED <<requested, released, serving, at, thread>> PROVE AwaitedInv'
  BY <1>1, AwaitedKept
<1>2. CASE Application
  BY <1>1, <1>2, AwaitedMain, AwaitedSetListener
     DEF Application, AckDone, AckCollected, SetAnswer
<1>3. CASE MainThread
  BY <1>1, <1>3, AwaitedMain, AwaitedWorkers, AwaitedStop, AwaitedMembers
     DEF MainThread, Threads, CallJs, CallJsDelivers, CallJsFails, SetAnswer
<1>4. CASE StartWorker \/ ShutdownWorker
  BY <1>4, AwaitedStop, AwaitedWorkers DEF Threads
<1>5. CASE \E c \in Calls : ConsumeMessage(c) \/ CallThread(c) \/ CallTimesOut(c)
  BY <1>5, AwaitedCall
<1>6. CASE Finished \/ UNCHANGED vars
  BY <1>1, <1>6 DEF Finished
<1> QED BY <1>2, <1>3, <1>4, <1>5, <1>6 DEF Next

-----------------------------------------------------------------------------
(* What follows from the invariant.                                        *)

\* Destroyed is final.
LEMMA DestroyedStays ==
  ASSUME lifecycle = "Destroyed", [Next]_vars
  PROVE  lifecycle' = "Destroyed"
<1>1. CASE Application
  BY <1>1 DEF Application, Start, Shutdown, ShutdownQueueFails, MayShutdown, Subscribe,
     ForceDestroy, DropReference, Destructor, DestructorReturnsEarly, SetListener, AckDone,
     AckCollected, SetAnswer
<1>2. ASSUME NEW t \in Threads, StopStep(t) PROVE UNCHANGED lifecycle
  BY <1>2 DEF StopStep, AwaitIdle, TakeFlag, LockSdk, SdkStops, SdkStopped, SdkStopFails,
     FinalizeListener
<1>3. CASE MainThread
  BY <1>2, <1>3 DEF MainThread, SubscribeReturns, ForceDestroyEnds, DestructorEnds,
     MembersDestroyed, Completes, CallJs, CallJsDelivers, CallJsFails, SetAnswer, Threads
<1>4. CASE StartWorker \/ ShutdownWorker
  BY <1>2, <1>4 DEF StartWorker, ShutdownWorker, StartCheck, StartLock, SdkStartFails, SdkStarts,
     SdkStarted, StartPublish, StartPublishFailure, StartEnds, ShutCheck, ShutFails, ShutEnds,
     Threads
<1>5. CASE \E c \in Calls : ConsumeMessage(c) \/ CallThread(c) \/ CallTimesOut(c)
  BY <1>5 DEF ConsumeMessage, CallThread, CallChecks, CallAcquires, CallOffers, CallOfferFails,
     CallResolves, CallGivesUp, CallTimesOut, CallLeaves
<1> QED BY <1>1, <1>3, <1>4, <1>5 DEF Next, Finished

\* Only ForceDestroy ends what the invariant says, and a consumer that it has
\* destroyed stays so.
UntilDestroyed == TInv \/ (TestHooks /\ lifecycle = "Destroyed")

LEMMA UntilDestroyedNext == CInv /\ UntilDestroyed /\ [Next]_vars => UntilDestroyed'
<1> SUFFICES ASSUME CInv, UntilDestroyed, [Next]_vars PROVE UntilDestroyed'
  OBVIOUS
<1>1. CASE ForceDestroy
  BY <1>1 DEF ForceDestroy, BeginDestroy, UntilDestroyed
<1>2. CASE TInv /\ ~ForceDestroy
  BY <1>2, TInvNext DEF UntilDestroyed
<1>3. CASE TestHooks /\ lifecycle = "Destroyed"
  BY <1>3, DestroyedStays DEF UntilDestroyed
<1> QED BY <1>1, <1>2, <1>3 DEF UntilDestroyed

LEMMA Invariant == Spec => [](BInv /\ CInv /\ RInv /\ UntilDestroyed)
<1>1. Init => UntilDestroyed
  BY TInvInit DEF UntilDestroyed
<1> QED BY BInvInit, BInvNext, CInvInit, CInvNext, RInvInit, RInvNext, <1>1, UntilDestroyedNext, PTL
        DEF Spec, SafetySpec

\* A serving listener that is released and has no call inside has no reference left.
LEMMA NoReference ==
  ASSUME CInv, ServingReleased, Within = {}
  PROVE  \A l \in Listeners : refs[l] = 0
<1>1. Guarding = {}
  BY DEF Guarding, Within, Inside
<1> QED BY <1>1, FS_EmptySet DEF CInv, Counts, ServingReleased

\* A TSFN whose release finds no thread that acquires it stays open while it is used.
LEMMA OpenWhileUsed ==
  ASSUME CInv, serving \in Listeners /\ released[serving] => NoneAcquires
  PROVE  TsfnOpenWhileUsed
<1> SUFFICES ASSUME NEW c \in Calls, at[c] \in {"acquire"} \cup Guarded
             PROVE  refs[serving] > 0
  BY DEF TsfnOpenWhileUsed
<1>1. serving \in Listeners
  BY DEF CInv, Places, Within, Inside
<1>2. /\ Cardinality(Guarding) \in Nat
      /\ refs[serving] = (IF released[serving] THEN 0 ELSE 1) + Cardinality(Guarding)
  BY <1>1, SetsFinite DEF CInv, Counts
<1>3. CASE at[c] \in Guarded
  <2>1. Guarding # {} /\ IsFiniteSet(Guarding)
    BY <1>3, SetsFinite DEF Guarding, CInv
  <2>2. Cardinality(Guarding) # 0
    BY <2>1, FS_EmptySet
  <2> QED BY <1>2, <2>2
<1>4. CASE at[c] = "acquire"
  <2>1. ~released[serving]
    BY <1>1, <1>4 DEF NoneAcquires
  <2> QED BY <1>2, <2>1
<1> QED BY <1>3, <1>4

\* A consume thread that acquires the TSFN, or holds a unit of it, finds it open,
\* whichever of the threads that stop the consumer releases it, unless the test hooks
\* are built in and a thread stalls for longer than WaitForIdle waits: consumeMessage,
\* WaitForListenerIdle and ConsumerMessageListener::Shutdown of lib/push_consumer.cpp.
THEOREM TsfnOpen == ASSUME ~TestHooks \/ ~SlowThreads PROVE Spec => []TsfnOpenWhileUsed
<1>1. CASE ~TestHooks
  <2>1. ASSUME CInv, UntilDestroyed PROVE TsfnOpenWhileUsed
    BY <1>1, <2>1, OpenWhileUsed DEF UntilDestroyed, TInv, ListenersOK
  <2> QED BY <2>1, Invariant, PTL
<1>2. CASE ~SlowThreads
  <2>1. CInv /\ RInv /\ AwaitedInv /\ [Next]_vars => AwaitedInv'
    BY <1>2, AwaitedNext
  <2>2. Spec => []AwaitedInv
    BY <2>1, Invariant, AwaitedInit, PTL DEF Spec, SafetySpec
  <2>3. ASSUME CInv, AwaitedInv PROVE TsfnOpenWhileUsed
    BY <2>3, OpenWhileUsed DEF AwaitedInv
  <2> QED BY <2>2, <2>3, Invariant, PTL
<1> QED BY <1>1, <1>2

\* The state Shutdown is reached, by a shutdown, a retried one or a start that failed,
\* only when the SDK consumer has stopped and no consume thread is in the listener, and
\* once the start worker is done no TSFN keeps the event loop alive
\* (ConsumerShutdownWorker and ConsumerStartWorker of lib/push_consumer.cpp).
THEOREM QuietShutdown == Spec => []ShutdownLeavesNothing
<1>1. ASSUME CInv, UntilDestroyed PROVE ShutdownLeavesNothing
  <2> SUFFICES ASSUME lifecycle = "Shutdown"
               PROVE  /\ sdkState \in {"failed", "stopped"} /\ NoCallInside
                      /\ At("start", "rest") => \A l \in Listeners : refs[l] = 0
    BY DEF ShutdownLeavesNothing
  <2>0. TInv
    BY <1>1 DEF UntilDestroyed
  <2>1. sdkState \in {"failed", "stopped"} /\ Within = {}
    BY <2>0 DEF TInv, SdkOK
  <2>2. NoCallInside
    BY <2>1 DEF Within, NoCallInside
  <2>3. At("start", "rest") => ServingReleased
    BY <2>0 DEF TInv, SdkOK, At
  <2> QED BY <1>1, <2>1, <2>2, <2>3, NoReference
<1> QED BY <1>1, Invariant, PTL

\* shutdown_worker_active_ says exactly whether a shutdown worker is queued or runs, and
\* Shutdown() accepts a retry only when the worker of the shutdown it retries has nothing
\* left but its completion: a retry never overlaps the shutdown it retries.
THEOREM ShutdownWorkerFlag == Spec => []OneShutdownWorker
<1>1. RInv => OneShutdownWorker
  BY DEF RInv, WorkerOK, ActiveTells, OneShutdownWorker, MayShutdown
<1> QED BY <1>1, Reach, PTL

\* When the destructor has returned every listener has given up its TSFN, after
\* ForceDestroy too.
THEOREM NothingLeft == Spec => []NothingLeftBehind
<1>1. ASSUME CInv, RInv PROVE NothingLeftBehind
  <2> SUFFICES ASSUME thread["main"].pc = "gone" PROVE \A l \in Listeners : refs[l] = 0
    BY DEF NothingLeftBehind, At
  <2>1. ServingReleased /\ Within = {}
    BY <1>1 DEF RInv, AskedOK, RunsOK
  <2> QED BY <1>1, <2>1, NoReference
<1> QED BY <1>1, Reach, PTL

-----------------------------------------------------------------------------
(* What ConsumerWrapper takes for granted about the native consumer: when  *)
(* it may call the listener (MayDeliver there).                            *)

\* The listener is about to be called only while the consumer starts, is started, or has
\* a shutdown worker of which JavaScript has not heard yet.
DeliversInStep ==
    ListenerDue => lifecycle \in {"Starting", "Started"} \/ thread["shut"].pc # "rest"

\* The SDK consumer is as it was made until Start, and a shutdown whose worker has left
\* the queue has asked the listener to go, whatever became of it.
StepInv ==
    /\ lifecycle = "Idle" => sdkState = "fresh"
    /\ lifecycle = "ShuttingDown" /\ thread["shut"].pc # "queued" => ServingAsked

\* The stop sequence is not entered before Start, and takes no request back.
LEMMA StepInvStop ==
  ASSUME CInv, RInv, UntilDestroyed, StepInv, NEW t \in Threads, StopStep(t) PROVE StepInv'
<1>1. /\ UNCHANGED <<lifecycle, serving>> /\ thread[t].pc \in Sequence
      /\ \E pc \in Sequence \cup {"publish"} : ThreadMoved(t, pc)
  BY GotoMoves DEF StopStep, AwaitIdle, TakeFlag, LockSdk, SdkStops, SdkStopped, SdkStopFails,
     FinalizeListener, At, Sequence
<1>2. lifecycle # "Idle"
  BY <1>1, StopPlaces DEF UntilDestroyed, Threads
<1>3. ServingAsked => ServingAsked'
  <2>1. \/ UNCHANGED <<requested, released>>
        \/ ListenerShutdown(thread[t].l)
    BY DEF StopStep, AwaitIdle, TakeFlag, LockSdk, SdkStops, SdkStopped, SdkStopFails,
       FinalizeListener
  <2>2. thread[t].l \in Listeners \cup {NoListener}
    BY DEF CInv, Shape
  <2> QED BY <1>1, <2>1, <2>2, AskedKept
<1>4. ServingAsked
  BY <1>1 DEF RInv, AskedOK
<1> QED BY <1>1, <1>2, <1>3, <1>4 DEF StepInv

\* The workers, besides stopping the consumer.
LEMMA StepInvWorkers ==
  ASSUME CInv, RInv, UntilDestroyed, StepInv,
         \/ (StartWorker /\ ~StopStep("start")) \/ (ShutdownWorker /\ ~StopStep("shut"))
         \/ Completes("start") \/ Completes("shut")
  PROVE  StepInv'
<1> USE DEF Threads
<1>1. /\ UNCHANGED <<serving, released>>
      /\ UNCHANGED requested \/ RequestShutdown(current)
  BY DEF StartWorker, ShutdownWorker, Completes, StartCheck, StartLock, SdkStartFails, SdkStarts,
         SdkStarted, StartPublish, StartPublishFailure, StartEnds, ShutCheck, ShutFails, ShutEnds
<1>2. ServingAsked => ServingAsked'
  <2>1. current \in Listeners \cup {NoListener}
    BY DEF CInv, Shape
  <2> QED BY <1>1, <2>1, AskedKept
<1>3. CASE ShutCheck
  <2>1. UNCHANGED <<lifecycle, sdkState>>
    BY <1>3 DEF ShutCheck
  <2>2. lifecycle = "ShuttingDown" => ServingAsked'
    BY <1>1, <1>3, AskingAsks DEF ShutCheck
  <2> QED BY <2>1, <2>2 DEF StepInv
<1>4. CASE SdkStartFails \/ SdkStarts
  <2>1. lifecycle \notin {"Idle", "ShuttingDown"} /\ UNCHANGED lifecycle
    BY <1>4 DEF SdkStartFails, SdkStarts, At, UntilDestroyed, TInv, StartOK
  <2> QED BY <2>1 DEF StepInv
<1>5. CASE ~(ShutCheck \/ SdkStartFails \/ SdkStarts)
  <2>1. /\ UNCHANGED sdkState
        /\ lifecycle' = lifecycle \/ lifecycle' \in {"Started", "Shutdown"}
    BY <1>5 DEF StartWorker, ShutdownWorker, Completes, StartCheck, StartLock, SdkStarted,
       StartPublish, StartPublishFailure, StartEnds, ShutFails, ShutEnds
  <2>2. lifecycle = "ShuttingDown" /\ thread["shut"].pc = "queued" => thread'["shut"].pc = "queued"
    <3>1. CASE (StartWorker /\ ~StopStep("start")) \/ Completes("start")
      BY <3>1 DEF StartWorker, Completes, StartCheck, StartLock, SdkStartFails, SdkStarts,
         SdkStarted, StartPublish, StartPublishFailure, StartEnds, Goto, CInv, Shape
    <3>2. CASE (ShutdownWorker /\ ~StopStep("shut")) \/ Completes("shut")
      BY <1>5, <3>2 DEF ShutdownWorker, ShutFails, ShutEnds, Completes, At
    <3> QED BY <3>1, <3>2
  <2> QED BY <1>2, <2>1, <2>2 DEF StepInv
<1> QED BY <1>3, <1>4, <1>5

\* The calls of the application, and what the main thread does besides stopping.
LEMMA StepInvMain ==
  ASSUME CInv, RInv, UntilDestroyed, StepInv,
         \/ SubscribeReturns \/ Subscribe \/ ForceDestroyEnds \/ DestructorEnds
         \/ DestructorReturnsEarly \/ Start \/ Shutdown \/ ShutdownQueueFails \/ DropReference
         \/ ForceDestroy \/ Destructor \/ MembersDestroyed
  PROVE  StepInv'
<1> USE DEF Threads
<1>1. CASE ForceDestroy \/ Destructor
  <2>1. lifecycle' = "Destroyed"
    BY <1>1 DEF ForceDestroy, Destructor, BeginDestroy
  <2> QED BY <2>1 DEF StepInv
<1>2. CASE MembersDestroyed
  <2>1. lifecycle = "Destroyed" /\ UNCHANGED lifecycle
    BY <1>2 DEF MembersDestroyed, At, UntilDestroyed, TInv, MainOK
  <2> QED BY <2>1 DEF StepInv
<1>3. CASE Start \/ Shutdown \/ ShutdownQueueFails
  <2>1. \/ lifecycle' \in {"Starting", "Started"}
        \/ lifecycle' = "ShuttingDown" /\ thread'["shut"].pc = "queued"
    BY <1>3 DEF Start, Shutdown, ShutdownQueueFails, Resting, CInv, Shape
  <2> QED BY <2>1 DEF StepInv
<1>4. CASE \/ SubscribeReturns \/ Subscribe \/ ForceDestroyEnds \/ DestructorEnds
           \/ DestructorReturnsEarly \/ DropReference
  <2>1. /\ UNCHANGED <<lifecycle, sdkState, requested, serving>>
        /\ thread'["shut"] = thread["shut"]
    BY <1>4 DEF SubscribeReturns, Subscribe, ForceDestroyEnds, DestructorEnds,
       DestructorReturnsEarly, DropReference, Goto, CInv, Shape
  <2> QED BY <2>1 DEF StepInv, ServingAsked
<1> QED BY <1>1, <1>2, <1>3, <1>4

LEMMA StepInvInit == Init => StepInv
BY DEF Init, StepInv

LEMMA StepInvNext == CInv /\ RInv /\ UntilDestroyed /\ StepInv /\ [Next]_vars => StepInv'
<1> SUFFICES ASSUME CInv, RInv, UntilDestroyed, StepInv, [Next]_vars PROVE StepInv'
  OBVIOUS
<1>1. ASSUME UNCHANGED <<requested, serving, thread, lifecycle>>,
             lifecycle = "Idle" => UNCHANGED sdkState
      PROVE  StepInv'
  BY <1>1 DEF StepInv, ServingAsked
<1>2. ASSUME NEW l \in Listeners, SetListener(l) PROVE StepInv'
  <2>1. lifecycle = "Idle" /\ UNCHANGED <<lifecycle, sdkState>>
    BY <1>2 DEF SetListener
  <2> QED BY <2>1 DEF StepInv
<1>3. CASE Application
  BY <1>1, <1>2, <1>3, StepInvMain DEF Application, AckDone, AckCollected, SetAnswer
<1>4. CASE MainThread
  BY <1>1, <1>4, StepInvMain, StepInvWorkers, StepInvStop
     DEF MainThread, Threads, CallJs, CallJsDelivers, CallJsFails, SetAnswer
<1>5. CASE StartWorker \/ ShutdownWorker
  BY <1>5, StepInvStop, StepInvWorkers DEF Threads
<1>6. CASE \E c \in Calls : ConsumeMessage(c) \/ CallThread(c) \/ CallTimesOut(c)
  BY <1>1, <1>6 DEF ConsumeMessage, CallThread, CallChecks, CallAcquires, CallOffers,
     CallOfferFails, CallResolves, CallGivesUp, CallTimesOut, CallLeaves
<1>7. CASE Finished \/ UNCHANGED vars
  BY <1>1, <1>7 DEF Finished
<1> QED BY <1>3, <1>4, <1>5, <1>6, <1>7 DEF Next

\* A queued message passes the test of the request only while the consumer starts, is
\* started or has a shutdown worker that runs, although messages may still be queued on
\* the TSFN later.
LEMMA PassesInStep ==
  ASSUME BInv, CInv, RInv, UntilDestroyed, StepInv, NEW c \in Calls, NEW i \in Positions,
         answer[c][i] = "queued", DeliversToListener
  PROVE  \/ lifecycle \in {"Starting", "Started"}
         \/ lifecycle = "ShuttingDown" /\ active
<1>1. at[c] # "none"
  BY DEF BInv, BatchInOrder
<1>2. ~ServingAsked /\ sdkState \notin {"fresh", "failed"}
  BY <1>1 DEF RInv, RunsOK, NoCallYet, ServingAsked, DeliversToListener
<1>3. lifecycle # "Destroyed" /\ sdkState \notin {"stopping", "halted", "stopped"}
  BY <1>2 DEF RInv, AskedOK
<1>4. lifecycle \notin {"Idle", "Shutdown"}
  BY <1>2, <1>3 DEF StepInv, UntilDestroyed, TInv, SdkOK
<1>5. lifecycle = "ShuttingDown" => active
  BY <1>2 DEF StepInv, RInv, WorkerOK, ActiveTells, At
<1>6. lifecycle \in Lifecycles
  BY DEF CInv, Shape
<1> QED BY <1>3, <1>4, <1>5, <1>6 DEF Lifecycles

\* Between the test and the call of the listener the main thread completes no worker,
\* whatever the workers do.
LEMMA DueKept ==
  ASSUME BInv, CInv, RInv, UntilDestroyed, DeliversInStep, ListenerDue, [Next]_vars
  PROVE  lifecycle' \in {"Starting", "Started"} \/ thread'["shut"].pc # "rest"
<1> USE DEF Threads, Goto, CInv, Shape
<1>1. ~MainFree
  BY DEF MainFree, ListenerDue
<1>2. lifecycle \in {"Starting", "Started"} \/ thread["shut"].pc # "rest"
  BY DEF DeliversInStep
<1>3. ASSUME UNCHANGED <<lifecycle, thread>>
      PROVE  lifecycle' \in {"Starting", "Started"} \/ thread'["shut"].pc # "rest"
  BY <1>2, <1>3
<1>4. ASSUME NEW t \in Threads, StopStep(t)
      PROVE  lifecycle' \in {"Starting", "Started"} \/ thread'["shut"].pc # "rest"
  <2>1. UNCHANGED lifecycle /\ \E pc \in Sequence \cup {"publish"} : ThreadMoved(t, pc)
    BY <1>4, GotoMoves DEF StopStep, AwaitIdle, TakeFlag, LockSdk, SdkStops, SdkStopped,
       SdkStopFails, FinalizeListener, Sequence
  <2> QED BY <1>2, <2>1 DEF ThreadMoved, Sequence
<1>5. CASE \/ SubscribeReturns \/ ForceDestroyEnds \/ DestructorEnds \/ MembersDestroyed
  <2>1. UNCHANGED lifecycle /\ thread'["shut"] = thread["shut"]
    BY <1>5 DEF SubscribeReturns, ForceDestroyEnds, DestructorEnds, MembersDestroyed
  <2> QED BY <1>2, <2>1
<1>6. CASE StartWorker
  <2>1. CASE StartPublishFailure
    <3>1. lifecycle = "Starting" => sdkState = "failed"
      BY <2>1 DEF StartPublishFailure, At, UntilDestroyed, TInv, StartOK
    <3>2. sdkState # "failed"
      <4>1. PICK c \in Calls, i \in Positions : answer[c][i] = "passed"
        BY DEF ListenerDue
      <4> QED BY <4>1 DEF RInv, RunsOK, NoCallYet, BInv, BatchInOrder
    <3>3. UNCHANGED lifecycle /\ thread'["shut"] = thread["shut"]
      BY <2>1, <3>1, <3>2 DEF StartPublishFailure
    <3> QED BY <1>2, <3>3
  <2>2. CASE StartPublish
    <3>1. /\ lifecycle' = lifecycle \/ lifecycle' = "Started"
          /\ thread'["shut"] = thread["shut"]
      BY <2>2 DEF StartPublish
    <3> QED BY <1>2, <3>1
  <2>3. CASE \/ StartCheck \/ StartLock \/ SdkStartFails \/ SdkStarts \/ SdkStarted \/ StartEnds
    <3>1. UNCHANGED lifecycle /\ thread'["shut"] = thread["shut"]
      BY <2>3 DEF StartCheck, StartLock, SdkStartFails, SdkStarts, SdkStarted, StartEnds
    <3> QED BY <1>2, <3>1
  <2> QED BY <1>4, <1>6, <2>1, <2>2, <2>3 DEF StartWorker
<1>7. CASE ShutdownWorker
  <2>1. CASE ShutCheck \/ ShutFails \/ ShutEnds
    <3>1. thread'["shut"].pc \in {"complete", "idle"}
      BY <2>1 DEF ShutCheck, ShutFails, ShutEnds, Stopping
    <3> QED BY <3>1
  <2> QED BY <1>4, <1>7, <2>1 DEF ShutdownWorker
<1>8. ASSUME NEW c \in Calls, ConsumeMessage(c) \/ CallThread(c) \/ CallTimesOut(c)
      PROVE  UNCHANGED <<lifecycle, thread>>
  BY <1>8 DEF ConsumeMessage, CallThread, CallChecks, CallAcquires, CallOffers, CallOfferFails,
     CallResolves, CallGivesUp, CallTimesOut, CallLeaves
<1>9. ASSUME NEW c \in Calls, NEW i \in Positions,
             CallJs(c, i) \/ CallJsDelivers(c, i) \/ CallJsFails(c, i)
      PROVE  UNCHANGED <<lifecycle, thread>>
  BY <1>9 DEF CallJs, CallJsDelivers, CallJsFails, SetAnswer
<1>10. ~Application /\ ~Completes("start") /\ ~Completes("shut")
  BY <1>1 DEF Application, Start, Shutdown, ShutdownQueueFails, Subscribe, ForceDestroy,
     DropReference, Destructor, DestructorReturnsEarly, Collectable, SetListener, AckDone,
     AckCollected, Completes
<1>11. CASE Finished \/ UNCHANGED vars
  BY <1>3, <1>11 DEF Finished
<1> QED BY <1>3, <1>4, <1>5, <1>6, <1>7, <1>8, <1>9, <1>10, <1>11 DEF Next, MainThread

LEMMA DeliversInStepNext ==
  ASSUME BInv, CInv, RInv, UntilDestroyed, StepInv, DeliversInStep, [Next]_vars
  PROVE  DeliversInStep'
<1> SUFFICES ASSUME NEW c \in Calls, NEW i \in Positions, answer'[c][i] = "passed"
             PROVE  lifecycle' \in {"Starting", "Started"} \/ thread'["shut"].pc # "rest"
  BY DEF DeliversInStep, ListenerDue
<1>1. CASE ListenerDue
  BY <1>1, DueKept
<1>2. CASE ~ListenerDue
  <2>1. answer[c][i] # "passed"
    BY <1>2 DEF ListenerDue
  <2>2. ASSUME NEW d \in Calls, NEW j \in Positions, CallJs(d, j)
        PROVE  lifecycle' \in {"Starting", "Started"} \/ thread'["shut"].pc # "rest"
    <3>1. answer[d][j] = "queued" /\ DeliversToListener /\ UNCHANGED <<lifecycle, thread>>
      BY <2>1, <2>2 DEF CallJs, SetAnswer, BInv, CallTypes
    <3> QED BY <3>1, PassesInStep DEF RInv, WorkerOK, ActiveTells
  <2>3. ASSUME NEW d \in Calls, NEW j \in Positions,
               CallJsDelivers(d, j) \/ CallJsFails(d, j) \/ AckDone(d, j) \/ AckCollected(d, j)
        PROVE  FALSE
    BY <2>1, <2>3 DEF CallJsDelivers, CallJsFails, AckDone, AckCollected, SetAnswer, BInv,
       CallTypes
  <2>4. ASSUME NEW d \in Calls, ConsumeMessage(d) \/ CallThread(d) \/ CallTimesOut(d)
        PROVE  FALSE
    BY <2>1, <2>4 DEF ConsumeMessage, CallThread, CallChecks, CallAcquires, CallOffers,
       CallOfferFails, CallResolves, CallGivesUp, CallTimesOut, CallLeaves, BInv, CallTypes
  <2>5. UNCHANGED answer => FALSE
    BY <2>1
  <2> QED BY <2>2, <2>3, <2>4, <2>5, ObjectKeepsCalls, WorkersKeepCalls, StopStepKeepsCalls
          DEF Next, Application, MainThread, Finished
<1> QED BY <1>1, <1>2

\* CallConsumerMessageJsListener hands a message to the JavaScript listener, which it
\* does some time after it has tested the request, only while the consumer starts, is
\* started or has a shutdown worker whose promise JavaScript still waits for: not before
\* Start, not after shutdown() was answered with success or failure, and not once the
\* object is destroyed.  ConsumerWrapper, the model of consumer.ts over this consumer,
\* takes that for granted.
THEOREM DeliveryInStep == Spec => []DeliversInStep
<1>1. Spec => []StepInv
  BY StepInvInit, StepInvNext, Invariant, PTL DEF Spec, SafetySpec
<1>2. Init => DeliversInStep
  BY DEF Init, DeliversInStep, ListenerDue
<1>3. BInv /\ CInv /\ RInv /\ UntilDestroyed /\ StepInv /\ DeliversInStep /\ [Next]_vars
        => DeliversInStep'
  BY DeliversInStepNext
<1> QED BY <1>1, <1>2, <1>3, Invariant, PTL DEF Spec, SafetySpec

-----------------------------------------------------------------------------
(* The push consumer implements DeliveryService, in every build: every     *)
(* step of the start and shutdown sequences, of ForceDestroy, of the       *)
(* consume threads and of the main thread is a step of the service or      *)
(* leaves it as it is.  A listener whose SDK consumer has stopped has been *)
(* asked to shut down (AskedOK), so that a message still queued is not     *)
(* delivered.                                                              *)

\* A call that leaves has its result; a message was offered only when the ones
\* before it were accepted, which stays true when the call has returned.
CallOK(c) ==
    /\ at[c] \in {"leave", "done"} => status[c] # "none"
    /\ \A i \in Positions : answer[c][i] # "none" =>
         \A j \in 1..(i - 1) : answer[c][j] = "acked"

DInv == \A c \in Calls : CallOK(c)

AllInv == BInv /\ CInv /\ RInv /\ DInv

\* The invariant holds when the consumer is created.
LEMMA DInvInit == Init => DInv
BY DEF Init, DInv, CallOK

\* The consume threads.
LEMMA DInvCall ==
  ASSUME AllInv, NEW c \in Calls, ConsumeMessage(c) \/ CallThread(c) \/ CallTimesOut(c)
  PROVE  DInv'
<1> USE DEF AllInv, CallGoto, Returns
<1>4. ASSUME NEW d \in Calls \ {c} PROVE CallOK(d)'
  <2>1. OthersKept(c)
    BY DEF BInv, CallTypes, OthersKept, ConsumeMessage, CallThread, CallChecks,
           CallAcquires, CallOffers, CallOfferFails, CallResolves, CallGivesUp,
           CallTimesOut, CallLeaves
  <2> QED BY <2>1 DEF OthersKept, CallOK, DInv
<1>5. CallOK(c)'
  <2> USE DEF BInv, CallTypes, DInv, CallOK, Inside, Guarded
  <2>1. CASE CallOffers(c)
    <3>1. index[c] \in Positions /\ \A i \in 1..(index[c] - 1) : answer[c][i] = "acked"
      BY <2>1 DEF CallOffers, BatchInOrder, Consuming
    <3>2. answer[c][index[c]] = "none"
      BY <2>1 DEF CallOffers, BatchInOrder
    <3>3. /\ answer'[c][index[c]] = "queued"
          /\ \A i \in Positions \ {index[c]} : answer'[c][i] = answer[c][i]
      BY <2>1, <3>1 DEF CallOffers
    <3>4. at'[c] = "wait"
      BY <2>1 DEF CallOffers
    <3>5. ASSUME NEW i \in Positions, answer'[c][i] # "none", NEW j \in 1..(i - 1)
          PROVE  answer'[c][j] = "acked"
      <4>1. answer[c][j] = "acked"
        BY <3>1, <3>3, <3>5
      <4>2. j \in Positions
        BY <3>5, SizeAssumption DEF Positions
      <4> QED BY <3>2, <3>3, <4>1, <4>2
    <3> QED BY <3>4, <3>5
  <2>2. CASE ConsumeMessage(c) \/ CallChecks(c) \/ CallAcquires(c)
    BY <2>2 DEF ConsumeMessage, CallChecks, CallAcquires
  <2>3. CASE CallOfferFails(c) \/ CallGivesUp(c) \/ CallTimesOut(c) \/ CallLeaves(c)
    BY <2>3 DEF CallOfferFails, CallGivesUp, CallTimesOut, CallLeaves
  <2>4. CASE CallResolves(c)
    BY <2>4 DEF CallResolves
  <2> QED BY <2>1, <2>2, <2>3, <2>4 DEF CallThread
<1> QED BY <1>4, <1>5 DEF DInv

\* An answer is given once.
LEMMA AnswerOnce ==
  ASSUME BInv, NEW c \in Calls, NEW i \in Positions,
         \/ CallJs(c, i) \/ CallJsDelivers(c, i) \/ CallJsFails(c, i)
         \/ AckDone(c, i) \/ AckCollected(c, i)
  PROVE  /\ answer[c][i] \in {"queued", "passed", "held"}
         /\ UNCHANGED <<lifecycle, sdkState, serving, requested, released, at, status>>
         /\ \E a \in {"passed", "held"} \cup Answered : answer' = [answer EXCEPT ![c][i] = a]
BY DEF CallJs, CallJsDelivers, CallJsFails, AckDone, AckCollected, SetAnswer, Answered

\* The main thread and the acks: an accepted message stays accepted.
LEMMA DInvAnswer ==
  ASSUME AllInv, NEW c \in Calls, NEW i \in Positions,
         \/ CallJs(c, i) \/ CallJsDelivers(c, i) \/ CallJsFails(c, i)
         \/ AckDone(c, i) \/ AckCollected(c, i)
  PROVE  DInv'
<1> USE DEF AllInv
<1>1. /\ answer[c][i] \in {"queued", "passed", "held"}
      /\ UNCHANGED <<lifecycle, sdkState, serving, requested, released, at, status>>
  BY AnswerOnce
<1>2. PICK a \in {"passed", "held"} \cup Answered : answer' = [answer EXCEPT ![c][i] = a]
  BY AnswerOnce
<1>4. ASSUME NEW d \in Calls, NEW j \in Positions
      PROVE  /\ answer'[d][j] # "none" => answer[d][j] # "none"
             /\ answer[d][j] = "acked" => answer'[d][j] = "acked"
  BY <1>1, <1>2 DEF BInv, CallTypes
<1>5. ASSUME NEW d \in Calls PROVE CallOK(d)'
  <2>1. \A k \in Positions : 1..(k - 1) \subseteq Positions
    BY SizeAssumption DEF Positions
  <2> QED BY <1>1, <1>4, <2>1 DEF DInv, CallOK
<1> QED BY <1>5 DEF DInv

\* The other steps leave the calls alone.
LEMMA DInvCallsKept == ASSUME DInv, UNCHANGED <<at, status, answer>> PROVE DInv'
BY DEF DInv, CallOK

\* What RequestShutdown does.
LEMMA RequestGrows ==
  ASSUME Shape, NEW l, RequestShutdown(l)
  PROVE  \A k \in Listeners : requested[k] => requested'[k]
BY DEF RequestShutdown, Shape

\* The invariant is preserved.
LEMMA DInvNext ==
  ASSUME AllInv, [Next]_vars
  PROVE  DInv'
<1> USE DEF AllInv
<1>1. ASSUME NEW c \in Calls, NEW i \in Positions,
             \/ CallJs(c, i) \/ CallJsDelivers(c, i) \/ CallJsFails(c, i)
             \/ AckDone(c, i) \/ AckCollected(c, i)
      PROVE  DInv'
  BY <1>1, DInvAnswer
<1>2. CASE \/ Start \/ Shutdown \/ ShutdownQueueFails \/ Subscribe \/ ForceDestroy
           \/ DropReference \/ Destructor \/ DestructorReturnsEarly \/ SubscribeReturns
           \/ ForceDestroyEnds \/ DestructorEnds \/ MembersDestroyed
           \/ \E l \in Listeners : SetListener(l)
  BY <1>2, ObjectKeepsCalls, DInvCallsKept
<1>3. CASE StartWorker \/ ShutdownWorker \/ Completes("start") \/ Completes("shut")
  BY <1>3, WorkersKeepCalls, DInvCallsKept
<1>4. CASE StopStep("main")
  BY <1>4, StopStepKeepsCalls, DInvCallsKept DEF Threads
<1>5. CASE \E c \in Calls : ConsumeMessage(c) \/ CallThread(c) \/ CallTimesOut(c)
  BY <1>5, DInvCall
<1>6. CASE Finished \/ UNCHANGED vars
  BY <1>6, DInvCallsKept DEF Finished
<1> QED BY <1>1, <1>2, <1>3, <1>4, <1>5, <1>6 DEF Next, Application, MainThread

-----------------------------------------------------------------------------
(* The service's variables, and its actions in terms of them.              *)

Door ==
    CASE sdkState \in {"failed", "halted", "stopped"} -> "stopped"
      [] sdkState \in {"fresh", "running", "stopping"} ->
           IF serving # NoListener /\ requested[serving] THEN "closed" ELSE "open"

StatusOf == [c \in Calls |-> IF at[c] = "none" THEN "new"
                             ELSE IF status[c] = "none" THEN "open" ELSE status[c]]

Seen(a) == CASE a \in {"none", "queued"} -> "none"
             [] a = "passed" -> "due"
             [] a = "held" -> "asked"
             [] a = "acked" -> "yes"
             [] OTHER -> "no"

AnswerOf == [c \in Calls |-> [i \in Positions |-> Seen(answer[c][i])]]

\* Closing, stopping and stuttering.
LEMMA ServiceDoor ==
  /\ Service!Close <=> Door = "open" /\ Door' = "closed" /\ UNCHANGED <<StatusOf, AnswerOf>>
  /\ Service!Stop <=> /\ Door # "stopped" /\ \A c \in Calls : StatusOf[c] # "open"
                      /\ Door' = "stopped" /\ UNCHANGED <<StatusOf, AnswerOf>>
  /\ (UNCHANGED Service!vars) <=> UNCHANGED <<Door, StatusOf, AnswerOf>>
BY DEF Service!Close, Service!Stop, Service!vars, Door, StatusOf, AnswerOf, Seen,
       Service!Positions, Positions

\* What happens to a batch.
LEMMA ServiceBatch ==
  ASSUME NEW c \in Calls
  PROVE  /\ Service!Open(c) <=> /\ Door # "stopped" /\ StatusOf[c] = "new"
                                /\ StatusOf' = [StatusOf EXCEPT ![c] = "open"]
                                /\ UNCHANGED <<Door, AnswerOf>>
         /\ Service!Consume(c) <=> /\ StatusOf[c] = "open"
                                   /\ \A i \in Positions : AnswerOf[c][i] = "yes"
                                   /\ StatusOf' = [StatusOf EXCEPT ![c] = "success"]
                                   /\ UNCHANGED <<Door, AnswerOf>>
         /\ Service!Return(c) <=> /\ StatusOf[c] = "open"
                                  /\ StatusOf' = [StatusOf EXCEPT ![c] = "later"]
                                  /\ UNCHANGED <<Door, AnswerOf>>
BY DEF Service!Open, Service!Consume, Service!Return, Door, StatusOf, AnswerOf, Seen,
       Service!Positions, Positions

\* What happens to a message.
LEMMA ServiceMessage ==
  ASSUME NEW c \in Calls, NEW i \in Positions, NEW a
  PROVE  /\ Service!ComeDue(c, i) <=>
              /\ Door = "open" /\ StatusOf[c] # "new" /\ AnswerOf[c][i] = "none"
              /\ \A j \in 1..(i - 1) : AnswerOf[c][j] = "yes"
              /\ \A d \in Calls, j \in Positions : AnswerOf[d][j] # "due"
              /\ AnswerOf' = [AnswerOf EXCEPT ![c][i] = "due"]
              /\ UNCHANGED <<Door, StatusOf>>
         /\ Service!Ask(c, i) <=>
              /\ AnswerOf[c][i] = "due"
              /\ AnswerOf' = [AnswerOf EXCEPT ![c][i] = "asked"]
              /\ UNCHANGED <<Door, StatusOf>>
         /\ Service!Answer(c, i, a) <=>
              /\ AnswerOf[c][i] = "asked" \/ (AnswerOf[c][i] \in {"none", "due"} /\ a = "no")
              /\ AnswerOf' = [AnswerOf EXCEPT ![c][i] = a]
              /\ UNCHANGED <<Door, StatusOf>>
BY DEF Service!ComeDue, Service!Ask, Service!Answer, Door, StatusOf, AnswerOf, Seen, Service!Positions,
       Positions

-----------------------------------------------------------------------------
(* Every step is a step of the service, or changes nothing of it.          *)

ServiceStep == Service!Next \/ UNCHANGED Service!vars

\* The consume threads: a batch opens, is consumed or is returned.
LEMMA StepCall ==
  ASSUME AllInv, NEW c \in Calls, ConsumeMessage(c) \/ CallThread(c) \/ CallTimesOut(c)
  PROVE  ServiceStep
<1> USE DEF AllInv, CallGoto
<1>1. Door' = Door
  BY DEF Door, ConsumeMessage, CallThread, CallChecks, CallAcquires, CallOffers,
         CallOfferFails, CallResolves, CallGivesUp, CallTimesOut, CallLeaves
<1>2. answer' = answer => AnswerOf' = AnswerOf
  BY DEF AnswerOf, Seen
<1>3. ASSUME at[c] # "none", status' = status, answer' = answer,
             \E pc \in {"done"} \cup Inside : at' = [at EXCEPT ![c] = pc]
      PROVE  ServiceStep
  <2>1. StatusOf' = StatusOf
    BY <1>3 DEF StatusOf, BInv, CallTypes, Inside, Guarded
  <2> QED BY <1>1, <1>2, <1>3, <2>1, ServiceDoor DEF ServiceStep
<1>4. ASSUME at[c] \in Consuming, Returns(c, "later"), answer' = answer
      PROVE  ServiceStep
  <2>1. StatusOf[c] = "open"
    BY <1>4 DEF StatusOf, BInv, BatchInOrder, Consuming
  <2>2. StatusOf' = [StatusOf EXCEPT ![c] = "later"]
    BY <1>4 DEF StatusOf, Returns, BInv, CallTypes
  <2> QED BY <1>1, <1>2, <1>4, <2>1, <2>2, ServiceBatch DEF ServiceStep, Service!Next
<1>5. CASE ConsumeMessage(c)
  <2>1. StatusOf[c] = "new" /\ Door # "stopped"
    BY <1>5 DEF ConsumeMessage, StatusOf, Door
  <2>2. StatusOf' = [StatusOf EXCEPT ![c] = "open"]
    <3>1. status[c] = "none" /\ at' = [at EXCEPT ![c] = "check"] /\ status' = status
      BY <1>5 DEF ConsumeMessage, BInv, BatchInOrder
    <3> QED BY <3>1 DEF StatusOf, BInv, CallTypes
  <2> QED BY <1>1, <1>2, <1>5, <2>1, <2>2, ServiceBatch
          DEF ConsumeMessage, ServiceStep, Service!Next
<1>6. CASE CallChecks(c)
  BY <1>3, <1>4, <1>6 DEF CallChecks, Consuming, Inside
<1>7. CASE CallAcquires(c)
  BY <1>3, <1>4, <1>7 DEF CallAcquires, Consuming, Inside, Guarded
<1>8. CASE CallOffers(c)
  <2>1. answer[c][index[c]] = "none" /\ index[c] \in Positions
    BY <1>8 DEF CallOffers, BInv, BatchInOrder, CallTypes
  <2>2. AnswerOf' = AnswerOf
    BY <1>8, <2>1 DEF CallOffers, AnswerOf, Seen, BInv, CallTypes
  <2>3. StatusOf' = StatusOf
    BY <1>8 DEF CallOffers, StatusOf, BInv, CallTypes
  <2> QED BY <1>1, <2>2, <2>3, ServiceDoor DEF ServiceStep
<1>9. CASE CallOfferFails(c) \/ CallGivesUp(c) \/ CallTimesOut(c)
  BY <1>4, <1>9 DEF CallOfferFails, CallGivesUp, CallTimesOut, Consuming
<1>10. CASE CallResolves(c)
  <2>1. CASE ~ConsumesMessage(c)
    BY <1>4, <1>10, <2>1 DEF CallResolves, Consuming
  <2>2. CASE ConsumesMessage(c) /\ index[c] = BatchSize
    <3>1. \A i \in Positions : answer[c][i] = "acked"
      <4>1. Returns(c, "success") /\ answer' = answer
        BY <1>10, <2>2 DEF CallResolves
      <4>2. SuccessMeansAllAcked'
        BY <1>10, BInvCall DEF BInv, CallThread
      <4> QED BY <4>1, <4>2 DEF Returns, SuccessMeansAllAcked, BInv, CallTypes
    <3>2. StatusOf[c] = "open" /\ \A i \in Positions : AnswerOf[c][i] = "yes"
      BY <1>10, <3>1 DEF CallResolves, StatusOf, AnswerOf, Seen, BInv, BatchInOrder, Consuming
    <3>3. StatusOf' = [StatusOf EXCEPT ![c] = "success"] /\ answer' = answer
      BY <1>10, <2>2 DEF CallResolves, Returns, StatusOf, BInv, CallTypes
    <3> QED BY <1>1, <1>2, <3>2, <3>3, ServiceBatch DEF ServiceStep, Service!Next
  <2>3. CASE ConsumesMessage(c) /\ index[c] # BatchSize
    BY <1>3, <1>10, <2>3 DEF CallResolves, Inside
  <2> QED BY <2>1, <2>2, <2>3
<1>11. CASE CallLeaves(c)
  BY <1>3, <1>11 DEF CallLeaves
<1> QED BY <1>5, <1>6, <1>7, <1>8, <1>9, <1>10, <1>11 DEF CallThread

\* The main thread: a message is asked about, or answered.
LEMMA StepAnswer ==
  ASSUME AllInv, NEW c \in Calls, NEW i \in Positions,
         \/ CallJs(c, i) \/ CallJsDelivers(c, i) \/ CallJsFails(c, i)
         \/ AckDone(c, i) \/ AckCollected(c, i)
  PROVE  ServiceStep
<1> USE DEF AllInv
<1>1. /\ answer[c][i] \in {"queued", "passed", "held"}
      /\ UNCHANGED <<lifecycle, sdkState, serving, requested, released, at, status>>
  BY AnswerOnce
<1>2. Door' = Door /\ StatusOf' = StatusOf
  BY <1>1 DEF Door, StatusOf
<1>3. ASSUME NEW a, answer' = [answer EXCEPT ![c][i] = a]
      PROVE  AnswerOf' = [AnswerOf EXCEPT ![c][i] = Seen(a)]
  BY <1>3 DEF AnswerOf, BInv, CallTypes
<1>4. AnswerOf[c][i] = Seen(answer[c][i])
  BY DEF AnswerOf
<1>5. ASSUME NEW a \in {"yes", "no"}, Service!Answer(c, i, a) PROVE ServiceStep
  BY <1>5 DEF ServiceStep, Service!Next, Service!Positions, Positions
<1>6. CASE CallJs(c, i) /\ DeliversToListener
  <2>1. answer' = [answer EXCEPT ![c][i] = "passed"] /\ answer[c][i] = "queued"
    BY <1>6 DEF CallJs, SetAnswer
  <2>2. AnswerOf' = [AnswerOf EXCEPT ![c][i] = "due"] /\ AnswerOf[c][i] = "none"
    BY <1>3, <1>4, <2>1 DEF Seen
  <2>3. at[c] # "none"
    BY <2>1 DEF BInv, BatchInOrder
  <2>4. StatusOf[c] # "new"
    BY <2>3 DEF StatusOf, BInv, CallTypes
  <2>5. Door = "open"
    <3>1. serving \in Listeners /\ ~requested[serving] /\ ~NoCallYet
      BY <1>6, <2>3 DEF RInv, RunsOK, NoCallYet, DeliversToListener
    <3>2. sdkState = "running"
      BY <3>1 DEF RInv, RunsOK, AskedOK, ServingAsked, CInv, Shape
    <3> QED BY <3>1, <3>2 DEF Door
  <2>6. \A j \in 1..(i - 1) : AnswerOf[c][j] = "yes"
    <3>1. \A j \in 1..(i - 1) : j \in Positions /\ answer[c][j] = "acked"
      BY <2>1, SizeAssumption DEF DInv, CallOK, Positions
    <3> QED BY <3>1 DEF AnswerOf, Seen
  <2>7. \A d \in Calls, j \in Positions : AnswerOf[d][j] # "due"
    BY <1>6 DEF CallJs, MainFree, AnswerOf, Seen
  <2>8. Service!ComeDue(c, i)
    BY <1>2, <2>2, <2>4, <2>5, <2>6, <2>7, ServiceMessage
  <2> QED BY <2>8 DEF ServiceStep, Service!Next, Service!Positions, Positions
<1>7. CASE (CallJs(c, i) /\ ~DeliversToListener) \/ CallJsFails(c, i)
  <2>1. \E a \in {"nacked", "errored"} : answer' = [answer EXCEPT ![c][i] = a]
    BY <1>7 DEF CallJs, CallJsDelivers, CallJsFails, SetAnswer
  <2>2. AnswerOf' = [AnswerOf EXCEPT ![c][i] = "no"] /\ AnswerOf[c][i] \in {"none", "due", "asked"}
    BY <1>1, <1>3, <1>4, <2>1 DEF Seen
  <2> QED BY <1>2, <1>5, <2>2, ServiceMessage
<1>8. CASE AckDone(c, i) \/ AckCollected(c, i)
  <2>1. answer[c][i] = "held" /\
        \E a \in {"acked", "nacked", "errored"} : answer' = [answer EXCEPT ![c][i] = a]
    BY <1>8 DEF AckDone, AckCollected, SetAnswer
  <2>2. /\ AnswerOf[c][i] = "asked"
        /\ \E a \in {"yes", "no"} : AnswerOf' = [AnswerOf EXCEPT ![c][i] = a]
    BY <1>3, <1>4, <2>1 DEF Seen
  <2> QED BY <1>2, <1>5, <2>2, ServiceMessage
<1>9. CASE CallJsDelivers(c, i)
  <2>1. answer[c][i] = "passed" /\ answer' = [answer EXCEPT ![c][i] = "held"]
    BY <1>9 DEF CallJsDelivers, SetAnswer
  <2>2. AnswerOf[c][i] = "due" /\ AnswerOf' = [AnswerOf EXCEPT ![c][i] = "asked"]
    BY <1>3, <1>4, <2>1 DEF Seen
  <2>3. Service!Ask(c, i)
    BY <1>2, <2>2, ServiceMessage
  <2> QED BY <2>3 DEF ServiceStep, Service!Next, Service!Positions, Positions
<1> QED BY <1>6, <1>7, <1>8, <1>9

\* A step that leaves the calls alone closes the service, stops it when no batch is
\* open, or leaves it as it is.
LEMMA StepDoor ==
  ASSUME UNCHANGED <<at, status, answer>>,
         \/ Door' = Door
         \/ Door = "open" /\ Door' = "closed"
         \/ Door' = "stopped" /\ \A c \in Calls : StatusOf[c] # "open"
  PROVE  ServiceStep
<1>1. UNCHANGED <<StatusOf, AnswerOf>>
  BY DEF StatusOf, AnswerOf
<1> QED BY <1>1, ServiceDoor DEF ServiceStep, Service!Next

\* A request to shut down closes the service, if it was open.
LEMMA DoorCloses ==
  ASSUME Shape, UNCHANGED <<sdkState, serving>>,
         \A l \in Listeners : requested[l] => requested'[l]
  PROVE  Door' = Door \/ (Door = "open" /\ Door' = "closed")
BY DEF Door, Shape

\* Without a call inside no batch is open.
LEMMA NoBatchOpen ==
  ASSUME AllInv, NoCallInside
  PROVE  \A c \in Calls : StatusOf[c] # "open"
BY DEF AllInv, BInv, CallTypes, DInv, CallOK, NoCallInside, StatusOf, Inside, Guarded

\* The stop sequence.
LEMMA StepStop ==
  ASSUME AllInv, NEW t \in Threads, StopStep(t)
  PROVE  ServiceStep
<1>0. UNCHANGED <<at, status, answer>>
  BY StopStepKeepsCalls
<1>1. CASE AwaitIdle(t) \/ TakeFlag(t) \/ LockSdk(t)
  BY <1>0, <1>1, StepDoor DEF AwaitIdle, TakeFlag, LockSdk, Door
<1>2. CASE SdkStops(t)
  BY <1>0, <1>2, StepDoor DEF SdkStops, Door
<1>3. CASE SdkStopped(t) \/ SdkStopFails(t)
  <2>1. CASE sdkState \in {"stopping", "halted"}
    <3>1. NoCallInside
      BY <1>3, <2>1 DEF SdkStopped, SdkStopFails, ConsumeThreadsJoined
    <3>2. Door' = "stopped"
      BY <1>3, <2>1 DEF SdkStopped, SdkStopFails, Door
    <3> QED BY <1>0, <3>1, <3>2, NoBatchOpen, StepDoor
  <2>2. CASE sdkState \notin {"stopping", "halted"}
    BY <1>0, <1>3, <2>2, StepDoor DEF SdkStopped, SdkStopFails, Door
  <2> QED BY <2>1, <2>2
<1>4. CASE FinalizeListener(t)
  <2>1. \A l \in Listeners : requested[l] => requested'[l]
    BY <1>4 DEF FinalizeListener, ListenerShutdown, AllInv, CInv, Shape
  <2> QED BY <1>0, <1>4, <2>1, DoorCloses, StepDoor DEF FinalizeListener, AllInv, CInv
<1> QED BY <1>1, <1>2, <1>3, <1>4 DEF StopStep

\* The two workers.
LEMMA StepWorkers ==
  ASSUME AllInv, StartWorker \/ ShutdownWorker \/ Completes("start") \/ Completes("shut")
  PROVE  ServiceStep
<1>0. UNCHANGED <<at, status, answer>> /\ Shape
  BY WorkersKeepCalls DEF AllInv, CInv
<1>1. CASE \/ StartCheck \/ StartLock \/ SdkStarted \/ StartEnds \/ ShutFails \/ ShutEnds
           \/ Completes("start") \/ Completes("shut")
  BY <1>0, <1>1, StepDoor
     DEF StartCheck, StartLock, SdkStarted, StartEnds, ShutFails, ShutEnds, Completes, Door
<1>2. CASE SdkStarts \/ SdkStartFails
  <2>1. sdkState = "fresh"
    BY <1>2 DEF SdkStartFails, SdkStarts, AllInv, RInv, RunsOK, At
  <2>2. \A c \in Calls : StatusOf[c] # "open"
    BY <2>1 DEF AllInv, RInv, RunsOK, NoCallYet, StatusOf
  <2>3. Door' = Door \/ Door' = "stopped"
    BY <1>2, <2>1 DEF SdkStartFails, SdkStarts, Door
  <2> QED BY <1>0, <2>2, <2>3, StepDoor
<1>3. CASE StartPublish \/ StartPublishFailure \/ ShutCheck
  <2>1. \A l \in Listeners : requested[l] => requested'[l]
    BY <1>0, <1>3, RequestGrows DEF StartPublish, StartPublishFailure, ShutCheck
  <2> QED BY <1>0, <1>3, <2>1, DoorCloses, StepDoor
          DEF StartPublish, StartPublishFailure, ShutCheck
<1>4. CASE StopStep("start") \/ StopStep("shut")
  BY <1>4, StepStop DEF Threads
<1> QED BY <1>1, <1>2, <1>3, <1>4 DEF StartWorker, ShutdownWorker

\* The main thread's other steps.
LEMMA StepObject ==
  ASSUME AllInv,
         \/ Start \/ Shutdown \/ ShutdownQueueFails \/ Subscribe \/ ForceDestroy
         \/ DropReference \/ Destructor \/ DestructorReturnsEarly \/ SubscribeReturns
         \/ ForceDestroyEnds \/ DestructorEnds \/ MembersDestroyed
         \/ \E l \in Listeners : SetListener(l)
  PROVE  ServiceStep
<1>0. UNCHANGED <<at, status, answer>> /\ Shape
  BY ObjectKeepsCalls DEF AllInv, CInv
<1>1. CASE \/ Start \/ Shutdown \/ ShutdownQueueFails \/ Subscribe \/ DropReference
           \/ DestructorReturnsEarly \/ SubscribeReturns \/ ForceDestroyEnds \/ DestructorEnds
  BY <1>0, <1>1, StepDoor
     DEF Start, Shutdown, ShutdownQueueFails, Subscribe, DropReference,
         DestructorReturnsEarly, SubscribeReturns, ForceDestroyEnds, DestructorEnds, Door
<1>2. CASE Destructor \/ ForceDestroy
  <2>1. RequestShutdown(current) /\ UNCHANGED <<sdkState, serving>>
    BY <1>2 DEF Destructor, ForceDestroy, BeginDestroy
  <2> QED BY <1>0, <2>1, RequestGrows, DoorCloses, StepDoor
<1>3. CASE MembersDestroyed
  <2>1. \A c \in Calls : StatusOf[c] # "open"
    <3>1. CASE sdkState \in {"fresh", "failed"}
      BY <3>1 DEF AllInv, RInv, RunsOK, NoCallYet, StatusOf
    <3>2. CASE sdkState \notin {"fresh", "failed"}
      BY <1>3, <3>2, NoBatchOpen DEF MembersDestroyed
    <3> QED BY <3>1, <3>2
  <2>2. Door' = "stopped"
    BY <1>3 DEF MembersDestroyed, Door
  <2> QED BY <1>0, <2>1, <2>2, StepDoor
<1>4. ASSUME NEW l \in Listeners, SetListener(l) PROVE ServiceStep
  <2>2. /\ lifecycle = "Idle" /\ sdkState = "fresh" /\ sdkState' = "fresh"
        /\ serving \in Listeners => ~released[serving]
    BY <1>4 DEF SetListener, AllInv, CInv, Places
  <2>3. Door = "open"
    BY <2>2, <1>0 DEF Door, AllInv, RInv, AskedOK, Shape
  <2>4. Door' \in {"open", "closed"}
    BY <2>2 DEF Door
  <2> QED BY <1>0, <2>3, <2>4, StepDoor
<1> QED BY <1>1, <1>2, <1>3, <1>4

\* Every step.
LEMMA StepNext ==
  ASSUME AllInv, [Next]_vars
  PROVE  ServiceStep
<1>1. ASSUME NEW c \in Calls, NEW i \in Positions,
             \/ CallJs(c, i) \/ CallJsDelivers(c, i) \/ CallJsFails(c, i)
             \/ AckDone(c, i) \/ AckCollected(c, i)
      PROVE  ServiceStep
  BY <1>1, StepAnswer
<1>2. CASE \E c \in Calls : ConsumeMessage(c) \/ CallThread(c) \/ CallTimesOut(c)
  BY <1>2, StepCall
<1>3. CASE StartWorker \/ ShutdownWorker \/ Completes("start") \/ Completes("shut")
  BY <1>3, StepWorkers
<1>4. CASE StopStep("main")
  BY <1>4, StepStop DEF Threads
<1>5. CASE \/ Start \/ Shutdown \/ ShutdownQueueFails \/ Subscribe \/ ForceDestroy
           \/ DropReference \/ Destructor \/ DestructorReturnsEarly \/ SubscribeReturns
           \/ ForceDestroyEnds \/ DestructorEnds \/ MembersDestroyed
           \/ \E l \in Listeners : SetListener(l)
  BY <1>5, StepObject
<1>6. CASE Finished \/ UNCHANGED vars
  BY <1>6, StepDoor DEF Finished, Door
<1> QED BY <1>1, <1>2, <1>3, <1>4, <1>5, <1>6 DEF Next, Application, MainThread

\* The service starts as the consumer does.
LEMMA StepInit == Init => Service!Init
BY DEF Init, Service!Init, Service!Positions, Positions

\* The native consumer implements DeliveryService: the messages of a batch are put to
\* the application one after the other and answered once, a batch is consumed only when
\* all were accepted, once a shutdown was requested nothing new is asked but the one
\* message that had passed the test of the request, and when the
\* SDK consumer has stopped no batch is open and none is opened again (consumeMessage,
\* the acks and the stop sequence of lib/push_consumer.cpp).
THEOREM Delivery == Spec => ImplementsDeliveryService
<1>1. AllInv /\ [Next]_vars => DInv'
  BY DInvNext
<1>3. Spec => []AllInv
  BY <1>1, Reach, DInvInit, PTL DEF Spec, SafetySpec, AllInv
<1>4. AllInv /\ [Next]_vars => [Service!Next]_(Service!vars)
  BY StepNext DEF ServiceStep
<1> QED BY <1>3, <1>4, StepInit, PTL DEF Spec, SafetySpec, ImplementsDeliveryService, Service!Spec
=============================================================================
