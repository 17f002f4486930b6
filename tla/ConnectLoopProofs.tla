--------------------------- MODULE ConnectLoopProofs ---------------------------
(***************************************************************************)
(* Proofs about ConnectLoop for every number of sessions and of changes,   *)
(* every backoff interval, with and without presence.                      *)
(***************************************************************************)
EXTENDS ConnectLoop, TLAPS

(* The backoff stays within the configured interval.                       *)
LEMMA BackoffInRange ==
  ASSUME NEW d \in MinDelay..MaxDelay, NEW l \in {"short", "stable"}
  PROVE  Backoff(d, l) \in MinDelay..MaxDelay
BY ConfigAssumption DEF Backoff

(* Every step keeps the types: the code never leaves the configured        *)
(* backoff interval nor its program counters.                              *)
LEMMA Typing == TypeOK /\ [Next]_vars => TypeOK'
<1> SUFFICES ASSUME TypeOK, [Next]_vars
             PROVE  TypeOK'
  OBVIOUS
<1> USE ConfigAssumption DEF TypeOK, States, Present, Parked, LoopPCs, WatcherPCs,
      gateVars, watchVars, loopVars, historyVars
<1>1. CASE Set BY <1>1 DEF Set
<1>2. CASE Shutdown BY <1>2 DEF Shutdown
<1>3. CASE LoopTop BY <1>3 DEF LoopTop
<1>4. CASE BackoffElapsed BY <1>4 DEF BackoffElapsed
<1>5. CASE BackoffInterrupted BY <1>5 DEF BackoffInterrupted
<1>6. CASE AdmitCheck BY <1>6 DEF AdmitCheck
<1>7. CASE AdmitRead BY <1>7 DEF AdmitRead
<1>8. CASE AdmitWake BY <1>8 DEF AdmitWake
<1>9. CASE AdmitAbort BY <1>9 DEF AdmitAbort
<1>10. CASE AdmitBuild
  <2>1. PICK s \in Sessions :
          /\ sess' = s
          /\ cancelled' = [cancelled EXCEPT ![s] = FALSE]
          /\ wpc' = [wpc EXCEPT ![s] = IF PresenceEnabled THEN "select" ELSE "none"]
          /\ wchan' = [wchan EXCEPT ![s] = admChan]
    BY <1>10 DEF AdmitBuild, WatchedChannel
  <2>2. cancelled' \in [Sessions -> BOOLEAN] BY <2>1
  <2>3. wpc' \in [Sessions -> WatcherPCs] BY <2>1
  <2>4. wchan' \in [Sessions -> Nat] BY <2>1
  <2> QED BY <1>10, <2>1, <2>2, <2>3, <2>4 DEF AdmitBuild
<1>11. CASE LoopDisconnected BY <1>11 DEF LoopDisconnected, Connected
<1>12. CASE LoopClassify BY <1>12 DEF LoopClassify, SessDone
<1>13. CASE LoopRelease BY <1>13 DEF LoopRelease
<1>14. CASE LoopDecide
  <2>1. Backoff(delay, lasted) \in MinDelay..MaxDelay BY BackoffInRange
  <2>2. delay' \in MinDelay..MaxDelay BY <1>14, <2>1 DEF LoopDecide
  <2> QED BY <1>14, <2>2 DEF LoopDecide
<1>15. CASE Spawn BY <1>15 DEF Spawn, Connected
<1>16. CASE SessionReturns BY <1>16 DEF SessionReturns
<1>17. ASSUME NEW s \in Sessions, WatchStep(s)
       PROVE  TypeOK'
  <2>1. CASE WatchSessionEnd(s) BY <2>1 DEF WatchSessionEnd
  <2>2. CASE WatchWake(s) BY <2>2 DEF WatchWake
  <2>3. CASE WatchRead(s) BY <2>3 DEF WatchRead
  <2>4. CASE WatchCancel(s) BY <2>4 DEF WatchCancel
  <2> QED BY <1>17, <2>1, <2>2, <2>3, <2>4 DEF WatchStep
<1>18. CASE UNCHANGED vars BY <1>18 DEF vars
<1> QED
  BY <1>1, <1>2, <1>3, <1>4, <1>5, <1>6, <1>7, <1>8, <1>9, <1>10, <1>11, <1>12, <1>13,
     <1>14, <1>15, <1>16, <1>17, <1>18 DEF Next, LoopStep, Exited

(* The inductive invariant holds at the start: nothing has been admitted.  *)
LEMMA IndInvInit == Init => IndInv
<1> SUFFICES ASSUME Init
             PROVE  IndInv
  OBVIOUS
<1> USE ConfigAssumption DEF Init, States, Present, Parked
<1>1. TypeOK
  <2>1. delay \in MinDelay..MaxDelay OBVIOUS
  <2>2. /\ cancelled \in [Sessions -> BOOLEAN]
        /\ wpc \in [Sessions -> WatcherPCs]
        /\ wchan \in [Sessions -> Nat]
    BY DEF WatcherPCs
  <2> QED BY <2>1, <2>2 DEF TypeOK, LoopPCs
<1>2. AloneInv /\ ChannelInv /\ ParityInv BY DEF AloneInv, ChannelInv, ParityInv
<1>3. LoopInv BY DEF LoopInv, SessionPCs
<1>4. ParkInv BY DEF ParkInv, SessionPCs, AskingPCs
<1>5. NoLostWakeup BY DEF NoLostWakeup
<1>6. HotReadmission /\ ConnectedOnlyInWorld BY DEF HotReadmission, ConnectedOnlyInWorld
<1>7. OneLiveSession BY DEF OneLiveSession
<1> QED BY <1>1, <1>2, <1>3, <1>4, <1>5, <1>6, <1>7 DEF IndInv

(* Every step keeps the inductive invariant.                               *)
LEMMA IndInvStep == IndInv /\ [Next]_vars => IndInv'
<1> SUFFICES ASSUME IndInv, [Next]_vars
             PROVE  IndInv'
  OBVIOUS
<1>t. TypeOK /\ TypeOK' BY Typing DEF IndInv
<1> USE <1>t, ConfigAssumption
    DEF IndInv, AloneInv, ChannelInv, ParityInv, LoopInv, ParkInv,
        NoLostWakeup, HotReadmission, ConnectedOnlyInWorld, OneLiveSession,
        TypeOK, States, Present, Parked, LoopPCs, WatcherPCs, SessionPCs, AskingPCs,
        SessDone, gateVars, watchVars, loopVars, historyVars
<1>1. CASE Set BY <1>1 DEF Set
<1>2. CASE Shutdown BY <1>2 DEF Shutdown
<1>3. CASE LoopTop BY <1>3 DEF LoopTop
<1>4. CASE BackoffElapsed BY <1>4 DEF BackoffElapsed
<1>5. CASE BackoffInterrupted BY <1>5 DEF BackoffInterrupted
<1>6. CASE AdmitCheck BY <1>6 DEF AdmitCheck
<1>7. CASE AdmitRead BY <1>7 DEF AdmitRead
<1>8. CASE AdmitWake BY <1>8 DEF AdmitWake
<1>9. CASE AdmitAbort BY <1>9 DEF AdmitAbort
<1>10. CASE AdmitBuild BY <1>10 DEF AdmitBuild, WatchedChannel, Free
<1>11. CASE LoopDisconnected BY <1>11 DEF LoopDisconnected, Connected
<1>12. CASE LoopClassify BY <1>12 DEF LoopClassify
<1>13. CASE LoopRelease BY <1>13 DEF LoopRelease
<1>14. CASE LoopDecide BY <1>14 DEF LoopDecide
<1>15. CASE Spawn BY <1>15 DEF Spawn, Connected
<1>16. CASE SessionReturns BY <1>16 DEF SessionReturns, InConnect
<1>17. ASSUME NEW s \in Sessions, WatchStep(s)
       PROVE  IndInv'
  <2>1. CASE WatchSessionEnd(s) BY <2>1 DEF WatchSessionEnd
  <2>2. CASE WatchWake(s) BY <2>2 DEF WatchWake
  <2>3. CASE WatchRead(s) BY <2>3 DEF WatchRead
  <2>4. CASE WatchCancel(s) BY <2>4 DEF WatchCancel
  <2> QED BY <1>17, <2>1, <2>2, <2>3, <2>4 DEF WatchStep
<1>18. CASE UNCHANGED vars BY <1>18 DEF vars
<1> QED
  BY <1>1, <1>2, <1>3, <1>4, <1>5, <1>6, <1>7, <1>8, <1>9, <1>10, <1>11, <1>12, <1>13,
     <1>14, <1>15, <1>16, <1>17, <1>18 DEF Next, LoopStep, Exited

-------------------------------------------------------------------------------
(* The variables keep their types, and the delay the configured bounds, in *)
(* every reachable state.                                                  *)
THEOREM TypeCorrect == Spec => []TypeOK
<1>1. Init => TypeOK BY IndInvInit DEF IndInv
<1>2. TypeOK /\ [Next]_vars => TypeOK' BY Typing
<1> QED BY <1>1, <1>2, PTL DEF Spec

(* The inductive invariant holds in every reachable state.                 *)
THEOREM Invariance == Spec => []IndInv
<1> QED BY IndInvInit, IndInvStep, PTL DEF Spec

(* Admit and cancelOnPark never sleep through a change, whatever the order *)
(* of parks, resumes, drops and shutdowns.                                 *)
THEOREM NoWakeupIsLost == Spec => []NoLostWakeup
<1>1. IndInv => NoLostWakeup BY DEF IndInv
<1> QED BY <1>1, Invariance, PTL

(* A reconnect without a backoff wait has a park and a resume behind it.   *)
THEOREM OnlyAParkSkipsTheBackoff == Spec => []HotReadmission
<1>1. IndInv => HotReadmission BY DEF IndInv
<1> QED BY <1>1, Invariance, PTL

(* The loop says connected only of a session it holds.                     *)
THEOREM ConnectedIsTrue == Spec => []ConnectedOnlyInWorld
<1>1. IndInv => ConnectedOnlyInWorld BY DEF IndInv
<1> QED BY <1>1, Invariance, PTL

(* No watcher of an earlier session watches a context that is alive.       *)
THEOREM AtMostOneLiveSession == Spec => []OneLiveSession
<1>1. IndInv => OneLiveSession BY DEF IndInv
<1> QED BY <1>1, Invariance, PTL

-------------------------------------------------------------------------------
(* The loop starts where its abstract caller does.                         *)
LEMMA GateInit == Init => Contract!Init
BY DEF Init, Contract!Init, Caller, Due, Revoked, AskingPCs, HoldingPCs

(* Every step of loop, watchers, poller and signal handler is one step of  *)
(* the gate's contract, or none.                                           *)
LEMMA GateStep == IndInv /\ [Next]_vars => [Contract!Next]_Contract!gvars
<1> SUFFICES ASSUME IndInv, [Next]_vars
             PROVE  [Contract!Next]_Contract!gvars
  OBVIOUS
<1> USE ConfigAssumption
    DEF IndInv, TypeOK, States, Present, Parked, Contract!Present, Contract!Parked,
        Contract!gvars, Caller, Due, Revoked, AskingPCs, HoldingPCs,
        gateVars, watchVars, loopVars, historyVars
<1>1. CASE Set
  <2>1. Contract!Flip BY <1>1 DEF Set, Contract!Flip, ChannelInv
  <2> QED BY <2>1 DEF Contract!Next
<1>2. CASE Shutdown
  <2>1. Contract!End BY <1>2 DEF Shutdown, Contract!End
  <2> QED BY <2>1 DEF Contract!Next
<1>3. CASE LoopTop
  <2>1. CASE ctxDone
    <3>1. Contract!Quit BY <1>3, <2>1 DEF LoopTop, Contract!Quit
    <3> QED BY <3>1 DEF Contract!Next
  <2>2. CASE ~ctxDone /\ first
    <3>1. Contract!Ask BY <1>3, <2>2 DEF LoopTop, Contract!Ask
    <3> QED BY <3>1 DEF Contract!Next
  <2>3. CASE ~ctxDone /\ ~first BY <1>3, <2>3 DEF LoopTop
  <2> QED BY <2>1, <2>2, <2>3
<1>4. CASE BackoffElapsed
  <2>1. Contract!Ask BY <1>4 DEF BackoffElapsed, Contract!Ask
  <2> QED BY <2>1 DEF Contract!Next
<1>5. CASE BackoffInterrupted
  <2>1. Contract!Quit BY <1>5 DEF BackoffInterrupted, Contract!Quit
  <2> QED BY <2>1 DEF Contract!Next
<1>6. CASE AdmitCheck
  <2>1. CASE ctxDone
    <3>1. Contract!Fail BY <1>6, <2>1 DEF AdmitCheck, Contract!Fail
    <3> QED BY <3>1 DEF Contract!Next
  <2>2. CASE ~ctxDone /\ PresenceEnabled BY <1>6, <2>2 DEF AdmitCheck
  <2>3. CASE ~ctxDone /\ ~PresenceEnabled
    <3>1. Contract!Grant
      BY <1>6, <2>3 DEF AdmitCheck, AloneInv, ChannelInv, Contract!Grant
    <3> QED BY <3>1 DEF Contract!Next
  <2> QED BY <2>1, <2>2, <2>3
<1>7. CASE AdmitRead
  <2>1. CASE desired = "present"
    <3>1. Contract!Grant BY <1>7, <2>1 DEF AdmitRead, Contract!Grant
    <3> QED BY <3>1 DEF Contract!Next
  <2>2. CASE desired # "present" BY <1>7, <2>2 DEF AdmitRead
  <2> QED BY <2>1, <2>2
<1>8. CASE AdmitWake BY <1>8 DEF AdmitWake
<1>9. CASE AdmitAbort
  <2>1. Contract!Fail BY <1>9 DEF AdmitAbort, Contract!Fail
  <2> QED BY <2>1 DEF Contract!Next
<1>10. CASE AdmitBuild
  <2>1. PICK s \in Sessions : sess' = s /\ cancelled' = [cancelled EXCEPT ![s] = FALSE]
    BY <1>10 DEF AdmitBuild
  <2>2. ~Revoked /\ ~Revoked' BY <1>10, <2>1 DEF AdmitBuild
  <2> QED BY <1>10, <2>2 DEF AdmitBuild
<1>11. CASE LoopDisconnected BY <1>11 DEF LoopDisconnected
<1>12. CASE LoopClassify BY <1>12 DEF LoopClassify
<1>13. CASE LoopRelease
  <2>1. Contract!Leave BY <1>13 DEF LoopRelease, Contract!Leave
  <2> QED BY <2>1 DEF Contract!Next
<1>14. CASE LoopDecide
  <2>1. CASE ctxDone
    <3>1. Contract!Quit BY <1>14, <2>1 DEF LoopDecide, Contract!Quit
    <3> QED BY <3>1 DEF Contract!Next
  <2>2. CASE ~ctxDone BY <1>14, <2>2 DEF LoopDecide
  <2> QED BY <2>1, <2>2
<1>15. CASE Spawn BY <1>15 DEF Spawn
<1>16. CASE SessionReturns BY <1>16 DEF SessionReturns, InConnect
<1>17. ASSUME NEW s \in Sessions, WatchStep(s)
       PROVE  [Contract!Next]_Contract!gvars
  <2>1. CASE WatchSessionEnd(s) BY <2>1 DEF WatchSessionEnd
  <2>2. CASE WatchWake(s) BY <2>2 DEF WatchWake
  <2>3. CASE WatchRead(s) BY <2>3 DEF WatchRead
  <2>4. CASE WatchCancel(s) /\ sess = s /\ pc \in HoldingPCs \ {"build"}
    <3>1. Contract!Revoke BY <2>4 DEF WatchCancel, Contract!Revoke, ParkInv, SessionPCs
    <3> QED BY <3>1 DEF Contract!Next
  <2>5. CASE WatchCancel(s) /\ ~(sess = s /\ pc \in HoldingPCs \ {"build"})
    <3>1. Revoked' = Revoked
      BY <2>5 DEF WatchCancel, LoopInv, SessionPCs
    <3> QED BY <2>5, <3>1 DEF WatchCancel
  <2> QED BY <1>17, <2>1, <2>2, <2>3, <2>4, <2>5 DEF WatchStep
<1>18. CASE UNCHANGED vars BY <1>18 DEF vars
<1> QED
  BY <1>1, <1>2, <1>3, <1>4, <1>5, <1>6, <1>7, <1>8, <1>9, <1>10, <1>11, <1>12, <1>13,
     <1>14, <1>15, <1>16, <1>17, <1>18 DEF Next, LoopStep, Exited

(* The loop and the Reconciler, and the loop alone, implement the safety   *)
(* part of the gate's contract.                                            *)
THEOREM GateImplemented == Spec => GateSafe
<1> QED BY GateInit, GateStep, Invariance, PTL DEF Spec, GateSafe, Contract!Spec

===============================================================================
