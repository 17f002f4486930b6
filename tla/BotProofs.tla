------------------------------- MODULE BotProofs -------------------------------
(***************************************************************************)
(* Proofs about module Bot: put together with the session and the poller,  *)
(* the connect loop is still module ConnectLoop and the poller still       *)
(* module Relay, so that what is proved of either alone holds in the whole *)
(* program; the process ends only when asked, its connection closed; and   *)
(* no change of state reaches the loop that is not the agent's.            *)
(***************************************************************************)
EXTENDS Bot, TLAPS

(* The theorems of the connect loop, for the loop inside the program.      *)
LoopP == INSTANCE ConnectLoopProofs WITH MaxChanges <- MaxFlips + 1

(* What is known of the session by where the loop is.                      *)
ExitInv ==
  /\ pc \notin {"dial", "world"} => stage = "returned"
  /\ stage \in {"called", "returned"} => ~open
  /\ pc = "exited" => ctxDone

(* The instance of the proofs and the instance of the model are one.       *)
LEMMA SameLoop == Loop!Spec => LoopP!Spec
<1>1. Loop!Init => LoopP!Init
  BY DEF
     Loop!Init, LoopP!Init
<1>2. [Loop!Next]_Loop!vars => [LoopP!Next]_LoopP!vars
  BY DEF
     Loop!vars, LoopP!vars, Loop!gateVars, LoopP!gateVars, Loop!watchVars,
     LoopP!watchVars, Loop!loopVars, LoopP!loopVars, Loop!historyVars,
     LoopP!historyVars, Loop!Set, LoopP!Set, Loop!Shutdown, LoopP!Shutdown,
     Loop!LoopTop, LoopP!LoopTop, Loop!BackoffElapsed, LoopP!BackoffElapsed,
     Loop!BackoffInterrupted, LoopP!BackoffInterrupted, Loop!AdmitCheck,
     LoopP!AdmitCheck, Loop!AdmitRead, LoopP!AdmitRead, Loop!AdmitWake, LoopP!AdmitWake,
     Loop!AdmitAbort, LoopP!AdmitAbort, Loop!AdmitBuild, LoopP!AdmitBuild,
     Loop!LoopDisconnected, LoopP!LoopDisconnected, Loop!LoopClassify,
     LoopP!LoopClassify, Loop!LoopRelease, LoopP!LoopRelease, Loop!LoopDecide,
     LoopP!LoopDecide, Loop!Spawn, LoopP!Spawn, Loop!SessionReturns,
     LoopP!SessionReturns, Loop!WatchSessionEnd, LoopP!WatchSessionEnd, Loop!WatchWake,
     LoopP!WatchWake, Loop!WatchRead, LoopP!WatchRead, Loop!WatchCancel,
     LoopP!WatchCancel, Loop!WatchStep, LoopP!WatchStep, Loop!LoopStep, LoopP!LoopStep,
     Loop!Exited, LoopP!Exited, Loop!Next, LoopP!Next, Loop!Present, LoopP!Present,
     Loop!Parked, LoopP!Parked, Loop!States, LoopP!States, Loop!InConnect,
     LoopP!InConnect, Loop!SessDone, LoopP!SessDone, Loop!Free, LoopP!Free,
     Loop!WatchedChannel, LoopP!WatchedChannel, Loop!Connected, LoopP!Connected,
     Loop!Backoff, LoopP!Backoff
<1> QED
  BY <1>1, <1>2, PTL DEF Loop!Spec, LoopP!Spec

(* What happens around the loop leaves all of its variables alone.         *)
LEMMA BesideTheLoop ==
  StartUp \/ LinkAlone \/ Drop \/ Answer \/ Post \/ Recorded \/ GivenUp \/ Change \/ Ended
    => UNCHANGED loopVars
BY DEF StartUp, LinkAlone, Drop, Answer, Post, Recorded, GivenUp, Change, Ended, vars

(* The loop, its watchers, the poller's call to set and the signal: every  *)
(* step of the program is a step of ConnectLoop or does not concern it.    *)
THEOREM LoopImplemented == Spec => Loop!Spec
<1>1. Init => Loop!Init
  BY DEF Init
<1>2. [Next]_vars => [Loop!Next]_Loop!vars
  <2> SUFFICES ASSUME [Next]_vars PROVE Loop!Next \/ UNCHANGED Loop!vars
    OBVIOUS
  <2>1. UNCHANGED loopVars => UNCHANGED Loop!vars
    BY DEF loopVars, Loop!vars, Loop!gateVars, Loop!watchVars, Loop!loopVars,
       Loop!historyVars
  <2>2. CASE Shutdown
    BY <2>2 DEF Shutdown, Loop!Next
  <2>3. CASE Call
    BY <2>3 DEF Call, Loop!Next, Loop!LoopStep
  <2>4. CASE LoopAlone
    BY <2>4 DEF LoopAlone, Loop!Next
  <2>5. CASE Join
    BY <2>5 DEF Join, Loop!Next
  <2>6. CASE SessionReturns
    BY <2>6 DEF SessionReturns, Loop!Next
  <2>7. ASSUME NEW s \in Sessions, Watch(s) PROVE Loop!Next
    BY <2>7 DEF Watch, Loop!Next
  <2>8. CASE Act
    BY <2>1, <2>8 DEF Act, Loop!Next
  <2>9. CASE UNCHANGED vars
    BY <2>1, <2>9 DEF vars
  <2> QED
    BY <2>1, <2>2, <2>3, <2>4, <2>5, <2>6, <2>7, <2>8, <2>9, BesideTheLoop DEF Next
<1> QED
  BY <1>1, <1>2, PTL DEF Spec, Loop!Spec

(* So no part of the program sleeps through a change, comes back too soon, *)
(* calls the bot connected when it is not or keeps two sessions alive.     *)
THEOREM LoopInvariance == Spec => []LoopP!IndInv
<1>1. LoopP!Spec => []LoopP!IndInv
  BY LoopP!Invariance, BotAssumption DEF LoopP!States, LoopP!Present, LoopP!Parked,
     Present, Parked, Loop!Present, Loop!Parked
<1> QED
  BY <1>1, LoopImplemented, SameLoop, PTL

(* The gate keeps its contract inside the program.                         *)
THEOREM GateKept == Spec => LoopP!GateSafe
<1>1. LoopP!Spec => LoopP!GateSafe
  BY LoopP!GateImplemented, BotAssumption DEF LoopP!States, LoopP!Present, LoopP!Parked,
     Present, Parked, Loop!Present, Loop!Parked
<1> QED
  BY <1>1, LoopImplemented, SameLoop, PTL

-------------------------------------------------------------------------------
(* Only AdmitBuild brings the loop to where it calls connect, only the     *)
(* return of connect takes it away from there, and it exits only with the  *)
(* context ended.                                                          *)
LEMMA LoopMoves ==
  ASSUME Loop!LoopStep, pc # "build"
  PROVE  /\ pc' = "exited" => ctxDone
         /\ ctxDone' = ctxDone
         /\ pc' \notin {"dial", "world"}
<1>1. ASSUME Loop!LoopTop \/ Loop!BackoffElapsed \/ Loop!BackoffInterrupted
      PROVE  /\ pc' = "exited" => ctxDone
             /\ ctxDone' = ctxDone
             /\ pc' \notin {"dial", "world"}
  BY <1>1 DEF Loop!LoopTop, Loop!BackoffElapsed, Loop!BackoffInterrupted
<1>2. ASSUME Loop!AdmitCheck \/ Loop!AdmitRead \/ Loop!AdmitWake \/ Loop!AdmitAbort
      PROVE  /\ pc' = "exited" => ctxDone
             /\ ctxDone' = ctxDone
             /\ pc' \notin {"dial", "world"}
  BY <1>2 DEF Loop!AdmitCheck, Loop!AdmitRead, Loop!AdmitWake, Loop!AdmitAbort
<1>3. ASSUME Loop!LoopDisconnected \/ Loop!LoopClassify \/ Loop!LoopRelease \/ Loop!LoopDecide
      PROVE  /\ pc' = "exited" => ctxDone
             /\ ctxDone' = ctxDone
             /\ pc' \notin {"dial", "world"}
  BY <1>3 DEF Loop!LoopDisconnected, Loop!LoopClassify, Loop!LoopRelease, Loop!LoopDecide
<1>4. ~Loop!AdmitBuild
  BY DEF Loop!AdmitBuild
<1> QED
  BY <1>1, <1>2, <1>3, <1>4 DEF Loop!LoopStep

(* The watchers, the poller and the signal leave the loop where it is.     *)
LEMMA LoopStays ==
  ASSUME (\E s \in Sessions : Watch(s)) \/ Act \/ Shutdown
  PROVE  UNCHANGED <<pc, stage, open>> /\ (ctxDone => ctxDone')
<1>1. ASSUME NEW s \in Sessions, Watch(s)
      PROVE  UNCHANGED <<pc, stage, open>> /\ (ctxDone => ctxDone')
  BY <1>1 DEF Watch, linkVars, Loop!WatchStep, Loop!WatchSessionEnd, Loop!WatchWake,
     Loop!WatchRead, Loop!WatchCancel, Loop!loopVars
<1>2. CASE Act
  BY <1>2 DEF Act, linkVars, loopVars, Loop!Set, Loop!loopVars
<1>3. CASE Shutdown
  BY <1>3 DEF Shutdown, linkVars, Loop!Shutdown, Loop!loopVars
<1> QED
  BY <1>1, <1>2, <1>3

(* A step of the session, and what it does to the connection.              *)
LEMMA NextExit == ExitInv /\ [Next]_vars => ExitInv'
<1> SUFFICES ASSUME ExitInv, [Next]_vars PROVE ExitInv'
  OBVIOUS
<1>1. CASE Call
  BY <1>1 DEF Call, ExitInv, Loop!AdmitBuild
<1>2. CASE LoopAlone
  <2>1. UNCHANGED <<stage, open>> /\ pc # "build" /\ Loop!LoopStep
    BY <1>2 DEF LoopAlone, linkVars
  <2>2. pc \notin {"dial", "world"}
    BY <2>1 DEF Loop!LoopStep, Loop!LoopTop, Loop!BackoffElapsed, Loop!BackoffInterrupted,
       Loop!AdmitCheck, Loop!AdmitRead, Loop!AdmitWake, Loop!AdmitAbort, Loop!AdmitBuild,
       Loop!LoopDisconnected, Loop!LoopClassify, Loop!LoopRelease, Loop!LoopDecide
  <2> QED
    BY <2>1, <2>2, LoopMoves DEF ExitInv
<1>3. CASE Join
  BY <1>3 DEF Join, ExitInv, Loop!Spawn, Link!Join
<1>4. CASE LinkAlone
  <2>1. UNCHANGED <<pc, ctxDone>>
    BY <1>4 DEF LinkAlone, loopVars
  <2>2. /\ stage # "returned" /\ stage' # "called"
        /\ stage' = "returned" => open' = FALSE \/ (stage = "called" /\ UNCHANGED open)
    BY <1>4 DEF LinkAlone, Link!Dial, Link!Leave, Link!Return
  <2> QED
    BY <2>1, <2>2 DEF ExitInv
<1>5. CASE Drop
  BY <1>5 DEF Drop, ExitInv, loopVars, Link!Drop
<1>6. CASE SessionReturns
  BY <1>6 DEF SessionReturns, ExitInv, Loop!SessionReturns
<1>7. CASE (\E s \in Sessions : Watch(s)) \/ Act \/ Shutdown
  BY <1>7, LoopStays DEF ExitInv
<1>8. CASE StartUp \/ Answer \/ Post \/ Recorded \/ GivenUp \/ Change \/ Ended
  <2>1. UNCHANGED loopVars
    BY <1>8, BesideTheLoop
  <2>2. UNCHANGED <<stage, open>>
    BY <1>8 DEF StartUp, Answer, Post, Recorded, GivenUp, Change, Ended, vars, linkVars
  <2> QED
    BY <2>1, <2>2 DEF ExitInv, loopVars
<1>9. CASE UNCHANGED vars
  BY <1>9 DEF vars, loopVars, linkVars, ExitInv
<1> QED
  BY <1>1, <1>2, <1>3, <1>4, <1>5, <1>6, <1>7, <1>8, <1>9 DEF Next

(* The process ends only when it was asked to, its connection closed.      *)
THEOREM ExitIsClean == Spec => []CleanExit
<1>1. Init => ExitInv
  BY DEF Init, ExitInv, Loop!Init
<1>2. ExitInv => CleanExit
  BY DEF ExitInv, CleanExit
<1> QED
  BY <1>1, <1>2, NextExit, PTL DEF Spec

-------------------------------------------------------------------------------
(* The poller's side: what the loop and its watchers do is, to the poller, *)
(* a call of Connected or nothing.                                         *)
LEMMA LoopForRelay ==
  ASSUME connected \in BOOLEAN,
         \/ Loop!LoopStep \/ Loop!Spawn \/ Loop!SessionReturns
         \/ \E s \in Sessions : Loop!WatchStep(s)
  PROVE  UNCHANGED <<desired, ctxDone>> /\ (connected' = connected \/ connected' = ~connected)
<1>1. CASE Loop!Spawn \/ Loop!LoopDisconnected
  <2>1. UNCHANGED <<desired, ctxDone>> /\ (Loop!Connected(TRUE) \/ Loop!Connected(FALSE))
    BY <1>1 DEF Loop!Spawn, Loop!LoopDisconnected
  <2>2. connected' \in BOOLEAN
    BY <2>1 DEF Loop!Connected
  <2> QED
    BY <2>1, <2>2
<1>2. CASE Loop!LoopTop \/ Loop!BackoffElapsed \/ Loop!BackoffInterrupted \/ Loop!AdmitCheck
  BY <1>2 DEF Loop!LoopTop, Loop!BackoffElapsed, Loop!BackoffInterrupted, Loop!AdmitCheck,
     Loop!gateVars
<1>3. CASE Loop!AdmitRead \/ Loop!AdmitWake \/ Loop!AdmitAbort \/ Loop!AdmitBuild
  BY <1>3 DEF Loop!AdmitRead, Loop!AdmitWake, Loop!AdmitAbort, Loop!AdmitBuild, Loop!gateVars
<1>4. CASE Loop!SessionReturns \/ Loop!LoopClassify \/ Loop!LoopRelease \/ Loop!LoopDecide
  BY <1>4 DEF Loop!SessionReturns, Loop!LoopClassify, Loop!LoopRelease, Loop!LoopDecide,
     Loop!gateVars
<1>5. ASSUME NEW s \in Sessions, Loop!WatchStep(s)
      PROVE  UNCHANGED <<desired, ctxDone, connected>>
  BY <1>5 DEF Loop!WatchStep, Loop!WatchSessionEnd, Loop!WatchWake, Loop!WatchRead,
     Loop!WatchCancel, Loop!gateVars
<1> QED
  BY <1>1, <1>2, <1>3, <1>4, <1>5 DEF Loop!LoopStep

(* Put together with the loop that acts on it, the poller is still Relay:  *)
(* what module Poller implements is what the program builds on.            *)
THEOREM RelayImplemented == Spec => Relay!Spec
<1>1. Init => Relay!Init
  BY DEF Init
<1>2. connected \in BOOLEAN /\ [Next]_vars => [Relay!Next]_Relay!vars
  <2> SUFFICES ASSUME connected \in BOOLEAN, [Next]_vars
               PROVE  Relay!Next \/ UNCHANGED Relay!vars
    OBVIOUS
  <2>1. ASSUME UNCHANGED <<relayVars, desired, ctxDone>>,
               connected' = connected \/ connected' = ~connected
        PROVE  Relay!Next \/ UNCHANGED Relay!vars
    BY <2>1 DEF relayVars, Relay!Next, Relay!Connection, Relay!vars
  <2>2. CASE Call \/ LoopAlone \/ Join \/ SessionReturns
    <3>1. UNCHANGED relayVars
      BY <2>2 DEF Call, LoopAlone, Join, SessionReturns
    <3>2. Loop!LoopStep \/ Loop!Spawn \/ Loop!SessionReturns
      BY <2>2 DEF Call, LoopAlone, Join, SessionReturns, Loop!LoopStep
    <3> QED
      BY <2>1, <3>1, <3>2, LoopForRelay
  <2>3. ASSUME NEW s \in Sessions, Watch(s) PROVE Relay!Next \/ UNCHANGED Relay!vars
    <3>1. UNCHANGED relayVars /\ Loop!WatchStep(s)
      BY <2>3 DEF Watch
    <3> QED
      BY <2>1, <3>1, LoopForRelay
  <2>4. CASE Shutdown
    BY <2>4 DEF Shutdown, Loop!Shutdown, Loop!gateVars, relayVars, Relay!Next, Relay!End
  <2>5. CASE Answer \/ Act \/ Post \/ Recorded \/ GivenUp \/ Change
    BY <2>5 DEF Answer, Act, Post, Recorded, GivenUp, Change, Relay!Next
  <2>6. CASE StartUp \/ LinkAlone \/ Drop \/ Ended \/ UNCHANGED vars
    <3>1. UNCHANGED <<loopVars, relayVars>>
      BY <2>6 DEF StartUp, LinkAlone, Drop, Ended, vars
    <3> QED
      BY <2>1, <3>1 DEF loopVars
  <2> QED
    BY <2>2, <2>3, <2>4, <2>5, <2>6 DEF Next
<1>3. LoopP!IndInv => connected \in BOOLEAN
  BY DEF LoopP!IndInv, LoopP!TypeOK
<1> QED
  BY <1>1, <1>2, <1>3, LoopInvariance, PTL DEF Spec, Relay!Spec

-------------------------------------------------------------------------------
(* Whether two states differ, as a number.                                 *)
Apart(a, b) == IF a = b THEN 0 ELSE 1

(* The changes of the agent's mind that the loop has yet to see: between   *)
(* the agent and the answer under way, and between that and the bot.       *)
Pending ==
  IF answered = "none" THEN Apart(desired, want)
  ELSE Apart(desired, answered) + Apart(answered, want)

(* Whether the agent wanted, at the start, something else than the bot.    *)
Ahead == IF want = InitialState <=> flips % 2 = 0 THEN 0 ELSE 1

(* The loop has seen no more changes than the agent has made.              *)
AgentInv ==
  /\ flips \in 0..MaxFlips
  /\ want \in Relay!States
  /\ answered \in Relay!States \cup {"none"}
  /\ gen + Pending <= flips + Ahead

(* An agent that agrees with PRESENCE_DEFAULT and never changes its mind   *)
(* leaves the bot alone: the gate cancels no session of it, the end of     *)
(* none is taken for a park, and the loop rests before each reconnect.     *)
LeftAlone ==
  flips = 0 /\ want = InitialState =>
    /\ desired = InitialState
    /\ pc \in Loop!SessionPCs \ {"decide"} => ~cancelled[sess]
    /\ pc \in {"release", "decide"} /\ parked => ctxDone
    /\ pc \in Loop!AskingPCs => rested

(* The bound that Bot gives the instance of ConnectLoop never holds up an  *)
(* answer that the poller has to act on.                                   *)
NoAnswerHeldUp == answered \notin {"none", desired} => gen < MaxFlips + 1

(* What the loop, its watchers and the session do changes no state and no  *)
(* mind.                                                                   *)
LEMMA AgentUntouched ==
  ASSUME connected \in BOOLEAN, [Next]_vars
  PROVE  \/ Act \/ Answer \/ Change
         \/ UNCHANGED <<desired, gen, want, answered, flips>>
<1>1. CASE Call \/ LoopAlone \/ Join \/ SessionReturns
  <2>1. /\ UNCHANGED <<want, answered, flips>>
        /\ Loop!LoopStep \/ Loop!Spawn \/ Loop!SessionReturns
    BY <1>1 DEF Call, LoopAlone, Join, SessionReturns, Loop!LoopStep, relayVars, mainVars
  <2>2. UNCHANGED <<desired, gen>>
    BY <2>1 DEF Loop!LoopStep, Loop!Spawn, Loop!SessionReturns, Loop!LoopTop,
       Loop!BackoffElapsed, Loop!BackoffInterrupted, Loop!AdmitCheck, Loop!AdmitRead,
       Loop!AdmitWake, Loop!AdmitAbort, Loop!AdmitBuild, Loop!LoopDisconnected,
       Loop!LoopClassify, Loop!LoopRelease, Loop!LoopDecide, Loop!Connected, Loop!gateVars
  <2> QED
    BY <2>1, <2>2
<1>2. ASSUME NEW s \in Sessions, Watch(s)
      PROVE  UNCHANGED <<desired, gen, want, answered, flips>>
  BY <1>2 DEF Watch, relayVars, mainVars, Loop!WatchStep, Loop!WatchSessionEnd,
     Loop!WatchWake, Loop!WatchRead, Loop!WatchCancel, Loop!gateVars
<1>3. CASE Shutdown
  BY <1>3 DEF Shutdown, Loop!Shutdown, Loop!gateVars, relayVars, mainVars
<1>4. CASE StartUp \/ LinkAlone \/ Drop \/ Ended
  BY <1>4 DEF StartUp, LinkAlone, Drop, Ended, vars, loopVars, relayVars, mainVars
<1>5. CASE Post \/ Recorded \/ GivenUp
  BY <1>5 DEF Post, Recorded, GivenUp, Relay!Post, Relay!Recorded, Relay!GivenUp,
     loopVars, mainVars
<1>6. CASE UNCHANGED vars
  BY <1>6 DEF vars, loopVars, relayVars, mainVars
<1> QED
  BY <1>1, <1>2, <1>3, <1>4, <1>5, <1>6 DEF Next

(* An answer carries a change on, acting on it takes the change off the    *)
(* account, and only the agent makes a new one.                            *)
LEMMA NextAgent ==
  ASSUME AgentInv, gen \in Nat, desired \in Loop!States, connected \in BOOLEAN, [Next]_vars
  PROVE  AgentInv'
<1> USE DEF Loop!States, Loop!Present, Loop!Parked, Relay!States, Relay!Present, Relay!Parked,
        Present, Parked
<1>1. CASE UNCHANGED <<desired, gen, want, answered, flips>>
  BY <1>1 DEF AgentInv, Pending, Apart, Ahead
<1>2. CASE Act
  <2>1. /\ answered # "none" /\ answered' = "none" /\ desired' = answered
        /\ UNCHANGED <<want, flips>>
        /\ gen' = gen + Apart(desired, answered)
    BY <1>2 DEF Act, Relay!Act, loopVars, mainVars, Loop!Set, Apart
  <2>2. Ahead' = Ahead
    BY <2>1 DEF Ahead
  <2>3. gen' + Pending' = gen + Pending
    <3>1. Pending = Apart(desired, answered) + Apart(answered, want)
      BY <2>1 DEF Pending
    <3>2. Pending' = Apart(answered, want)
      BY <2>1 DEF Pending, Apart
    <3>3. Apart(desired, answered) \in Nat /\ Apart(answered, want) \in Nat
      BY DEF Apart
    <3> QED
      BY <2>1, <3>1, <3>2, <3>3
  <2> QED
    BY <2>1, <2>2, <2>3 DEF AgentInv
<1>3. CASE Answer
  <2>1. /\ answered = "none" /\ answered' = want
        /\ UNCHANGED <<want, desired, gen, flips>>
    BY <1>3 DEF Answer, Relay!Answer, Relay!Idle, loopVars, mainVars
  <2>2. Pending' = Pending /\ Ahead' = Ahead
    BY <2>1 DEF Pending, Ahead, Apart, AgentInv
  <2> QED
    BY <2>1, <2>2 DEF AgentInv
<1>4. CASE Change
  <2>1. /\ flips < MaxFlips /\ flips' = flips + 1 /\ want' \in Relay!States \ {want}
        /\ UNCHANGED <<desired, gen, answered>>
    BY <1>4 DEF Change, Relay!Change, loopVars
  <2>2. flips' \in 0..MaxFlips
    BY <2>1, BotAssumption DEF AgentInv
  <2>3. (flips' % 2 = 0) <=> (flips % 2 # 0)
    BY <2>1, BotAssumption DEF AgentInv
  <2>4. (want' = InitialState) <=> (want # InitialState)
    BY <2>1, BotAssumption DEF AgentInv
  <2>5. Ahead' = Ahead
    BY <2>3, <2>4 DEF Ahead
  <2>6. /\ Pending \in Nat /\ Pending' \in Nat /\ Pending' <= Pending + 1
        /\ Ahead \in Nat
    BY <2>1 DEF Pending, Apart, Ahead
  <2>7. gen' + Pending' <= flips' + Ahead'
    <3>1. gen + Pending <= flips + Ahead /\ flips \in Nat
      BY BotAssumption DEF AgentInv
    <3>2. gen' = gen /\ flips' = flips + 1
      BY <2>1
    <3>3. gen + Pending' <= flips + 1 + Ahead
      <4>1. \A p, q, a, g, f \in Nat : q <= p + 1 /\ g + p <= f + a => g + q <= f + 1 + a
        OBVIOUS
      <4> QED
        BY Zenon, <2>6, <3>1, <4>1
    <3> QED
      BY <2>5, <3>2, <3>3
  <2>8. want' \in Relay!States /\ answered' \in Relay!States \cup {"none"}
    BY <2>1 DEF AgentInv
  <2> QED
    BY <2>2, <2>7, <2>8 DEF AgentInv
<1> QED
  BY <1>1, <1>2, <1>3, <1>4, AgentUntouched

(* Every change the loop sees is one the agent has made.                   *)
THEOREM AgentLeads == Spec => []AgentInv
<1>1. Init => AgentInv
  BY BotAssumption DEF Init, AgentInv, Loop!Init, Relay!Init, Relay!States, Relay!Present,
     Relay!Parked, Present, Parked, Loop!Present, Loop!Parked, Pending, Apart, Ahead
<1>2. LoopP!IndInv => gen \in Nat /\ desired \in Loop!States /\ connected \in BOOLEAN
  BY DEF LoopP!IndInv, LoopP!TypeOK, LoopP!States, LoopP!Present, LoopP!Parked, Loop!States,
     Loop!Present, Loop!Parked
<1>3. AgentInv /\ LoopP!IndInv /\ [Next]_vars => AgentInv'
  BY <1>2, NextAgent
<1> QED
  BY <1>1, <1>3, LoopInvariance, PTL DEF Spec

(* What bounds the model of the loop bounds nothing of the program.        *)
THEOREM BoundIsNoBound == Spec => []NoAnswerHeldUp
<1>1. AgentInv /\ LoopP!IndInv => NoAnswerHeldUp
  <2> SUFFICES ASSUME AgentInv, LoopP!IndInv, answered \notin {"none", desired}
               PROVE  gen < MaxFlips + 1
    BY DEF NoAnswerHeldUp
  <2>1. gen \in Nat
    BY DEF LoopP!IndInv, LoopP!TypeOK
  <2>2. Pending \in Nat /\ Pending >= 1 /\ Ahead \in {0, 1}
    BY DEF Pending, Apart, Ahead
  <2> QED
    BY <2>1, <2>2, BotAssumption DEF AgentInv
<1> QED
  BY <1>1, AgentLeads, LoopInvariance, PTL

(* A bot whose agent always wanted the same is never parked by itself.     *)
THEOREM UnparkedLeftAlone == Spec => []LeftAlone
<1>1. AgentInv /\ LoopP!IndInv => LeftAlone
  <2> SUFFICES ASSUME AgentInv, LoopP!IndInv, flips = 0, want = InitialState
               PROVE  /\ desired = InitialState
                      /\ pc \in Loop!SessionPCs \ {"decide"} => ~cancelled[sess]
                      /\ pc \in {"release", "decide"} /\ parked => ctxDone
                      /\ pc \in Loop!AskingPCs => rested
    BY DEF LeftAlone
  <2>1. gen \in Nat /\ lastGen \in Nat
    BY DEF LoopP!IndInv, LoopP!TypeOK
  <2>2. Pending \in Nat /\ Ahead = 0
    BY DEF Pending, Apart, Ahead
  <2>3. gen = 0 /\ Pending = 0
    BY <2>1, <2>2 DEF AgentInv
  <2>4. desired = InitialState
    BY <2>3 DEF Pending, Apart
  <2>5. ~(lastGen < gen)
    BY <2>1, <2>3
  <2>6. LoopP!ParkInv
    BY DEF LoopP!IndInv
  <2> QED
    BY <2>4, <2>5, <2>6 DEF LoopP!ParkInv, LoopP!SessionPCs, Loop!SessionPCs,
       LoopP!AskingPCs, Loop!AskingPCs
<1> QED
  BY <1>1, AgentLeads, LoopInvariance, PTL

===============================================================================
