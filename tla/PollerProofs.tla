----------------------------- MODULE PollerProofs ------------------------------
(***************************************************************************)
(* Proofs about module Poller, for every set of versions and of statuses   *)
(* and every number of changes and failures: that the poller keeps the     *)
(* safety part of the promise of module Relay, and that its log is true.   *)
(* Liveness is TLC's.                                                      *)
(***************************************************************************)
EXTENDS Poller, TLAPS

(* The ETags the bot may remember.                                         *)
Tags == Settings \cup {NoTag}

(* What an answer of use says of the agent at the time it was given: the   *)
(* state in it, or by a 304 the state the bot holds, is the agent's, and   *)
(* so is the state the ETag that came with it stands for.                  *)
AnswerTrue ==
  pc = "fetched" /\ FetchOK(answer) =>
    /\ asOf \in States
    /\ answer.status = 304 => desired = asOf
    /\ answer.status # 304 =>
         /\ answer.state = asOf
         /\ answer.etag \in Tags
         /\ answer.etag # NoTag => answer.etag.state = asOf

(* The ETag the bot remembers stands for the state it acts on, and is the  *)
(* one a request in flight carries.  That is why a 304 needs no body.      *)
TagTrue ==
  /\ etag # NoTag => etag.state = desired
  /\ pc = "fetching" => condition = etag

(* The invariant that the proof shows to be inductive.                     *)
RelayInv ==
  /\ desired \in States
  /\ agent \in Settings
  /\ etag \in Tags
  /\ connected \in BOOLEAN
  /\ posted \in Reports
  /\ TagTrue
  /\ AnswerTrue

(* The poller starts without an ETag and without an answer.                *)
LEMMA InitInv == Init => RelayInv
<1> SUFFICES ASSUME Init PROVE RelayInv
  OBVIOUS
<1>1. agent \in Settings
  BY PollerAssumption DEF Init, Settings
<1>2. TagTrue /\ AnswerTrue
  BY DEF Init, TagTrue, AnswerTrue
<1> QED
  BY <1>1, <1>2, PollerAssumption DEF Init, RelayInv, Tags, Reports

(* What the agent and the network may answer to a request that carries the *)
(* ETag the bot remembers.                                                 *)
LEMMA FetchInv == RelayInv /\ FetchAnswered => RelayInv'
<1> SUFFICES ASSUME RelayInv, FetchAnswered PROVE RelayInv'
  OBVIOUS
<1>1. /\ pc = "fetching" /\ pc' = "fetched" /\ asOf' = agent.state
      /\ agent.state \in States
      /\ UNCHANGED <<desired, agent, etag, connected, posted>>
  BY DEF FetchAnswered, RelayInv, botVars, agentVars, Settings
<1>2. AnswerTrue'
  <2>1. CASE answer' \in GoodAnswers
    <3>1. CASE condition = agent
      <4>1. answer'.status = 304
        BY <2>1, <3>1 DEF GoodAnswers
      <4>2. desired = agent.state
        <5>1. etag = agent
          BY <1>1, <3>1 DEF RelayInv, TagTrue
        <5>2. agent # NoTag
          BY PollerAssumption DEF RelayInv
        <5> QED
          BY <5>1, <5>2 DEF RelayInv, TagTrue
      <4> QED
        BY <1>1, <4>1, <4>2 DEF AnswerTrue
    <3>2. CASE condition # agent
      <4>1. /\ answer'.status = 200
            /\ answer'.state = agent.state
            /\ answer'.etag \in {agent, NoTag}
        BY <2>1, <3>2 DEF GoodAnswers
      <4> QED
        BY <1>1, <4>1 DEF AnswerTrue, RelayInv, Tags
    <3> QED
      BY <3>1, <3>2
  <2>2. CASE answer' \in BadAnswers \cup {Lost}
    <3>1. answer'.status # 304 /\ answer'.state \notin States
      BY <2>2, PollerAssumption
      DEF BadAnswers, Lost, NoAnswer, States, Present, Parked, Bogus, Cut
    <3> QED
      BY <3>1 DEF AnswerTrue, FetchOK
  <2> QED
    BY <2>1, <2>2 DEF FetchAnswered
<1> QED
  BY <1>1, <1>2 DEF RelayInv, TagTrue

(* Each step of the poller, the agent and the loop keeps the invariant.    *)
LEMMA NextInv == RelayInv /\ [Next]_vars => RelayInv'
<1> SUFFICES ASSUME RelayInv, [Next]_vars PROVE RelayInv'
  OBVIOUS
<1> USE DEF RelayInv, TagTrue, AnswerTrue, botVars, callVars, agentVars, historyVars
<1>1. CASE PollStart
  BY <1>1 DEF PollStart
<1>2. CASE PollEnds
  <2>1. CASE ~FetchOK(answer) /\ Keep
    BY <1>2, <2>1 DEF PollEnds, Keep
  <2>2. CASE FetchOK(answer) /\ answer.status = 304 /\ UNCHANGED <<desired, etag>>
    BY <1>2, <2>2 DEF PollEnds
  <2>3. CASE FetchOK(answer) /\ answer.status # 304 /\ Store(answer.state, answer.etag)
    BY <1>2, <2>3 DEF PollEnds, Store
  <2> QED
    BY <1>2, <2>1, <2>2, <2>3 DEF PollEnds
<1>3. CASE ReportStart
  BY <1>3 DEF ReportStart, Reports
<1>4. CASE ReportEnds \/ Tick \/ Stop \/ Stopped \/ UNCHANGED vars
  BY <1>4 DEF ReportEnds, Tick, Stop, Stopped, vars
<1>5. CASE FetchAnswered
  BY <1>5, FetchInv
<1>6. CASE ReportDelivered \/ ReportUnanswered
  BY <1>6 DEF ReportDelivered, ReportUnanswered
<1>7. CASE CallCancelled
  BY <1>7 DEF CallCancelled, FetchOK, Lost, NoAnswer
<1>8. CASE ReportArrivesLate \/ Shutdown
  BY <1>8 DEF ReportArrivesLate, Shutdown
<1>9. CASE AgentChange
  <2>1. agent' \in Settings
    BY <1>9 DEF AgentChange, Settings
  <2> QED
    BY <1>9, <2>1 DEF AgentChange
<1>10. CASE AgentRestart
  <2>1. agent' \in Settings
    BY <1>10, PollerAssumption DEF AgentRestart, Settings
  <2> QED
    BY <1>10, <2>1 DEF AgentRestart
<1>11. CASE Connection
  BY <1>11 DEF Connection
<1> QED
  BY <1>1, <1>2, <1>3, <1>4, <1>5, <1>6, <1>7, <1>8, <1>9, <1>10, <1>11
     DEF Next, RunStep, AnswerStep

(* In every reachable state the remembered ETag stands for the state the   *)
(* bot acts on, across failures, changes and restarts of the agent.        *)
THEOREM RelayInvariance == Spec => []RelayInv
BY InitInv, NextInv, PTL DEF Spec

-------------------------------------------------------------------------------
(* A poller at its start is Relay at its start.                            *)
LEMMA InitRelay == RelayInv /\ Init => Promise!Init
BY DEF RelayInv, Settings, Init, Promise!Init, Answered, Promise!States, Promise!Present, Promise!Parked,
       States, Present, Parked

(* Every step of the poller, the agent or the network is a step of Relay   *)
(* or one it does not see.                                                 *)
LEMMA NextRelay == RelayInv /\ RelayInv' /\ [Next]_vars => [Promise!Next]_Promise!vars
<1> SUFFICES ASSUME RelayInv, RelayInv', [Next]_vars
             PROVE  [Promise!Next]_Promise!vars
  OBVIOUS
<1>n. Nothing \notin Reports
  BY PollerAssumption
<1> USE <1>n DEF RelayInv, AnswerTrue, botVars, callVars, agentVars, historyVars, Answered, Promise!Next,
          Promise!vars
<1>1. CASE PollStart \/ ReportEnds \/ Tick \/ Stop \/ Stopped \/ UNCHANGED vars
  BY <1>1 DEF PollStart, ReportEnds, Tick, Stop, Stopped, vars
<1>2. CASE PollEnds
  <2>1. CASE FetchOK(answer)
    <3>1. desired' = asOf /\ asOf \in States
      BY <1>2, <2>1 DEF PollEnds, Store
    <3>2. Promise!Act
      BY <1>2, <2>1, <3>1 DEF PollEnds, Promise!Act, States, Present, Parked
    <3> QED
      BY <3>2
  <2>2. CASE ~FetchOK(answer)
    BY <1>2, <2>2 DEF PollEnds, Keep
  <2> QED
    BY <2>1, <2>2
<1>3. CASE ReportStart
  BY <1>3 DEF ReportStart, Promise!Post, Promise!Idle
<1>4. CASE FetchAnswered
  <2>1. CASE FetchOK(answer')
    BY <1>4, <2>1 DEF FetchAnswered, Promise!Answer, Promise!Idle, FetchOK
  <2>2. CASE ~FetchOK(answer')
    BY <1>4, <2>2 DEF FetchAnswered, FetchOK
  <2> QED
    BY <2>1, <2>2
<1>5. CASE ReportDelivered
  BY <1>5 DEF ReportDelivered, Promise!Recorded
<1>6. CASE ReportUnanswered
  BY <1>6 DEF ReportUnanswered, GivenUp, Promise!Recorded, Promise!GivenUp
<1>7. CASE CallCancelled
  <2>1. CASE pc = "fetching"
    BY <1>7, <2>1 DEF CallCancelled, FetchOK, Lost, NoAnswer
  <2>2. CASE pc = "posting"
    BY <1>7, <2>2 DEF CallCancelled, GivenUp, Promise!Recorded, Promise!GivenUp
  <2> QED
    BY <1>7, <2>1, <2>2 DEF CallCancelled
<1>8. CASE ReportArrivesLate
  BY <1>8 DEF ReportArrivesLate, Promise!Arrives
<1>9. CASE AgentChange \/ AgentRestart
  <2>1. agent'.state \in States
    BY DEF Settings
  <2> QED
    BY <1>9, <2>1 DEF AgentChange, AgentRestart, Promise!Change, Promise!States, Promise!Present,
       Promise!Parked, States, Present, Parked
<1>10. CASE Connection
  BY <1>10 DEF Connection, Promise!Connection
<1>11. CASE Shutdown
  BY <1>11 DEF Shutdown, Promise!End
<1> QED
  BY <1>1, <1>2, <1>3, <1>4, <1>5, <1>6, <1>7, <1>8, <1>9, <1>10, <1>11
     DEF Next, RunStep, AnswerStep

(* The poller implements the safety part of Relay: the bot moves only to a *)
(* state the agent held when it gave an answer of use, and only a snapshot *)
(* of what the bot was doing is recorded.                                  *)
THEOREM RelayImplemented == Spec => RelayKept
<1>1. RelayInv /\ Init => Promise!Init
  BY InitRelay
<1>2. RelayInv /\ RelayInv' /\ [Next]_vars => [Promise!Next]_Promise!vars
  BY NextRelay
<1> QED
  BY InitInv, RelayInvariance, <1>1, <1>2, PTL DEF Spec, RelayKept, Promise!Spec

-------------------------------------------------------------------------------
(* The client makes of the answer a a success of stream f.                 *)
OK(f, a) == IF f = "fetch" THEN FetchOK(a) ELSE ReportOK(a)

(* A streak is the kind of the last line of its stream, and no streak is   *)
(* what a log that is silent or says recovered leaves.                     *)
StreakShown ==
  \A f \in Streams :
    /\ streak[f] \in Kinds \cup {""}
    /\ streak[f] = "" => shown[f] \in {"silent", "recovered"}
    /\ streak[f] # "" => shown[f] = streak[f]

(* Between calls the streak is how the last one went, until the process is *)
(* told to stop; then a streak may outlive its recovery only by an answer  *)
(* that is still to be digested.                                           *)
StreakTrue ==
  \A f \in Streams :
    IF Digesting(f)
    THEN IF OK(f, answer) THEN health[f] = "ok"
         ELSE IF ctxDone THEN streak[f] # "" => health[f] # "ok"
         ELSE health[f] = Classify(answer)
    ELSE IF ctxDone THEN streak[f] # "" => health[f] # "ok"
    ELSE streak[f] = IF health[f] = "ok" THEN "" ELSE health[f]

(* What streak keeps of the log, and the log itself.                       *)
LogKept ==
  /\ streak \in [Streams -> Kinds \cup {""}]
  /\ shown \in [Streams -> Kinds \cup {"silent", "recovered"}]
  /\ ~repeated
  /\ StreakShown

(* The invariant behind what is said of the log.                           *)
LogInv ==
  /\ LogKept
  /\ health \in [Streams -> Kinds \cup {"ok"}]
  /\ ctxDone \in BOOLEAN
  /\ StreakTrue

(* Every error has a kind.                                                 *)
LEMMA ClassifyKind == \A a : Classify(a) \in Kinds
BY DEF Classify, Kinds

(* Whatever a call came to, streak keeps the log.                          *)
LEMMA LogsKeep ==
  ASSUME LogKept, NEW f \in Streams,
         Succeeded(f) \/ CallFailed(f)
  PROVE  LogKept'
<1> USE DEF LogKept, StreakShown
<1>1. CASE Succeeded(f)
  BY <1>1 DEF Succeeded, Log, Kinds
<1>2. CASE CallFailed(f) /\ ctxDone
  BY <1>2 DEF CallFailed
<1>3. CASE CallFailed(f) /\ ~ctxDone
  <2>1. Failed(f, Classify(answer)) /\ Classify(answer) \in Kinds
    BY <1>3, ClassifyKind DEF CallFailed
  <2> QED
    BY <2>1 DEF Failed, Log, Kinds
<1> QED
  BY <1>1, <1>2, <1>3

(* Nothing has been logged at the start.                                   *)
LEMMA InitLog == Init => LogInv
BY DEF Init, LogInv, LogKept, StreakShown, StreakTrue, Kinds, Streams, Digesting

(* Steps that touch neither the log nor the health of a stream.            *)
LEMMA QuietKeeps ==
  ASSUME LogInv, UNCHANGED <<streak, shown, repeated>>
  PROVE  LogKept'
BY DEF LogInv, LogKept, StreakShown

(* Each step keeps the log true.                                           *)
LEMMA NextLog == LogInv /\ [Next]_vars => LogInv'
<1> SUFFICES ASSUME LogInv, [Next]_vars PROVE LogInv'
  OBVIOUS
<1> USE DEF LogInv, botVars, callVars, agentVars, historyVars
<1>1. CASE PollEnds
  <2>1. Succeeded("fetch") \/ CallFailed("fetch")
    BY <1>1 DEF PollEnds
  <2>2. LogKept'
    BY <2>1, LogsKeep DEF Streams
  <2>3. /\ pc = "fetched" /\ pc' = "report"
        /\ UNCHANGED <<ctxDone, answer, health>>
        /\ IF FetchOK(answer) THEN Succeeded("fetch") ELSE CallFailed("fetch")
    BY <1>1 DEF PollEnds
  <2>4. StreakTrue'
    BY <2>3, ClassifyKind
    DEF StreakTrue, Digesting, OK, Succeeded, CallFailed, Failed, Streams, LogKept, Kinds
  <2> QED
    BY <2>2, <2>3, <2>4
<1>2. CASE ReportEnds
  <2>1. /\ pc = "replied" /\ pc' = "idle"
        /\ UNCHANGED <<ctxDone, answer, health>>
        /\ IF ReportOK(answer) THEN Succeeded("report") ELSE CallFailed("report")
    BY <1>2 DEF ReportEnds
  <2>2. LogKept'
    BY <2>1, LogsKeep DEF Streams
  <2>3. StreakTrue'
    BY <2>1, ClassifyKind
    DEF StreakTrue, Digesting, OK, Succeeded, CallFailed, Failed, Streams, LogKept, Kinds
  <2> QED
    BY <2>1, <2>2, <2>3
<1>3. CASE PollStart \/ Tick \/ Stop
  <2>1. /\ pc \in {"poll", "idle"} /\ pc' \in {"fetching", "poll", "stopped"}
        /\ UNCHANGED <<ctxDone, streak, shown, repeated, health>>
    BY <1>3 DEF PollStart, Tick, Stop
  <2>2. StreakTrue'
    BY <2>1 DEF StreakTrue, Digesting
  <2> QED
    BY <2>1, <2>2, QuietKeeps
<1>4. CASE ReportStart
  <2>1. LogKept'
    BY <1>4, QuietKeeps DEF ReportStart
  <2>2. ~ReportOK(Lost)
    BY DEF ReportOK, Lost, NoAnswer
  <2>3. StreakTrue'
    BY <1>4, <2>2 DEF ReportStart, StreakTrue, Digesting, OK, Streams, ReportOK
  <2> QED
    BY <1>4, <2>1, <2>3 DEF ReportStart
<1>5. CASE FetchAnswered
  <2>1. /\ pc = "fetching" /\ pc' = "fetched" /\ ~ctxDone
        /\ UNCHANGED <<ctxDone, streak, shown, repeated>>
        /\ health' = [health EXCEPT !["fetch"] =
                         IF FetchOK(answer') THEN "ok" ELSE Classify(answer')]
    BY <1>5 DEF FetchAnswered
  <2>2. LogKept'
    BY <2>1 DEF LogKept, StreakShown
  <2>3. health' \in [Streams -> Kinds \cup {"ok"}]
    BY <2>1, ClassifyKind
  <2>4. StreakTrue'
    BY <2>1 DEF StreakTrue, Digesting, OK, Streams, FetchOK, Classify
  <2> QED
    BY <2>1, <2>2, <2>3, <2>4
<1>6. CASE ReportDelivered \/ ReportUnanswered
  <2>1. /\ pc = "posting" /\ pc' = "replied" /\ ~ctxDone
        /\ UNCHANGED <<ctxDone, streak, shown, repeated>>
        /\ health' = [health EXCEPT !["report"] =
                         IF ReportOK(answer') THEN "ok" ELSE Classify(answer')]
    <3>1. CASE ReportDelivered
      <4>1. ReportOK(answer')
        BY <3>1 DEF ReportDelivered, ReportOK
      <4> QED
        BY <3>1, <4>1 DEF ReportDelivered
    <3>2. CASE ReportUnanswered
      <4>1. ~ReportOK(answer')
        BY <3>2 DEF ReportUnanswered, ReportOK, Lost, NoAnswer
      <4> QED
        BY <3>2, <4>1 DEF ReportUnanswered
    <3> QED
      BY <1>6, <3>1, <3>2
  <2>2. LogKept'
    BY <2>1 DEF LogKept, StreakShown
  <2>3. health' \in [Streams -> Kinds \cup {"ok"}]
    BY <2>1, ClassifyKind
  <2>4. StreakTrue'
    BY <2>1 DEF StreakTrue, Digesting, OK, Streams, ReportOK, Classify
  <2> QED
    BY <2>1, <2>2, <2>3, <2>4
<1>7. CASE CallCancelled
  <2>1. /\ ctxDone /\ answer' = Lost
        /\ pc \in {"fetching", "posting"} /\ pc' \in {"fetched", "replied"}
        /\ UNCHANGED <<ctxDone, streak, shown, repeated, health>>
    BY <1>7 DEF CallCancelled
  <2>2. ~FetchOK(Lost) /\ ~ReportOK(Lost)
    BY DEF FetchOK, ReportOK, Lost, NoAnswer
  <2>3. StreakTrue'
    BY <2>1, <2>2 DEF StreakTrue, Digesting, OK, Streams, FetchOK, ReportOK
  <2> QED
    BY <2>1, <2>3, QuietKeeps
<1>8. CASE Shutdown
  <2>1. ~ctxDone /\ ctxDone' = TRUE /\ UNCHANGED <<pc, answer, streak, shown, repeated, health>>
    BY <1>8 DEF Shutdown
  <2>2. \A f \in Streams : streak[f] # "" /\ ~Digesting(f) => health[f] # "ok"
    BY <2>1 DEF StreakTrue
  <2>3. StreakTrue'
    BY <2>1, <2>2, ClassifyKind DEF StreakTrue, Digesting, OK, FetchOK, ReportOK, Kinds
  <2> QED
    BY <2>1, <2>3, QuietKeeps
<1>9. CASE \/ ReportArrivesLate \/ AgentChange \/ AgentRestart \/ Connection
          \/ Stopped \/ UNCHANGED vars
  <2>1. UNCHANGED <<pc, answer, ctxDone, streak, shown, repeated, health>>
    BY <1>9 DEF ReportArrivesLate, AgentChange, AgentRestart, Connection, Stopped, vars
  <2>2. StreakTrue'
    BY <2>1 DEF StreakTrue, Digesting
  <2> QED
    BY <2>1, <2>2, QuietKeeps
<1> QED
  BY <1>1, <1>2, <1>3, <1>4, <1>5, <1>6, <1>7, <1>8, <1>9 DEF Next, RunStep, AnswerStep

(* What the log shows of a stream is how its last call went, and no line   *)
(* is followed by the same line, for every agent and network.              *)
THEOREM LogTrue == Spec => []LogTellsHealth
<1>1. LogInv => LogTellsHealth
  BY DEF LogInv, LogKept, StreakShown, StreakTrue, LogTellsHealth, Streams, Kinds
<1> QED
  BY InitLog, NextLog, <1>1, PTL DEF Spec

(* A call that fails because the process is stopping is never shown as a   *)
(* failure of the agent.                                                   *)
THEOREM NobodyBlamed == Spec => []NoBlameForShutdown
<1>1. LogInv => NoBlameForShutdown
  BY DEF LogInv, LogKept, StreakShown, StreakTrue, NoBlameForShutdown, Streams, Kinds
<1> QED
  BY InitLog, NextLog, <1>1, PTL DEF Spec

================================================================================
