-------------------------------- MODULE Poller --------------------------------
(***************************************************************************)
(* The poller of internal/presence: Reconciler.Run with poll, report and   *)
(* set, the two streaks that decide what is logged, and the HTTP client of *)
(* client.go that turns an answer into a result or an error.               *)
(*                                                                         *)
(* The agent is outside this repository.  What is modelled of it is the    *)
(* contract the bot relies on, as the fake agent of reconciler_test.go     *)
(* keeps it: the ETag of an answer is made of the version of the setting   *)
(* and of the effective state, and a request that carries the current ETag *)
(* is answered 304.  An agent, or a proxy in front of it, may also answer  *)
(* any status, a body that cannot be used, or not at all.                  *)
(*                                                                         *)
(* One goroutine runs the poller, so a call and what is done with its      *)
(* answer interleave only with the agent, the connect loop (Connection)    *)
(* and the signal handler.                                                 *)
(*                                                                         *)
(* A definition marked FAULT is the one after it with a mistake in it,     *)
(* which a property below must notice.                                     *)
(***************************************************************************)
EXTENDS Integers

CONSTANTS
  InitialState,     (* PRESENCE_DEFAULT                                     *)
  Versions,         (* bound: versions of the agent's setting               *)
  Statuses,         (* HTTP statuses a failing agent or proxy answers       *)
  NoTag,            (* the empty ETag                                       *)
  Nothing,          (* no status report                                     *)
  MaxMoves          (* bound: changes and failures of the world around      *)

Present == "present"
Parked  == "parked"
States  == {Present, Parked}
Bogus   == "bogus"      (* a body that decodes to no known effective state  *)
Cut     == "cut"        (* a body the connection or the timeout cuts short  *)

Streams   == {"fetch", "report"}
Kinds     == {"unreachable", "rejected", "invalid"}
NoAnswer  == 0           (* in place of a status: http.Client.Do failed     *)
Settings  == [version : Versions, state : States]
Reports   == [connected : BOOLEAN, state : States]

(* Do returns an error in place of an answer.                              *)
Lost == [status |-> NoAnswer, state |-> Bogus, etag |-> NoTag]

ASSUME PollerAssumption ==
  /\ InitialState \in States
  /\ 0 \in Versions
  /\ Versions \subseteq Nat
  /\ Statuses \subseteq 100..599
  /\ 304 \notin Statuses
  /\ NoTag \notin Settings
  /\ Nothing \notin Reports
  /\ MaxMoves \in Nat

VARIABLES
  \* The bot.
  desired,     (* Reconciler.desired                                        *)
  etag,        (* Reconciler.etag                                           *)
  connected,   (* Reconciler.connected, written by the connect loop         *)
  streak,      (* kind of fetchStreak and of reportStreak; "" is no failure *)
  ctxDone,     (* the process context has ended                             *)
  pc,          (* where Run is                                              *)
  condition,   (* the If-None-Match of the request in flight                *)
  answer,      (* the answer to the request in flight                       *)
  posted,      (* the status report in flight                               *)
  \* The world.
  agent,       (* the setting the agent holds                               *)
  told,        (* the status report the agent recorded last                 *)
  late,        (* a report given up on that may still reach the agent       *)
  moves,       (* how much has changed or gone wrong so far                 *)
  \* History variables: no action reads them.
  asOf,        (* the state the agent held when it last answered a fetch    *)
  health,      (* how the last call of each stream went, in the world       *)
  shown,       (* the last line each stream wrote to the log                *)
  repeated     (* some line was written twice in a row                      *)

botVars     == <<desired, etag, streak>>
callVars    == <<pc, condition, answer, posted>>
agentVars   == <<agent, told, late>>
historyVars == <<asOf, health, shown, repeated>>
vars == <<botVars, connected, ctxDone, callVars, agentVars, moves, historyVars>>

Init ==
  /\ desired = InitialState
  /\ etag = NoTag
  /\ connected = FALSE
  /\ streak = [f \in Streams |-> ""]
  /\ ctxDone = FALSE
  /\ pc = "poll"
  /\ condition = NoTag
  /\ answer = Lost
  /\ posted = [connected |-> FALSE, state |-> InitialState]
  /\ agent \in [version : {0}, state : States]
  /\ told = Nothing
  /\ late = Nothing
  /\ moves = 0
  /\ asOf = Bogus
  /\ health = [f \in Streams |-> "ok"]
  /\ shown = [f \in Streams |-> "silent"]
  /\ repeated = FALSE

-------------------------------------------------------------------------------
(***************************************************************************)
(* Pure parts: what the client makes of an answer, and of an error.        *)
(***************************************************************************)

(* Client.Fetch succeeds: 304, or 200 with a body whose effective state is *)
(* known.                                                                  *)
FetchOK(a) == a.status = 304 \/ (a.status = 200 /\ a.state \in States)

(* Client.Report succeeds: any 2xx.                                        *)
ReportOK(a) == a.status \div 100 = 2

(* classify, on the error that Fetch or Report makes of the answer a.      *)
(* Fetch makes ErrInvalidResponse of whatever Decode returns, an error     *)
(* from reading the body included.                                         *)
Classify(a) ==
  IF a.status = 200 THEN "invalid"
  ELSE IF a.status \in (400..499) \ {408, 429} THEN "rejected"
  ELSE "unreachable"

-------------------------------------------------------------------------------
(***************************************************************************)
(* streak: a failure is logged when it starts or changes kind, and once    *)
(* when it ends.                                                           *)
(***************************************************************************)

(* A line of stream f goes to the log.                                     *)
Log(f, line) ==
  /\ shown' = [shown EXCEPT ![f] = line]
  /\ repeated' = (repeated \/ shown[f] = line)

Failed(f, kind) ==
  /\ streak' = [streak EXCEPT ![f] = kind]
  /\ IF kind = streak[f] THEN UNCHANGED <<shown, repeated>> ELSE Log(f, kind)

(* FAULT: the end of a failure does not end the streak.                    *)
SucceededKeepsKind(f) ==
  /\ UNCHANGED streak
  /\ IF streak[f] = "" THEN UNCHANGED <<shown, repeated>> ELSE Log(f, "recovered")

Succeeded(f) ==
  /\ streak' = [streak EXCEPT ![f] = ""]
  /\ IF streak[f] = "" THEN UNCHANGED <<shown, repeated>> ELSE Log(f, "recovered")

(* FAULT: the agent is blamed whatever ended the call.                     *)
CallFailedAlways(f) == Failed(f, Classify(answer))

(* poll and report blame the agent only while the process is not stopping. *)
CallFailed(f) ==
  IF ctxDone THEN UNCHANGED <<streak, shown, repeated>>
  ELSE Failed(f, Classify(answer))

-------------------------------------------------------------------------------
(***************************************************************************)
(* One tick of Run.                                                        *)
(***************************************************************************)

(* poll reads the ETag and sends the request.                              *)
PollStart ==
  /\ pc = "poll"
  /\ condition' = etag
  /\ pc' = "fetching"
  /\ UNCHANGED <<botVars, connected, ctxDone, answer, posted, agentVars, moves,
                 historyVars>>

(* FAULT: the ETag is remembered and the state is not.                     *)
StoreTagOnly(state, tag) ==
  /\ etag' = tag
  /\ UNCHANGED desired

(* set: the ETag always, the state when it differs.                        *)
Store(state, tag) ==
  /\ etag' = tag
  /\ desired' = state

(* FAULT: the ETag of an answer that is no use is remembered.              *)
KeepTag ==
  /\ UNCHANGED desired
  /\ etag' = answer.etag

(* A fetch that failed leaves the state and the ETag alone.                *)
Keep == UNCHANGED <<desired, etag>>

PollEnds ==
  /\ pc = "fetched"
  /\ pc' = "report"
  /\ \/ /\ ~FetchOK(answer)
        /\ CallFailed("fetch")
        /\ Keep
     \/ /\ FetchOK(answer)
        /\ Succeeded("fetch")
        /\ IF answer.status = 304
             THEN UNCHANGED <<desired, etag>>
             ELSE Store(answer.state, answer.etag)
  /\ UNCHANGED <<connected, ctxDone, condition, answer, posted, agentVars, moves, asOf,
                 health>>

(* FAULT: only news is reported.                                           *)
ReportStartIfNews ==
  /\ pc = "report"
  /\ posted' = [connected |-> connected, state |-> desired]
  /\ pc' = IF posted' = posted THEN "idle" ELSE "posting"
  /\ UNCHANGED <<botVars, connected, ctxDone, condition, answer, agentVars, moves,
                 historyVars>>

(* report takes a snapshot of the state under the lock and posts it; a     *)
(* request whose context has ended is not sent.                            *)
ReportStart ==
  /\ pc = "report"
  /\ posted' = [connected |-> connected, state |-> desired]
  /\ pc' = IF ctxDone THEN "replied" ELSE "posting"
  /\ answer' = IF ctxDone THEN Lost ELSE answer
  /\ UNCHANGED <<botVars, connected, ctxDone, condition, agentVars, moves, historyVars>>

ReportEnds ==
  /\ pc = "replied"
  /\ pc' = "idle"
  /\ IF ReportOK(answer) THEN Succeeded("report") ELSE CallFailed("report")
  /\ UNCHANGED <<desired, etag, connected, ctxDone, condition, answer, posted,
                 agentVars, moves, asOf, health>>

(* The ticker fires.                                                       *)
Tick ==
  /\ pc = "idle"
  /\ pc' = "poll"
  /\ UNCHANGED <<botVars, connected, ctxDone, condition, answer, posted, agentVars,
                 moves, historyVars>>

(* The process context is done; when the ticker has fired too, select may  *)
(* choose either.                                                          *)
Stop ==
  /\ pc = "idle"
  /\ ctxDone
  /\ pc' = "stopped"
  /\ UNCHANGED <<botVars, connected, ctxDone, condition, answer, posted, agentVars,
                 moves, historyVars>>

Stopped ==
  /\ pc = "stopped"
  /\ UNCHANGED vars

-------------------------------------------------------------------------------
(***************************************************************************)
(* The agent and the network.                                              *)
(***************************************************************************)

(* What an agent that keeps the contract answers; a proxy may drop the     *)
(* ETag.                                                                   *)
GoodAnswers ==
  IF condition = agent
  THEN {[status |-> 304, state |-> Bogus, etag |-> NoTag]}
  ELSE [status : {200}, state : {agent.state}, etag : {agent, NoTag}]

(* An answer that is no use: another status, or a 200 with the right ETag  *)
(* on a body that does not decode, names an unknown state or breaks off.   *)
BadAnswers ==
  [status : Statuses, state : {Bogus}, etag : {NoTag}]
    \cup [status : {200}, state : {Bogus, Cut}, etag : {agent}]

(* Something goes wrong or changes, within the bound.                      *)
Move ==
  /\ moves < MaxMoves
  /\ moves' = moves + 1

FetchAnswered ==
  /\ pc = "fetching"
  /\ ~ctxDone
  /\ \/ /\ answer' \in GoodAnswers
        /\ UNCHANGED moves
     \/ /\ answer' \in BadAnswers \cup {Lost}
        /\ Move
  /\ asOf' = agent.state
  /\ health' = [health EXCEPT !["fetch"] = IF FetchOK(answer') THEN "ok" ELSE Classify(answer')]
  /\ pc' = "fetched"
  /\ UNCHANGED <<botVars, connected, ctxDone, condition, posted, agentVars, shown,
                 repeated>>

ReportDelivered ==
  /\ pc = "posting"
  /\ ~ctxDone
  /\ answer' = [status |-> 204, state |-> Bogus, etag |-> NoTag]
  /\ told' = posted
  /\ health' = [health EXCEPT !["report"] = "ok"]
  /\ pc' = "replied"
  /\ UNCHANGED <<botVars, connected, ctxDone, condition, posted, agent, late, moves,
                 asOf, shown, repeated>>

(* A report the client has given up on may have been recorded, or be       *)
(* recorded at any later time, or never.                                   *)
GivenUp ==
  \/ UNCHANGED <<told, late>>
  \/ told' = posted /\ UNCHANGED late
  \/ late' = posted /\ UNCHANGED told

(* Refused, or no answer within presenceTimeout.                           *)
ReportUnanswered ==
  /\ pc = "posting"
  /\ ~ctxDone
  /\ Move
  /\ \/ /\ answer' \in BadAnswers
        /\ answer'.status \div 100 # 2
        /\ UNCHANGED <<told, late>>
     \/ /\ answer' = Lost
        /\ GivenUp
  /\ health' = [health EXCEPT !["report"] = Classify(answer')]
  /\ pc' = "replied"
  /\ UNCHANGED <<botVars, connected, ctxDone, condition, posted, agent, asOf, shown,
                 repeated>>

(* The process context ends during the call: Do returns its error.         *)
CallCancelled ==
  /\ ctxDone
  /\ answer' = Lost
  /\ \/ pc = "fetching" /\ pc' = "fetched" /\ UNCHANGED <<told, late>>
     \/ pc = "posting" /\ pc' = "replied" /\ GivenUp
  /\ UNCHANGED <<botVars, connected, ctxDone, condition, posted, agent, moves,
                 historyVars>>

ReportArrivesLate ==
  /\ late # Nothing
  /\ told' = late
  /\ late' = Nothing
  /\ UNCHANGED <<botVars, connected, ctxDone, callVars, agent, moves, historyVars>>

(* Somebody parks or resumes the bot, or sets the state it has again.      *)
AgentChange ==
  /\ Move
  /\ agent.version + 1 \in Versions
  /\ agent' \in [version : {agent.version + 1}, state : States]
  /\ UNCHANGED <<botVars, connected, ctxDone, callVars, told, late, historyVars>>

(* The agent restarts, and counts its versions from the start again.       *)
AgentRestart ==
  /\ Move
  /\ agent' \in [version : {0}, state : States]
  /\ UNCHANGED <<botVars, connected, ctxDone, callVars, told, late, historyVars>>

(* The connect loop calls Connected.                                       *)
Connection ==
  /\ Move
  /\ connected' = ~connected
  /\ UNCHANGED <<botVars, ctxDone, callVars, agentVars, historyVars>>

Shutdown ==
  /\ ~ctxDone
  /\ ctxDone' = TRUE
  /\ UNCHANGED <<botVars, connected, callVars, agentVars, moves, historyVars>>

-------------------------------------------------------------------------------
RunStep == PollStart \/ PollEnds \/ ReportStart \/ ReportEnds \/ Tick \/ Stop

AnswerStep == FetchAnswered \/ ReportDelivered \/ ReportUnanswered \/ CallCancelled

Next ==
  \/ RunStep
  \/ AnswerStep
  \/ ReportArrivesLate
  \/ AgentChange
  \/ AgentRestart
  \/ Connection
  \/ Shutdown
  \/ Stopped

Spec == Init /\ [][Next]_vars

(* The goroutine runs, the ticker fires and every call ends, by its answer *)
(* or by the client's timeout.  A report given up on arrives in the end.   *)
(* select may choose the ticker for ever over a context that is done only  *)
(* if it is unfair, hence the strong fairness of Stop.                     *)
Fairness ==
  /\ WF_vars(RunStep)
  /\ WF_vars(AnswerStep)
  /\ WF_vars(ReportArrivesLate)
  /\ SF_vars(Stop)

FairSpec == Spec /\ Fairness

-------------------------------------------------------------------------------
(***************************************************************************)
(* Safety.                                                                 *)
(***************************************************************************)

(* The goroutine is between the answer to a call of stream f and the log.  *)
Digesting(f) == pc = (IF f = "fetch" THEN "fetched" ELSE "replied")

(* What the log shows of a stream is how its last call went, whatever came *)
(* before, until the process is told to stop; and no line is followed by   *)
(* the same line.                                                          *)
LogTellsHealth ==
  /\ \A f \in Streams :
       ~ctxDone /\ ~Digesting(f) =>
         IF health[f] = "ok" THEN shown[f] \in {"silent", "recovered"}
         ELSE shown[f] = health[f]
  /\ ~repeated

(* A failure is in the log only if the agent or the network failed.  A     *)
(* call that fails because the process is stopping is nobody's fault.      *)
NoBlameForShutdown ==
  \A f \in Streams :
    shown[f] \in Kinds /\ ~Digesting(f) => health[f] # "ok"

-------------------------------------------------------------------------------
(***************************************************************************)
(* The poller keeps the promise of module Relay, safety and, under         *)
(* FairSpec, liveness.  An answer of use stands for the state the agent    *)
(* held when it gave it, also when all it said was that nothing changed.   *)
(***************************************************************************)
Answered == IF pc = "fetched" /\ FetchOK(answer) THEN asOf ELSE "none"

Promise == INSTANCE Relay WITH
  want <- agent.state, answered <- Answered,
  posted <- IF pc = "posting" THEN posted ELSE Nothing,
  ended <- ctxDone, LateReports <- TRUE

(* The bot moves only to the state a usable answer stands for, and does so *)
(* whatever failed, changed or restarted since the ETag was received; an   *)
(* agent that is down never moves it (operations.md); and only a snapshot  *)
(* of what the bot was doing is ever recorded.                             *)
RelayKept == Promise!Spec

(* Once the agent is settled and answers, the bot follows it.              *)
AgentFollowed == Promise!Follows

(* The agent's record of the bot converges to what the bot is doing, even  *)
(* when a report given up on overtakes a later one.                        *)
ReportConverges == Promise!Tells

===============================================================================
