---------------------------------- MODULE Bot ----------------------------------
(***************************************************************************)
(* The whole program: main of cmd/bot/main.go, which loads the             *)
(* configuration, signs in, starts the poller when PRESENCE_URL is set and *)
(* runs the connect loop until it returns.                                 *)
(*                                                                         *)
(* The connect loop is module ConnectLoop, step by step.  Its two          *)
(* neighbours are what they promise: the poller is module Relay, which     *)
(* Poller implements, and the session it calls is module Link, which       *)
(* Session implements.  Where two parts meet, their actions are one step:  *)
(*                                                                         *)
(*   the poller acts on an answer        Relay!Act    with Loop!Set        *)
(*   session calls spawned               Link!Join    with Loop!Spawn      *)
(*   Admit returns and connect is called              with Loop!AdmitBuild *)
(*   session returns                                  Loop!SessionReturns  *)
(*                                                                         *)
(* and the context of the session is Loop's, as the process context is     *)
(* everybody's.                                                            *)
(*                                                                         *)
(* A definition marked FAULT is the one after it with a mistake in it,     *)
(* which a property below must notice.                                     *)
(***************************************************************************)
EXTENDS Integers

CONSTANTS
  PresenceEnabled, InitialState, Sessions, NoSession, MinDelay, MaxDelay,
  Nothing,            (* no status report                                   *)
  MaxFlips            (* bound: how often the agent changes its mind        *)

VARIABLES
  \* The connect loop and its gate.
  desired, gen, connected, ctxDone, cancelled, wpc, wchan,
  pc, first, delay, admChan, sess, lasted, parked, lastGen, rested,
  \* The poller and the agent.
  want, answered, posted, late, told,
  \* The session the loop is in.
  stage, open, result,
  \* main.
  phase,      (* config.Load, TokenSource, running, or failed               *)
  flips       (* how often the agent has changed its mind                   *)

loopVars  == <<desired, gen, connected, ctxDone, cancelled, wpc, wchan, pc, first,
               delay, admChan, sess, lasted, parked, lastGen, rested>>
relayVars == <<want, answered, posted, late, told>>
linkVars  == <<stage, open, result>>
mainVars  == <<phase, flips>>
vars == <<loopVars, relayVars, linkVars, mainVars>>

Loop == INSTANCE ConnectLoop WITH MaxChanges <- MaxFlips + 1

(* FAULT: the closure hands session the context of the process.            *)
SessionCtxProcess == ctxDone

(* The context session is called with.                                     *)
SessionCtx == sess = NoSession \/ Loop!SessDone(sess)

Link == INSTANCE Link WITH ctxDone <- SessionCtx

(* A report that arrives late is the poller's own trouble (module Poller):*)
(* here late keeps the value Nothing.                                      *)
Relay == INSTANCE Relay WITH ended <- ctxDone, LateReports <- FALSE

Present == Loop!Present
Parked  == Loop!Parked

(* As ConnectLoop assumes, config.Load refuses any other setting.          *)
ASSUME BotAssumption ==
  /\ PresenceEnabled \in BOOLEAN
  /\ InitialState \in {Present, Parked}
  /\ ~PresenceEnabled => InitialState = Present
  /\ NoSession \notin Sessions
  /\ MinDelay \in Nat \ {0}
  /\ MaxDelay \in Nat
  /\ MinDelay <= MaxDelay
  /\ MaxFlips \in Nat

Init ==
  /\ Loop!Init
  /\ Relay!Init
  /\ stage = "returned"
  /\ open = FALSE
  /\ result = "error"
  /\ phase = "config"
  /\ flips = 0

-------------------------------------------------------------------------------
(***************************************************************************)
(* main.                                                                   *)
(***************************************************************************)

(* config.Load, and then TokenSource; either may end the process with exit *)
(* code 1.  A signal that comes before NotifyContext ends it as well.      *)
StartUp ==
  /\ \/ phase = "config" /\ phase' \in {"login", "failed"}
     \/ phase = "login"  /\ phase' \in {"running", "failed"}
  /\ UNCHANGED <<loopVars, relayVars, linkVars, flips>>

(* SIGTERM or SIGINT, with NotifyContext in place.                         *)
Shutdown ==
  /\ phase \in {"login", "running"}
  /\ Loop!Shutdown
  /\ UNCHANGED <<relayVars, linkVars, mainVars>>

(* The process is there, and main has not returned from the loop.          *)
Running == phase = "running" /\ pc # "exited"

-------------------------------------------------------------------------------
(***************************************************************************)
(* The connect loop, its watchers and the session it calls.                *)
(***************************************************************************)

(* Admit returns, and the loop calls connect with a context of its own.    *)
Call ==
  /\ Running
  /\ Loop!AdmitBuild
  /\ stage' = "called"
  /\ open' = FALSE
  /\ result' = "error"
  /\ UNCHANGED <<relayVars, mainVars>>

LoopAlone ==
  /\ Running
  /\ pc # "build"
  /\ Loop!LoopStep
  /\ UNCHANGED <<relayVars, linkVars, mainVars>>

Watch(s) ==
  /\ Loop!WatchStep(s)
  /\ UNCHANGED <<relayVars, linkVars, mainVars>>

(* DoSpawnContext returns, and spawned tells the gate.                     *)
Join ==
  /\ Loop!Spawn
  /\ Link!Join
  /\ UNCHANGED <<relayVars, mainVars>>

(* The session on its own: it dials, leaves and closes.                    *)
LinkAlone ==
  /\ UNCHANGED <<loopVars, relayVars, mainVars>>
  /\ Link!Dial \/ Link!Leave \/ Link!Return

(* The server, the network or the hook on the context closes it.           *)
Drop ==
  /\ UNCHANGED <<loopVars, relayVars, mainVars>>
  /\ Link!Drop

SessionReturns ==
  /\ stage = "returned"
  /\ Loop!SessionReturns
  /\ result' = "error"
  /\ UNCHANGED <<relayVars, stage, open, mainVars>>

-------------------------------------------------------------------------------
(***************************************************************************)
(* The poller, which main starts only with PRESENCE_URL set, and which     *)
(* nobody waits for when the loop has returned.                            *)
(***************************************************************************)

Polling == Running /\ PresenceEnabled

(* FAULT: the state is stored and nobody is told.                          *)
ActSilent ==
  /\ Polling
  /\ Relay!Act
  /\ UNCHANGED <<gen, ctxDone, cancelled, wpc, wchan, pc, first, delay, admChan,
                 sess, lasted, parked, lastGen, rested, linkVars, mainVars>>

(* set: with the state held already, nothing the loop could see.           *)
Act ==
  /\ Polling
  /\ Relay!Act
  /\ IF answered = desired THEN UNCHANGED loopVars ELSE Loop!Set
  /\ UNCHANGED <<linkVars, mainVars>>

Answer ==
  /\ Polling
  /\ Relay!Answer
  /\ UNCHANGED <<loopVars, linkVars, mainVars>>

(* A report is not even sent once the context has ended.                   *)
Post ==
  /\ Polling
  /\ ~ctxDone
  /\ Relay!Post
  /\ UNCHANGED <<loopVars, linkVars, mainVars>>

Recorded ==
  /\ Polling
  /\ Relay!Recorded
  /\ UNCHANGED <<loopVars, linkVars, mainVars>>

GivenUp ==
  /\ Polling
  /\ Relay!GivenUp
  /\ UNCHANGED <<loopVars, linkVars, mainVars>>

Change ==
  /\ flips < MaxFlips
  /\ flips' = flips + 1
  /\ Relay!Change
  /\ UNCHANGED <<loopVars, linkVars, phase>>

(* main has returned, or exited.                                           *)
Ended ==
  /\ phase = "failed" \/ pc = "exited"
  /\ UNCHANGED vars

-------------------------------------------------------------------------------
Next ==
  \/ StartUp \/ Shutdown
  \/ Call \/ LoopAlone \/ Join \/ LinkAlone \/ Drop \/ SessionReturns
  \/ \E s \in Sessions : Watch(s)
  \/ Answer \/ Act \/ Post \/ Recorded \/ GivenUp
  \/ Change
  \/ Ended

Spec == Init /\ [][Next]_vars

(* The goroutines run; a dial has its timeout; a session ends once its     *)
(* context has, or its connection (Ends of Link); nobody waits for a       *)
(* device code once the context has ended; and the agent answers, and      *)
(* records, again and again (Follows and Tells of Relay).                  *)
Fairness ==
  /\ WF_vars(Call \/ LoopAlone)
  /\ \A s \in Sessions : WF_vars(Watch(s))
  /\ WF_vars(SessionReturns)
  /\ WF_vars(LinkAlone /\ (stage = "joining" => SessionCtx \/ ~open))
  /\ WF_vars(phase = "config" /\ StartUp)
  /\ WF_vars(ctxDone /\ StartUp)
  /\ WF_vars(Act)
  /\ SF_vars(Answer)
  /\ SF_vars(Recorded)
  /\ SF_vars(Post)

FairSpec == Spec /\ Fairness

-------------------------------------------------------------------------------
(* A shutdown is clean: the process is asked to end when it does, and by   *)
(* then the player has left the server.                                    *)
CleanExit == pc = "exited" => ctxDone /\ ~open

(* What the loop was assumed to get from the session it calls.             *)
LoopServed == Loop!SessionFair

(* A park at the agent gets the player out of the world.                   *)
ParkArrives ==
  phase = "running" /\ want = Parked
    ~> (want = Present \/ (~open /\ pc \in {"admitWait", "exited"}))

(* A resume gets it back to where it dials the server.                     *)
ResumeArrives ==
  phase = "running" /\ want = Present ~> (want = Parked \/ ctxDone \/ Loop!InConnect)

(* The agent hears that the park has taken effect.                         *)
ParkRecorded ==
  phase = "running" /\ want = Parked
    ~> (want = Present \/ ctxDone \/ told = [connected |-> FALSE, state |-> Parked])

(* SIGTERM ends the process, its connection closed, wherever it is.        *)
ShutdownCompletes == ctxDone ~> (~open /\ (pc = "exited" \/ phase = "failed"))

===============================================================================
