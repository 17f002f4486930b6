------------------------------ MODULE ConnectLoop ------------------------------
(***************************************************************************)
(* The connect loop of cmd/bot/main.go (runConnectLoop) together with the  *)
(* gate it waits on: internal/presence/reconciler.go when PRESENCE_URL is  *)
(* set, the AlwaysPresent gate of internal/presence/gate.go when it is     *)
(* not.                                                                    *)
(*                                                                         *)
(* Four kinds of goroutine meet here.  The loop itself (pc), one           *)
(* cancelOnPark goroutine per admitted session (wpc, wchan), the poller,   *)
(* of which only the call to set is visible (Set; its other side is in     *)
(* module Poller), and the signal handler (Shutdown).  Each section of     *)
(* code under Reconciler.mu is one action, and so is each read of a        *)
(* context; everything between two of them is local to its goroutine.      *)
(*                                                                         *)
(* The change channel is modelled by the number of channels closed before  *)
(* it: the channel now in Reconciler.changed is number gen, and a          *)
(* goroutine that holds channel c finds it closed exactly when c < gen.    *)
(*                                                                         *)
(* A definition marked FAULT is not part of the model: it is the           *)
(* definition after it with a plausible mistake in it, which a property    *)
(* below must notice.                                                      *)
(***************************************************************************)
EXTENDS Integers

CONSTANTS
  PresenceEnabled,    (* PRESENCE_URL is set: the gate is the Reconciler    *)
  InitialState,       (* PRESENCE_DEFAULT                                   *)
  Sessions,           (* bound: session contexts alive at one time          *)
  NoSession,          (* the loop holds no session                          *)
  MinDelay,           (* RECONNECT_MIN_MS                                   *)
  MaxDelay,           (* RECONNECT_MAX_MS                                   *)
  MaxChanges          (* bound: how often the agent changes its mind        *)

Present == "present"
Parked  == "parked"
States  == {Present, Parked}

(* config.Load refuses any other setting.  With presence off there is no   *)
(* state to follow and the bot behaves as if it were always present.       *)
ASSUME ConfigAssumption ==
  /\ PresenceEnabled \in BOOLEAN
  /\ InitialState \in States
  /\ ~PresenceEnabled => InitialState = Present
  /\ NoSession \notin Sessions
  /\ MinDelay \in Nat \ {0}
  /\ MaxDelay \in Nat
  /\ MinDelay <= MaxDelay
  /\ MaxChanges \in Nat

VARIABLES
  desired,    (* Reconciler.desired                                         *)
  gen,        (* which change channel Reconciler.changed is                 *)
  connected,  (* Reconciler.connected                                       *)
  ctxDone,    (* the process context has ended (SIGINT or SIGTERM)          *)
  cancelled,  (* cancelled[s]: cancel of session context s has been called  *)
  wpc,        (* where the cancelOnPark goroutine of a session is           *)
  wchan,      (* the change channel that goroutine selects on               *)
  pc,         (* where the loop is                                          *)
  first,      (* runConnectLoop's first: skip the wait                      *)
  delay,      (* runConnectLoop's delay                                     *)
  admChan,    (* the channel Admit read together with the state             *)
  sess,       (* the session context the loop holds                         *)
  lasted,     (* whether the session lasted at least stableSession          *)
  parked,     (* runConnectLoop's parked                                    *)
  \* History variables: no action reads them.
  lastGen,    (* the change channel the last session was admitted with      *)
  rested      (* a backoff wait has elapsed since the last admission        *)

gateVars    == <<desired, gen, connected>>
watchVars   == <<wpc, wchan>>
loopVars    == <<pc, first, delay, admChan, sess, lasted, parked>>
historyVars == <<lastGen, rested>>
vars == <<gateVars, ctxDone, cancelled, watchVars, loopVars, historyVars>>

LoopPCs    == {"top", "wait", "admit", "read", "admitWait", "build", "dial",
               "world", "returned", "classify", "release", "decide", "exited"}
WatcherPCs == {"none", "select", "read", "cancel"}

(* The loop is inside Admit, which has not decided yet.                    *)
AskingPCs == {"admit", "read", "admitWait"}

(* Admit has let the loop in and the loop has not released the session.    *)
HoldingPCs == {"build", "dial", "world", "returned", "classify", "release"}

(* The loop is inside connect.                                             *)
InConnect == pc \in {"dial", "world"}

(* FAULT: the session context does not descend from the process context.   *)
SessDoneDetached(s) == cancelled[s]

(* sess.Err() # nil: a session context ends when it is cancelled or when   *)
(* its parent, the process context, ends.                                  *)
SessDone(s) == ctxDone \/ cancelled[s]

(* A context nobody refers to any more.                                    *)
Free(s) == wpc[s] = "none" /\ s # sess

(* FAULT: the watcher starts from the channel now in the field.            *)
WatchedChannelNow == gen

(* The channel the watcher of a new session starts from: the one Admit     *)
(* read together with the state, not the one in the field by then.         *)
WatchedChannel == admChan

(* Connected, whose body is empty on AlwaysPresent.                        *)
Connected(c) == connected' = (PresenceEnabled /\ c)

(* FAULT: the ceiling is forgotten.                                        *)
BackoffUncapped(current, lived) == IF lived = "stable" THEN MinDelay ELSE current * 2

(* backoff of main.go, with min and max the configured bounds.             *)
Backoff(current, lived) ==
  IF lived = "stable" THEN MinDelay
  ELSE IF current * 2 < MaxDelay THEN current * 2
  ELSE MaxDelay

Init ==
  /\ desired = InitialState
  /\ gen = 0
  /\ connected = FALSE
  /\ ctxDone = FALSE
  /\ cancelled = [s \in Sessions |-> FALSE]
  /\ wpc = [s \in Sessions |-> "none"]
  /\ wchan = [s \in Sessions |-> 0]
  /\ pc = "top"
  /\ first = TRUE
  /\ delay = MinDelay
  /\ admChan = 0
  /\ sess = NoSession
  /\ lasted = "short"
  /\ parked = FALSE
  /\ lastGen = 0
  /\ rested = TRUE

-------------------------------------------------------------------------------
(***************************************************************************)
(* The world around the loop.                                              *)
(***************************************************************************)

(* FAULT: only a park closes the change channel.                           *)
SetClosesOnPark ==
  /\ PresenceEnabled
  /\ gen < MaxChanges
  /\ desired' \in States \ {desired}
  /\ gen' = gen + (IF desired' = Parked THEN 1 ELSE 0)
  /\ UNCHANGED <<connected, ctxDone, cancelled, watchVars, loopVars, historyVars>>

(* Reconciler.set with a state other than the one held: the new state is   *)
(* stored, the change channel closed and replaced, in one critical         *)
(* section.  set with the state already held changes nothing but the ETag. *)
Set ==
  /\ PresenceEnabled
  /\ gen < MaxChanges
  /\ desired' \in States \ {desired}
  /\ gen' = gen + 1
  /\ UNCHANGED <<connected, ctxDone, cancelled, watchVars, loopVars, historyVars>>

(* signal.NotifyContext cancels the process context.                       *)
Shutdown ==
  /\ ~ctxDone
  /\ ctxDone' = TRUE
  /\ UNCHANGED <<gateVars, cancelled, watchVars, loopVars, historyVars>>

-------------------------------------------------------------------------------
(***************************************************************************)
(* The loop between sessions.                                              *)
(***************************************************************************)

(* The head of the loop: stop, go straight to the gate, or back off.       *)
LoopTop ==
  /\ pc = "top"
  /\ pc' = IF ctxDone THEN "exited" ELSE IF first THEN "admit" ELSE "wait"
  /\ first' = (first /\ ctxDone)
  /\ UNCHANGED <<gateVars, ctxDone, cancelled, watchVars, delay, admChan, sess,
                 lasted, parked, historyVars>>

(* The timer fires; when the context has ended too, select may still       *)
(* choose the timer.                                                       *)
BackoffElapsed ==
  /\ pc = "wait"
  /\ pc' = "admit"
  /\ rested' = TRUE
  /\ UNCHANGED <<gateVars, ctxDone, cancelled, watchVars, first, delay, admChan,
                 sess, lasted, parked, lastGen>>

BackoffInterrupted ==
  /\ pc = "wait"
  /\ ctxDone
  /\ pc' = "exited"
  /\ UNCHANGED <<gateVars, ctxDone, cancelled, watchVars, first, delay, admChan,
                 sess, lasted, parked, historyVars>>

(* Both gates look at the context first.  AlwaysPresent then admits; an    *)
(* error from Admit ends the loop.                                         *)
AdmitCheck ==
  /\ pc = "admit"
  /\ pc' = IF ctxDone THEN "exited" ELSE IF PresenceEnabled THEN "read" ELSE "build"
  /\ UNCHANGED <<gateVars, ctxDone, cancelled, watchVars, first, delay, admChan,
                 sess, lasted, parked, historyVars>>

(* The state and the channel that announces its end, under one lock.       *)
AdmitRead ==
  /\ pc = "read"
  /\ admChan' = gen
  /\ pc' = IF desired = Present THEN "build" ELSE "admitWait"
  /\ UNCHANGED <<gateVars, ctxDone, cancelled, watchVars, first, delay, sess,
                 lasted, parked, historyVars>>

(* FAULT: a closed channel is taken for a resume, and not looked behind.   *)
AdmitWakeAdmits ==
  /\ pc = "admitWait"
  /\ admChan < gen
  /\ pc' = "build"
  /\ UNCHANGED <<gateVars, ctxDone, cancelled, watchVars, first, delay, admChan,
                 sess, lasted, parked, historyVars>>

(* The channel read is closed: look again.                                 *)
AdmitWake ==
  /\ pc = "admitWait"
  /\ admChan < gen
  /\ pc' = "admit"
  /\ UNCHANGED <<gateVars, ctxDone, cancelled, watchVars, first, delay, admChan,
                 sess, lasted, parked, historyVars>>

(* The process context ends while Admit waits.                             *)
AdmitAbort ==
  /\ pc = "admitWait"
  /\ ctxDone
  /\ pc' = "exited"
  /\ UNCHANGED <<gateVars, ctxDone, cancelled, watchVars, first, delay, admChan,
                 sess, lasted, parked, historyVars>>

(* Admit makes the session context and, on the Reconciler, starts its      *)
(* watcher with the channel Admit read; the loop then calls connect.       *)
AdmitBuild ==
  /\ pc = "build"
  /\ \E s \in Sessions :
       /\ Free(s)
       /\ sess' = s
       /\ cancelled' = [cancelled EXCEPT ![s] = FALSE]
       /\ wpc' = [wpc EXCEPT ![s] = IF PresenceEnabled THEN "select" ELSE "none"]
       /\ wchan' = [wchan EXCEPT ![s] = WatchedChannel]
  /\ pc' = "dial"
  /\ lastGen' = admChan
  /\ rested' = FALSE
  /\ UNCHANGED <<gateVars, ctxDone, first, delay, admChan, lasted, parked>>

-------------------------------------------------------------------------------
(***************************************************************************)
(* A session, seen from the loop.  Module Session looks inside.            *)
(***************************************************************************)

(* The bot is placed in the world and session calls spawned.  A spawn that *)
(* completes as the context ends is reported like any other.               *)
Spawn ==
  /\ pc = "dial"
  /\ pc' = "world"
  /\ Connected(TRUE)
  /\ UNCHANGED <<desired, gen, ctxDone, cancelled, watchVars, first, delay, admChan,
                 sess, lasted, parked, historyVars>>

(* connect returns: the dial, the spawn or the connection failed, or the   *)
(* context ended.  session returns nil only when its context is done, so   *)
(* the error it returns tells the loop nothing that sess.Err() does not.   *)
SessionReturns ==
  /\ InConnect
  /\ pc' = "returned"
  /\ lasted' \in {"short", "stable"}
  /\ UNCHANGED <<gateVars, ctxDone, cancelled, watchVars, first, delay, admChan, sess,
                 parked, historyVars>>

(* FAULT: connected stays true after the session.                          *)
LoopDisconnectedForgotten ==
  /\ pc = "returned"
  /\ pc' = "classify"
  /\ UNCHANGED <<gateVars, ctxDone, cancelled, watchVars, first, delay, admChan,
                 sess, lasted, parked, historyVars>>

(* gate.Connected(false).                                                  *)
LoopDisconnected ==
  /\ pc = "returned"
  /\ pc' = "classify"
  /\ Connected(FALSE)
  /\ UNCHANGED <<desired, gen, ctxDone, cancelled, watchVars, first, delay, admChan,
                 sess, lasted, parked, historyVars>>

(* FAULT: release is called first, and so every session counts as parked.  *)
LoopClassifyAfterRelease ==
  /\ pc = "classify"
  /\ pc' = "release"
  /\ cancelled' = [cancelled EXCEPT ![sess] = TRUE]
  /\ parked' = TRUE
  /\ UNCHANGED <<gateVars, ctxDone, watchVars, first, delay, admChan, sess, lasted,
                 historyVars>>

(* parked := sess.Err() != nil, before the loop itself cancels sess.       *)
LoopClassify ==
  /\ pc = "classify"
  /\ pc' = "release"
  /\ parked' = SessDone(sess)
  /\ UNCHANGED <<gateVars, ctxDone, cancelled, watchVars, first, delay, admChan, sess,
                 lasted, historyVars>>

(* FAULT: the loop does not call release.                                  *)
LoopReleaseForgotten ==
  /\ pc = "release"
  /\ pc' = "decide"
  /\ UNCHANGED <<gateVars, ctxDone, cancelled, watchVars, first, delay, admChan, sess,
                 lasted, parked, historyVars>>

(* release(): the loop cancels the session context itself.                 *)
LoopRelease ==
  /\ pc = "release"
  /\ pc' = "decide"
  /\ cancelled' = [cancelled EXCEPT ![sess] = TRUE]
  /\ UNCHANGED <<gateVars, ctxDone, watchVars, first, delay, admChan, sess, lasted,
                 parked, historyVars>>

(* Stop, come back at once after a park, or come back after a backoff; the *)
(* variables of the iteration are gone.                                    *)
LoopDecide ==
  /\ pc = "decide"
  /\ sess' = NoSession
  /\ lasted' = "short"
  /\ parked' = FALSE
  /\ \/ /\ ctxDone
        /\ pc' = "exited"
        /\ UNCHANGED <<first, delay>>
     \/ /\ ~ctxDone
        /\ parked
        /\ pc' = "top"
        /\ delay' = MinDelay
        /\ first' = TRUE
     \/ /\ ~ctxDone
        /\ ~parked
        /\ pc' = "top"
        /\ delay' = Backoff(delay, lasted)
        /\ first' = first
  /\ UNCHANGED <<gateVars, ctxDone, cancelled, watchVars, admChan, historyVars>>

(* runConnectLoop has returned and the process is on its way out.          *)
Exited ==
  /\ pc = "exited"
  /\ UNCHANGED vars

-------------------------------------------------------------------------------
(***************************************************************************)
(* cancelOnPark, the goroutine behind one admitted session.                *)
(***************************************************************************)

(* FAULT: the watcher waits for the process context, not for the session.  *)
WatchSessionEndParent(s) ==
  /\ wpc[s] = "select"
  /\ ctxDone
  /\ wpc' = [wpc EXCEPT ![s] = "none"]
  /\ UNCHANGED <<gateVars, ctxDone, cancelled, wchan, loopVars, historyVars>>

(* The session is over.  When the channel is closed as well, select may    *)
(* choose either.                                                          *)
WatchSessionEnd(s) ==
  /\ wpc[s] = "select"
  /\ SessDone(s)
  /\ wpc' = [wpc EXCEPT ![s] = "none"]
  /\ UNCHANGED <<gateVars, ctxDone, cancelled, wchan, loopVars, historyVars>>

WatchWake(s) ==
  /\ wpc[s] = "select"
  /\ wchan[s] < gen
  /\ wpc' = [wpc EXCEPT ![s] = "read"]
  /\ UNCHANGED <<gateVars, ctxDone, cancelled, wchan, loopVars, historyVars>>

(* FAULT: the watcher looks at one change only.                            *)
WatchReadOnce(s) ==
  /\ wpc[s] = "read"
  /\ wpc' = [wpc EXCEPT ![s] = IF desired = Parked THEN "cancel" ELSE "none"]
  /\ UNCHANGED <<gateVars, ctxDone, cancelled, wchan, loopVars, historyVars>>

(* The state and the channel to wait on next, under one lock.              *)
WatchRead(s) ==
  /\ wpc[s] = "read"
  /\ IF desired = Parked
       THEN /\ wpc' = [wpc EXCEPT ![s] = "cancel"]
            /\ UNCHANGED wchan
       ELSE /\ wpc' = [wpc EXCEPT ![s] = "select"]
            /\ wchan' = [wchan EXCEPT ![s] = gen]
  /\ UNCHANGED <<gateVars, ctxDone, cancelled, loopVars, historyVars>>

WatchCancel(s) ==
  /\ wpc[s] = "cancel"
  /\ cancelled' = [cancelled EXCEPT ![s] = TRUE]
  /\ wpc' = [wpc EXCEPT ![s] = "none"]
  /\ UNCHANGED <<gateVars, ctxDone, wchan, loopVars, historyVars>>

-------------------------------------------------------------------------------
LoopStep ==
  \/ LoopTop \/ BackoffElapsed \/ BackoffInterrupted
  \/ AdmitCheck \/ AdmitRead \/ AdmitWake \/ AdmitAbort \/ AdmitBuild
  \/ LoopDisconnected \/ LoopClassify \/ LoopRelease \/ LoopDecide

WatchStep(s) == WatchSessionEnd(s) \/ WatchWake(s) \/ WatchRead(s) \/ WatchCancel(s)

Next ==
  \/ Set
  \/ Shutdown
  \/ LoopStep
  \/ Spawn
  \/ SessionReturns
  \/ \E s \in Sessions : WatchStep(s)
  \/ Exited

Spec == Init /\ [][Next]_vars

(* session returns once its context is done: what is assumed of it here is *)
(* checked in module Bot of its contract, which module Session implements.  *)
SessionFair == WF_vars(InConnect /\ SessDone(sess) /\ SessionReturns)

(* Go runs every goroutine that can run, and timers fire.  Nothing says    *)
(* that the agent ever changes its mind, that a signal ever comes, or that *)
(* a session the server keeps alive ever spawns or ends.                   *)
Fairness ==
  /\ WF_vars(LoopStep)
  /\ SessionFair
  /\ \A s \in Sessions : WF_vars(WatchStep(s))

FairSpec == Spec /\ Fairness

-------------------------------------------------------------------------------
(***************************************************************************)
(* Safety.                                                                 *)
(***************************************************************************)

(* The types of the variables; delay never leaves the configured interval. *)
TypeOK ==
  /\ desired \in States
  /\ gen \in Nat
  /\ connected \in BOOLEAN
  /\ ctxDone \in BOOLEAN
  /\ cancelled \in [Sessions -> BOOLEAN]
  /\ wpc \in [Sessions -> WatcherPCs]
  /\ wchan \in [Sessions -> Nat]
  /\ pc \in LoopPCs
  /\ first \in BOOLEAN
  /\ delay \in MinDelay..MaxDelay
  /\ admChan \in Nat
  /\ sess \in Sessions \cup {NoSession}
  /\ lasted \in {"short", "stable"}
  /\ parked \in BOOLEAN
  /\ lastGen \in Nat
  /\ rested \in BOOLEAN

(* Nobody sleeps through a change: whoever blocks on a channel that is     *)
(* still open blocks on the state it wants to see the end of.  Admit and   *)
(* cancelOnPark read state and channel under one lock for this, and the    *)
(* watcher starts from the channel Admit read.                             *)
NoLostWakeup ==
  /\ pc = "admitWait" /\ admChan = gen => desired = Parked
  /\ \A s \in Sessions :
       wpc[s] = "select" /\ wchan[s] = gen => desired = Present

(* A server that drops the bot is never answered with an immediate         *)
(* reconnect: a session is admitted without a backoff wait since the one   *)
(* before only if the agent parked the bot and resumed it in between, two  *)
(* changes of the state.  The loop decides this from sess.Err(), which it  *)
(* must read after connect has returned and before it calls release.       *)
HotReadmission ==
  pc = "build" /\ ~rested => admChan >= lastGen + 2

(* What the agent is told: connected is false whenever the loop holds no   *)
(* session, whether it is waiting at the gate, backing off or gone.        *)
ConnectedOnlyInWorld ==
  connected => pc \in {"world", "returned"}

(* At most one session is alive: a watcher left over from an earlier one   *)
(* watches a context that is done, so it can neither cancel the session    *)
(* that replaced it nor wait for a change for ever.                        *)
OneLiveSession ==
  \A s \in Sessions : wpc[s] # "none" /\ s # sess => SessDone(s)

-------------------------------------------------------------------------------
(***************************************************************************)
(* Why safety holds: an inductive invariant.  The state alternates, so how *)
(* far gen is from the channel somebody read tells what the state is, and  *)
(* what must have happened since.                                          *)
(***************************************************************************)

(* The loop holds a session context.                                       *)
SessionPCs == {"dial", "world", "returned", "classify", "release", "decide"}

(* With presence off nothing ever changes.                                 *)
AloneInv ==
  ~PresenceEnabled =>
    /\ gen = 0
    /\ desired = Present
    /\ \A s \in Sessions : wpc[s] = "none"

(* Nobody holds a channel that does not exist yet.                         *)
ChannelInv ==
  /\ admChan <= gen
  /\ lastGen <= gen
  /\ \A s \in Sessions : wchan[s] <= gen

(* What the state is, counted from the channel of the last admission and,  *)
(* about to admit, from the channel Admit has read.                        *)
ParityInv ==
  /\ ~rested =>
       /\ gen = lastGen => desired = Present
       /\ gen = lastGen + 1 => desired = Parked
  /\ pc = "build" =>
       /\ gen = admChan => desired = Present
       /\ gen = admChan + 1 => desired = Parked

(* What the loop holds, and when.                                          *)
LoopInv ==
  /\ sess \in Sessions <=> pc \in SessionPCs
  /\ pc \in SessionPCs => ~rested
  /\ pc = "decide" => cancelled[sess]
  /\ first => pc \in {"top", "exited"}

(* A session context is cancelled, and a session's end taken for a park,   *)
(* only after the state has changed since the session was admitted.        *)
ParkInv ==
  /\ pc \in SessionPCs =>
       /\ wpc[sess] = "select" => lastGen <= wchan[sess]
       /\ wpc[sess] \in {"read", "cancel"} => lastGen < gen
  /\ pc \in SessionPCs \ {"decide"} /\ cancelled[sess] => lastGen < gen
  /\ pc \in {"release", "decide"} /\ parked /\ ~ctxDone => lastGen < gen
  /\ ~rested /\ (first \/ pc \in AskingPCs) /\ pc # "exited" => lastGen < gen

(* The invariant that the proofs show to be inductive.                     *)
IndInv ==
  /\ TypeOK
  /\ AloneInv
  /\ ChannelInv
  /\ ParityInv
  /\ LoopInv
  /\ ParkInv
  /\ NoLostWakeup
  /\ HotReadmission
  /\ ConnectedOnlyInWorld
  /\ OneLiveSession

-------------------------------------------------------------------------------
(***************************************************************************)
(* Liveness, under FairSpec.                                               *)
(***************************************************************************)

(* A park takes effect: the bot is out of the world, or the agent has      *)
(* changed its mind again, whatever the session or the loop was doing.     *)
ParkTakesEffect ==
  desired = Parked ~> (desired = Present \/ pc \in {"admitWait", "exited"})

(* Every session's watcher ends once the session does; none is leaked.     *)
WatcherEnds ==
  \A s \in Sessions : cancelled[s] ~> wpc[s] = "none"

-------------------------------------------------------------------------------
(***************************************************************************)
(* The gate the loop waits on keeps the contract of module Gate.  Admit    *)
(* decides when it reads the state, the caller leaves when it calls        *)
(* release, and the session context is due to end once the state has       *)
(* changed since Admit read it, since the first change is to parked.       *)
(***************************************************************************)
Caller ==
  IF pc \in AskingPCs THEN "asking"
  ELSE IF pc \in HoldingPCs THEN "in"
  ELSE IF pc = "exited" THEN "done"
  ELSE "out"

Due == pc \in HoldingPCs /\ (IF pc = "build" THEN admChan ELSE lastGen) < gen

Revoked == pc \in HoldingPCs \ {"build"} /\ cancelled[sess]

Contract == INSTANCE Gate WITH
  want <- desired, ended <- ctxDone, caller <- Caller, due <- Due, revoked <- Revoked

(* Admit lets the loop in only in the present state and fails only at      *)
(* shutdown, and a session is cancelled only if a park came after it was   *)
(* admitted.                                                               *)
GateSafe == Contract!Spec

===============================================================================
