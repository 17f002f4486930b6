------------------------------- MODULE PollTimer -------------------------------
(***************************************************************************)
(* How long a change at the agent takes to reach the bot: Reconciler.Run   *)
(* with its ticker and the timeout of the HTTP client, in discrete time.   *)
(* What the calls say is in module Poller; here only when they start and   *)
(* end matters.                                                            *)
(*                                                                         *)
(* A fetch is answered with the state the agent holds at some moment       *)
(* during the call, so news that comes a moment later waits for the next   *)
(* fetch.  time.Ticker fires at fixed times whatever Run is doing, into a  *)
(* channel of one place, and a tick that finds it full is dropped.         *)
(*                                                                         *)
(* A definition marked FAULT is the one after it with a mistake in it,     *)
(* which a property below must notice.                                     *)
(***************************************************************************)
EXTENDS Naturals

CONSTANTS
  Interval,     (* PRESENCE_POLL_MS, in units of time                       *)
  Timeout,      (* presenceTimeout                                          *)
  MaxFailures   (* bound: fetches in a row that fail                        *)

ASSUME TimerAssumption ==
  /\ Interval \in Nat \ {0}
  /\ Timeout \in Nat \ {0}
  /\ MaxFailures \in Nat

VARIABLES
  pc,           (* where Run is: in a fetch, in a report or in the select   *)
  busy,         (* how long the call in flight has taken                    *)
  toTick,       (* time until the ticker fires                              *)
  ticks,        (* ticks waiting in the ticker's channel                    *)
  asked,        (* the agent has read its state for the fetch in flight     *)
  waiting,      (* there is news at the agent the bot does not have         *)
  \* History variables: the guards of the code do not read them.
  carried,      (* the news is in the answer to the fetch in flight         *)
  age,          (* how long the news has waited                             *)
  failures,     (* fetches that have failed since the last that did not     *)
  starts        (* time since the last two fetches started, newest first    *)

vars == <<pc, busy, toTick, ticks, asked, waiting, carried, age, failures, starts>>

(* The longest time from the start of a fetch to that of the next.         *)
Gap == IF Interval > 2 * Timeout THEN Interval ELSE 2 * Timeout

(* Ages beyond this are not told apart; no guard depends on it.            *)
Old == (MaxFailures + 1) * Gap + Timeout + 1
Older(t) == IF t < Old THEN t + 1 ELSE t

Init ==
  /\ pc = "fetch"
  /\ busy = 0
  /\ toTick = Interval
  /\ ticks = 0
  /\ asked = FALSE
  /\ waiting = FALSE
  /\ carried = FALSE
  /\ age = 0
  /\ failures = 0
  /\ starts = <<0, Old>>

-------------------------------------------------------------------------------
(* Somebody parks or resumes the bot.                                      *)
AgentChanges ==
  /\ ~waiting
  /\ waiting' = TRUE
  /\ age' = 0
  /\ UNCHANGED <<pc, busy, toTick, ticks, asked, carried, failures, starts>>

(* The agent takes the request and reads its state for the answer.         *)
AgentReads ==
  /\ pc = "fetch"
  /\ ~asked
  /\ asked' = TRUE
  /\ carried' = waiting
  /\ UNCHANGED <<pc, busy, toTick, ticks, waiting, age, failures, starts>>

(* The answer arrives, and set acts on it.                                 *)
FetchEnds ==
  /\ pc = "fetch"
  /\ asked
  /\ waiting' = (waiting /\ ~carried)
  /\ age' = IF waiting' THEN age ELSE 0
  /\ carried' = FALSE
  /\ failures' = 0
  /\ pc' = "report"
  /\ busy' = 0
  /\ UNCHANGED <<toTick, ticks, asked, starts>>

(* The fetch is refused, or the client gives up on it.                     *)
FetchFails ==
  /\ pc = "fetch"
  /\ failures < MaxFailures
  /\ failures' = failures + 1
  /\ carried' = FALSE
  /\ pc' = "report"
  /\ busy' = 0
  /\ UNCHANGED <<toTick, ticks, asked, waiting, age, starts>>

(* FAULT: the report is tried again until the agent takes it.              *)
ReportEndsIfTaken ==
  /\ pc = "report"
  /\ \/ pc' = "select" /\ busy' = 0
     \/ busy = Timeout /\ busy' = 0 /\ UNCHANGED pc
  /\ UNCHANGED <<toTick, ticks, asked, waiting, carried, age, failures, starts>>

(* The report is taken or given up on; either way Run goes on.             *)
ReportEnds ==
  /\ pc = "report"
  /\ pc' = "select"
  /\ busy' = 0
  /\ UNCHANGED <<toTick, ticks, asked, waiting, carried, age, failures, starts>>

(* Run takes a tick from the channel and fetches.                          *)
TakeTick ==
  /\ pc = "select"
  /\ ticks > 0
  /\ ticks' = ticks - 1
  /\ pc' = "fetch"
  /\ asked' = FALSE
  /\ starts' = <<0, starts[1]>>
  /\ UNCHANGED <<busy, toTick, waiting, carried, age, failures>>

(* FAULT: ticks queue up while Run is busy.                                *)
FireQueued == ticks' = IF ticks < 3 THEN ticks + 1 ELSE ticks

(* The ticker fires; a tick that finds the channel full is dropped.        *)
Fire == ticks' = 1

(* One unit of time passes.  No call outlives the client's timeout, and    *)
(* Run, in the select, takes a tick that is there at once.                 *)
TimePasses ==
  /\ pc \in {"fetch", "report"} => busy < Timeout
  /\ ~(pc = "select" /\ ticks > 0)
  /\ busy' = IF pc = "select" THEN 0 ELSE busy + 1
  /\ IF toTick = 1 THEN Fire ELSE UNCHANGED ticks
  /\ toTick' = IF toTick = 1 THEN Interval ELSE toTick - 1
  /\ age' = IF waiting THEN Older(age) ELSE 0
  /\ starts' = <<Older(starts[1]), Older(starts[2])>>
  /\ UNCHANGED <<pc, asked, waiting, carried, failures>>

-------------------------------------------------------------------------------
Next ==
  \/ AgentChanges \/ AgentReads
  \/ FetchEnds \/ FetchFails \/ ReportEnds \/ TakeTick
  \/ TimePasses

Spec == Init /\ [][Next]_vars

-------------------------------------------------------------------------------
(***************************************************************************)
(* Safety.                                                                 *)
(***************************************************************************)

(* How late news can be: a hung agent delays the next answer rather than   *)
(* stopping the poller.  Every failed fetch costs one more round, and a    *)
(* round is the interval or two timeouts, whichever is longer.             *)
NewsInTime ==
  age <= (failures + 1) * Gap + Timeout

(* However long Run was held up, it does not catch up by polling in a      *)
(* burst: any three fetches are spread over at least one interval.         *)
NoBurst ==
  [][TakeTick => starts[2] >= Interval]_vars

===============================================================================
