--------------------------------- MODULE Relay ---------------------------------
(***************************************************************************)
(* What the poller promises the rest of the bot and the agent, with no     *)
(* request, ETag, status, ticker or log in it: it carries the state the    *)
(* agent wants to the bot, and what the bot is doing to the agent.         *)
(*                                                                         *)
(* Module Poller implements it, module Bot builds on it.                   *)
(***************************************************************************)
CONSTANTS
  InitialState,   (* PRESENCE_DEFAULT, one of States                        *)
  Nothing,        (* no status report, and none of Reports                  *)
  LateReports     (* reports given up on may still be recorded              *)

Present == "present"
Parked  == "parked"
States  == {Present, Parked}
Reports == [connected : BOOLEAN, state : States]

VARIABLES
  want,       (* the state the agent wants                                  *)
  answered,   (* the state in an answer not yet acted on, or "none"         *)
  desired,    (* the state the bot acts on                                  *)
  connected,  (* what the connect loop says of the bot                      *)
  posted,     (* the report under way                                       *)
  late,       (* a report given up on that may still be recorded            *)
  told,       (* the report the agent recorded last                         *)
  ended       (* the process context has ended                              *)

vars == <<want, answered, desired, connected, posted, late, told, ended>>

Init ==
  /\ want \in States
  /\ answered = "none"
  /\ desired = InitialState
  /\ connected = FALSE
  /\ posted = Nothing
  /\ late = Nothing
  /\ told = Nothing
  /\ ended = FALSE

(* One goroutine makes the calls, one at a time.                           *)
Idle == answered = "none" /\ posted = Nothing

(* The agent changes its mind.                                             *)
Change ==
  /\ want' \in States \ {want}
  /\ UNCHANGED <<answered, desired, connected, posted, late, told, ended>>

(* The agent answers with the state it wants now.                          *)
Answer ==
  /\ Idle
  /\ ~ended
  /\ answered' = want
  /\ UNCHANGED <<want, desired, connected, posted, late, told, ended>>

(* The bot acts on the answer.                                             *)
Act ==
  /\ answered # "none"
  /\ desired' = answered
  /\ answered' = "none"
  /\ UNCHANGED <<want, connected, posted, late, told, ended>>

(* A snapshot of the bot is sent.                                          *)
Post ==
  /\ Idle
  /\ posted' = [connected |-> connected, state |-> desired]
  /\ UNCHANGED <<want, answered, desired, connected, late, told, ended>>

Recorded ==
  /\ posted # Nothing
  /\ told' = posted
  /\ posted' = Nothing
  /\ UNCHANGED <<want, answered, desired, connected, late, ended>>

(* The report is refused or given up on.                                   *)
GivenUp ==
  /\ posted # Nothing
  /\ posted' = Nothing
  /\ late' = late \/ (LateReports /\ late' = posted)
  /\ UNCHANGED <<want, answered, desired, connected, told, ended>>

Arrives ==
  /\ late # Nothing
  /\ told' = late
  /\ late' = Nothing
  /\ UNCHANGED <<want, answered, desired, connected, posted, ended>>

(* The connect loop calls Connected.                                       *)
Connection ==
  /\ connected' = ~connected
  /\ UNCHANGED <<want, answered, desired, posted, late, told, ended>>

End ==
  /\ ~ended
  /\ ended' = TRUE
  /\ UNCHANGED <<want, answered, desired, connected, posted, late, told>>

Next ==
  \/ Change \/ Answer \/ Act \/ Post \/ Recorded \/ GivenUp \/ Arrives
  \/ Connection \/ End

Spec == Init /\ [][Next]_vars

(* The bot gets to follow the agent, unless the agent changes its mind     *)
(* again or the process ends.                                              *)
Follows == \A s \in States : want = s ~> (desired = s \/ want # s \/ ended)

(* The agent's record comes to say what the bot is doing, again and again. *)
Tells == []<>(ended \/ told = [connected |-> connected, state |-> desired])

===============================================================================
