--------------------------------- MODULE Gate ---------------------------------
(***************************************************************************)
(* What a presence.Gate promises the connect loop (the interface of        *)
(* internal/presence/gate.go): Admit blocks until the bot should be in the *)
(* world, then returns a context the gate cancels when it no longer        *)
(* should, and fails only when the process context ends.  Nothing here     *)
(* says how: no lock, no channel, no watcher goroutine.                    *)
(***************************************************************************)
CONSTANT InitialState

Present == "present"
Parked  == "parked"

VARIABLES
  want,     (* the state the agent asks for, as far as the bot knows        *)
  ended,    (* the process context has ended                                *)
  caller,   (* the connect loop: out, asking (in Admit), in, or done        *)
  due,      (* a park has come since the loop was let in                    *)
  revoked   (* the gate has cancelled the context it returned               *)

gvars == <<want, ended, caller, due, revoked>>

Init ==
  /\ want = InitialState
  /\ ended = FALSE
  /\ caller = "out"
  /\ due = FALSE
  /\ revoked = FALSE

(* The agent changes its mind.                                             *)
Flip ==
  /\ want' \in {Present, Parked} \ {want}
  /\ due' = (due \/ caller = "in")
  /\ UNCHANGED <<ended, caller, revoked>>

End ==
  /\ ended' = TRUE
  /\ UNCHANGED <<want, caller, due, revoked>>

Ask ==
  /\ caller = "out"
  /\ caller' = "asking"
  /\ UNCHANGED <<want, ended, due, revoked>>

Grant ==
  /\ caller = "asking"
  /\ want = Present
  /\ caller' = "in"
  /\ UNCHANGED <<want, ended, due, revoked>>

(* Admit returns an error and the loop gives up.                           *)
Fail ==
  /\ caller = "asking"
  /\ ended
  /\ caller' = "done"
  /\ UNCHANGED <<want, ended, due, revoked>>

(* A park that a resume followed at once may go unnoticed, or end the      *)
(* session all the same.                                                   *)
Revoke ==
  /\ caller = "in"
  /\ due
  /\ revoked' = TRUE
  /\ UNCHANGED <<want, ended, caller, due>>

(* The loop calls release, for whatever reason the session ended.          *)
Leave ==
  /\ caller = "in"
  /\ caller' = "out"
  /\ due' = FALSE
  /\ revoked' = FALSE
  /\ UNCHANGED <<want, ended>>

(* The loop stops between two sessions.                                    *)
Quit ==
  /\ caller = "out"
  /\ ended
  /\ caller' = "done"
  /\ UNCHANGED <<want, ended, due, revoked>>

Next == Flip \/ End \/ Ask \/ Grant \/ Fail \/ Revoke \/ Leave \/ Quit

Spec == Init /\ [][Next]_gvars

===============================================================================
