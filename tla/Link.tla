---------------------------------- MODULE Link ---------------------------------
(***************************************************************************)
(* What the function session promises the connect loop that calls it, with *)
(* no packet, hook or respawn in it: one connection, which it leaves only  *)
(* when it must, always leaves then, and never leaves open.                *)
(*                                                                         *)
(* Module Session implements it, module Bot builds on it.                  *)
(***************************************************************************)
VARIABLES
  ctxDone,   (* the session context has ended                               *)
  stage,     (* how far the session is                                      *)
  open,      (* it has an open connection to the server                     *)
  result     (* what it returns                                             *)

vars == <<ctxDone, stage, open, result>>

Stages == {"called", "joining", "joined", "leaving", "returned"}

Init ==
  /\ ctxDone \in BOOLEAN
  /\ stage = "called"
  /\ open = FALSE
  /\ result = "error"

Dial ==
  /\ stage = "called"
  /\ \/ stage' = "joining" /\ open' = TRUE
     \/ stage' = "returned" /\ UNCHANGED open
  /\ UNCHANGED <<ctxDone, result>>

(* The loop is told that the bot is in the world, by a call of spawned;    *)
(* the connection may have closed again by then.                           *)
Join ==
  /\ stage = "joining"
  /\ stage' = "joined"
  /\ UNCHANGED <<ctxDone, open, result>>

(* A session that has joined is left only when its connection is closed or *)
(* its context has ended, and nil is returned only for the latter.         *)
Leave ==
  /\ \/ stage = "joining"
     \/ stage = "joined" /\ (ctxDone \/ ~open)
  /\ stage' = "leaving"
  /\ result' = "error" \/ (ctxDone /\ result' = "nil")
  /\ UNCHANGED <<ctxDone, open>>

(* FAULT: the connection is left to the server to close.                   *)
ReturnOpen ==
  /\ stage = "leaving"
  /\ stage' = "returned"
  /\ UNCHANGED <<ctxDone, open, result>>

(* The deferred Close.                                                     *)
Return ==
  /\ stage = "leaving"
  /\ stage' = "returned"
  /\ open' = FALSE
  /\ UNCHANGED <<ctxDone, result>>

(* The connection closes: the server's doing, or that of the context.      *)
Drop ==
  /\ open
  /\ open' = FALSE
  /\ UNCHANGED <<ctxDone, stage, result>>

ContextEnds ==
  /\ ~ctxDone
  /\ ctxDone' = TRUE
  /\ UNCHANGED <<stage, open, result>>

Next == Dial \/ Join \/ Leave \/ Return \/ Drop \/ ContextEnds

Spec == Init /\ [][Next]_vars

(* A session ends once its context has, or its connection.                 *)
Ends == (ctxDone \/ (stage # "called" /\ ~open)) ~> stage = "returned"

===============================================================================
