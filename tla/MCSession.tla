------------------------------- MODULE MCSession ------------------------------
(***************************************************************************)
(* Session for model checking.  Three deaths let a handshake follow        *)
(* another, two stray Respawn packets let one come before and one between. *)
(***************************************************************************)
EXTENDS Session
===============================================================================
