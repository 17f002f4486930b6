------------------------------ MODULE MCPollTimer ------------------------------
(***************************************************************************)
(* PollTimer in seconds, with PRESENCE_POLL_MS = 4000 and the client's     *)
(* timeout of 5 s: the two calls of a tick may outlast the interval twice, *)
(* so that ticks are dropped, or end well within it.                       *)
(***************************************************************************)
EXTENDS PollTimer

===============================================================================
