------------------------------- MODULE MCPoller -------------------------------
(***************************************************************************)
(* Model values and bounds for Poller.  One status of every class the      *)
(* client and classify tell apart: a redirect, the two 4xx that ask for    *)
(* patience, a refusal proper and a server error.                          *)
(***************************************************************************)
EXTENDS Poller

MCVersions == 0..2
MCStatuses == {302, 408, 429, 403, 503}

-------------------------------------------------------------------------------
(* docs/operations.md: presence_fetch_unreachable is "Agent down, timing   *)
(* out, or answering 5xx, 408 or 429".  So a fetch that ran into the       *)
(* timeout, or lost its connection, in the middle of the body should be    *)
(* shown as unreachable.                                                   *)
TimeoutIsUnreachable ==
  [][pc = "fetched" /\ answer.state = Cut => shown'["fetch"] # "invalid"]_vars

===============================================================================
