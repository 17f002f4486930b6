---------------------------- MODULE MCConnectLoop ----------------------------
(***************************************************************************)
(* Model values and bounds for ConnectLoop.  Three delays are reachable    *)
(* (1, 2 and the ceiling 3, which is not a power of two).                  *)
(***************************************************************************)
EXTENDS ConnectLoop

CONSTANTS s1, s2, s3, none

MCSessions2 == {s1, s2}
MCSessions3 == {s1, s2, s3}

-------------------------------------------------------------------------------
(***************************************************************************)
(* What the documentation says of the loop and the code does not do.       *)
(***************************************************************************)

(* docs/operations.md: parked, the bot "reconnects as soon as the state    *)
(* returns to present, without a backoff".  So no resume should find the   *)
(* loop in a backoff wait.                                                 *)
ResumeSkipsBackoff ==
  [][~(pc = "wait" /\ desired = Parked /\ desired' = Present)]_vars

===============================================================================
