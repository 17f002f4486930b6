---------------------------- MODULE MCProtocolCheck ----------------------------
(***************************************************************************)
(* ProtocolCheck with two versions of each kind, which is all the program  *)
(* tells apart: equal and different.                                       *)
(***************************************************************************)
EXTENDS ProtocolCheck

(* The body of the pull request of protocol-check.yml: "Opened             *)
(* automatically by protocol-check.yml after the jdw-deployments           *)
(* version-check CronJob reported the server's current version".  So a job *)
(* whose check answers behind should go on to the step that opens it.      *)
BehindOpensBump ==
  job = "over" /\ ~byHand /\ exit = 1 /\ result = "behind" => bump = "run"

===============================================================================
