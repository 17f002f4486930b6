------------------------------- MODULE MCConfig -------------------------------
(* The variables of Config at and around every boundary Load checks.       *)
EXTENDS Config

MCChoices ==
  [v \in Variables |->
     CASE v = "MC_HOST"            -> {Unset, Text}
       [] v = "MC_USERNAME"        -> {Unset, Text}
       [] v = "MC_PORT"            -> {Unset, Text, 0, 65535, 65536}
       [] v = "MC_VIEW_DISTANCE"   -> {Unset, Text, 0, 64, 65, 256, 268}
       [] v = "RECONNECT_MIN_MS"   -> {Unset, 0, 1, 300001, 3600001}
       [] v = "RECONNECT_MAX_MS"   -> {Unset, 0, 4999, 5000, 3600000, 3600001}
       [] v = "PRESENCE_URL"       -> {Unset, Text, WebURL}
       [] v = "PRESENCE_TOKEN"     -> {Unset, Text}
       [] v = "PRESENCE_ACTOR_ID"  -> {Unset, Text, Actor}
       [] v = "PRESENCE_DEFAULT"   -> {Unset, Text, "present", "parked"}
       [] v = "PRESENCE_POLL_MS"   -> {Unset, Text, 0, 999, 1000, 600000, 600001}]

===============================================================================
