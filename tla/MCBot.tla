--------------------------------- MODULE MCBot --------------------------------
(***************************************************************************)
(* Model values for Bot.  One session context is enough here: what a       *)
(* watcher left over from an earlier session can do is ConnectLoop's       *)
(* business, and checked there.                                            *)
(***************************************************************************)
EXTENDS Bot

CONSTANTS s1, none

MCSessions == {s1}

===============================================================================
