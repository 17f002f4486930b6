-------------------------------- MODULE Config --------------------------------
(***************************************************************************)
(* internal/config/config.go: Load, which turns the environment into the   *)
(* settings every other part relies on or refuses to start.                *)
(*                                                                         *)
(* A setting is what is left of a variable after strings.TrimSpace: Unset  *)
(* (also when blank), a number, or a text, of which only the kinds Load    *)
(* tells apart matter.  Somebody edits the deployment and the process is   *)
(* started again, any number of times.                                     *)
(*                                                                         *)
(* A definition marked FAULT is the one after it with a mistake in it,     *)
(* which a property below must notice.                                     *)
(***************************************************************************)
EXTENDS Integers

CONSTANTS
  Unset,        (* the variable is missing or blank                         *)
  Text,         (* a text that fits where any does                          *)
  WebURL,       (* an http or https URL with a host                         *)
  Actor,        (* an actor id                                              *)
  Refused,      (* a value Load returns an error for                        *)
  Choices,      (* Choices[v]: bound: what variable v is set to             *)
  MaxEdits      (* bound: edits, over all the starts                        *)

Variables == {"MC_HOST", "MC_USERNAME", "MC_PORT", "MC_VIEW_DISTANCE",
              "RECONNECT_MIN_MS", "RECONNECT_MAX_MS", "PRESENCE_URL", "PRESENCE_TOKEN",
              "PRESENCE_ACTOR_ID", "PRESENCE_DEFAULT", "PRESENCE_POLL_MS"}

PresenceVariables ==
  {"PRESENCE_TOKEN", "PRESENCE_ACTOR_ID", "PRESENCE_DEFAULT", "PRESENCE_POLL_MS"}

maxTickDistance == 12
maxViewDistance == 64
maxPort         == 65535
maxBackoffMs    == 3600000
maxPollMs       == 600000
minPollMs       == 1000

(* A value is a number, or one of the texts told apart; an error is none.  *)
ASSUME SettingsAssumption ==
  /\ \A x \in {Unset, Text, WebURL, Actor, Refused} : x \notin Int
  /\ Unset \notin {Text, WebURL, Actor, "present", "parked"}
  /\ Text \notin {WebURL, Actor, "present", "parked"}
  /\ Refused \notin {Unset, Text}
  /\ \A v \in Variables : Refused \notin Choices[v]
  /\ Refused \notin
       [enabled : BOOLEAN, default : {Unset, "present", "parked"}, pollMs : Int]
  /\ Refused \notin
       [port : Int, view : Int, min : Int, max : Int,
        presence : [enabled : BOOLEAN, default : {Unset, "present", "parked"}, pollMs : Int]]
  /\ \A v \in {"MC_PORT", "MC_VIEW_DISTANCE", "RECONNECT_MIN_MS", "RECONNECT_MAX_MS",
                "PRESENCE_POLL_MS"} :
       Choices[v] \subseteq Int \cup {Unset, Text}

(* strconv.Atoi and ParseUint succeed.                                     *)
IsNumber(x) == x \notin {Unset, Text}

VARIABLES
  env,          (* the environment                                          *)
  pc,           (* "stopped", "running", or "refused": config_invalid       *)
  cfg,          (* what Load returned; Refused when nothing runs             *)
  edits         (* how many edits there have been                           *)

vars == <<env, pc, cfg, edits>>

-------------------------------------------------------------------------------
(***************************************************************************)
(* The readers of one variable.                                            *)
(***************************************************************************)

required(x) == IF x = Unset THEN Refused ELSE x

(* FAULT: the ceiling itself is refused.                                   *)
positiveIntBelow(x, def, max) ==
  IF x = Unset THEN def
  ELSE IF ~IsNumber(x) THEN Refused
  ELSE IF x <= 0 \/ x >= max THEN Refused
  ELSE x

positiveInt(x, def, max) ==
  IF x = Unset THEN def
  ELSE IF ~IsNumber(x) THEN Refused
  ELSE IF x <= 0 \/ x > max THEN Refused
  ELSE x

(* FAULT: what config.go had before: any positive number, and a conversion *)
(* to the width of the packet later.                                       *)
positiveUint8Wrapping(x, def, max) ==
  IF x = Unset THEN def
  ELSE IF ~IsNumber(x) THEN Refused
  ELSE IF x <= 0 THEN Refused
  ELSE x % 256

(* ParseUint at 8 bits refuses what does not fit before it is compared.    *)
positiveUint8(x, def, max) ==
  IF x = Unset THEN def
  ELSE IF ~IsNumber(x) THEN Refused
  ELSE IF x \notin 0..255 THEN Refused
  ELSE IF x = 0 \/ x > max THEN Refused
  ELSE x

-------------------------------------------------------------------------------
(***************************************************************************)
(* Load.                                                                   *)
(***************************************************************************)

PollMs(e) ==
  LET ms == positiveInt(e["PRESENCE_POLL_MS"], 10000, maxPollMs)
  IN  IF ms = Refused THEN Refused ELSE IF ms < minPollMs THEN Refused ELSE ms

(* FAULT: the variables of presence are looked at with presence off, too.  *)
loadPresenceAlways(e) ==
  IF \/ e["PRESENCE_URL"] \notin {Unset, WebURL}
     \/ e["PRESENCE_DEFAULT"] \notin {Unset, "present", "parked"}
     \/ PollMs(e) = Refused
  THEN Refused
  ELSE [enabled |-> e["PRESENCE_URL"] # Unset, default |-> e["PRESENCE_DEFAULT"], pollMs |-> PollMs(e)]

(* loadPresence.  The token and the actor id are passed on as they are.    *)
loadPresence(e) ==
  IF e["PRESENCE_URL"] = Unset
  THEN [enabled |-> FALSE, default |-> Unset, pollMs |-> 0]
  ELSE IF \/ e["PRESENCE_URL"] # WebURL
          \/ required(e["PRESENCE_TOKEN"]) = Refused
          \/ e["PRESENCE_ACTOR_ID"] # Actor
          \/ e["PRESENCE_DEFAULT"] \notin {"present", "parked"}
          \/ PollMs(e) = Refused
  THEN Refused
  ELSE [enabled |-> TRUE, default |-> e["PRESENCE_DEFAULT"], pollMs |-> PollMs(e)]

Ordered(min, max) == max >= min

Load(e) ==
  LET port == positiveInt(e["MC_PORT"], 19132, maxPort)
      view == positiveUint8(e["MC_VIEW_DISTANCE"], maxTickDistance, maxViewDistance)
      min  == positiveInt(e["RECONNECT_MIN_MS"], 5000, maxBackoffMs)
      max  == positiveInt(e["RECONNECT_MAX_MS"], 300000, maxBackoffMs)
      pres == loadPresence(e)
  IN  IF \/ Refused \in {required(e["MC_HOST"]), required(e["MC_USERNAME"])}
         \/ port = Refused
         \/ view = Refused
         \/ min = Refused
         \/ max = Refused
         \/ pres = Refused
      THEN Refused
      ELSE IF ~Ordered(min, max) THEN Refused
      ELSE [port |-> port, view |-> view, min |-> min, max |-> max, presence |-> pres]

-------------------------------------------------------------------------------
(***************************************************************************)
(* The behaviour.                                                          *)
(***************************************************************************)

(* The first deployment sets what has to be set, and no more.              *)
Init ==
  /\ env = [v \in Variables |-> IF v \in {"MC_HOST", "MC_USERNAME"} THEN Text ELSE Unset]
  /\ pc = "stopped"
  /\ cfg = Refused
  /\ edits = 0

Edit(v) ==
  /\ pc = "stopped"
  /\ edits < MaxEdits
  /\ env' \in {[env EXCEPT ![v] = x] : x \in Choices[v] \ {env[v]}}
  /\ edits' = edits + 1
  /\ UNCHANGED <<pc, cfg>>

(* main's call of Load: the process exits on an error.                     *)
Start ==
  /\ pc = "stopped"
  /\ cfg' = Load(env)
  /\ pc' = IF cfg' = Refused THEN "refused" ELSE "running"
  /\ UNCHANGED <<env, edits>>

(* The deployment is taken down to be edited again.                        *)
Stop ==
  /\ pc \in {"running", "refused"}
  /\ pc' = "stopped"
  /\ cfg' = Refused
  /\ UNCHANGED <<env, edits>>

Next == (\E v \in Variables : Edit(v)) \/ Start \/ Stop

Spec == Init /\ [][Next]_vars

-------------------------------------------------------------------------------
(***************************************************************************)
(* Properties.                                                             *)
(***************************************************************************)

(* A setting that is in force although nobody wrote it down, or the one    *)
(* that was written down.                                                  *)
InForce(v, def) == IF env[v] = Unset THEN def ELSE env[v]

(* The radius the session requests (cfg.ViewDistance, sent as it is) is    *)
(* the one that was asked for, and is never zero: a number too wide for    *)
(* the packet is refused at startup and does not become another radius.    *)
RadiusAsRequested ==
  pc = "running" => cfg.view > 0 /\ cfg.view = InForce("MC_VIEW_DISTANCE", 12)

(* With PRESENCE_URL unset the other variables of presence make no         *)
(* difference: a stray one neither stops the bot nor changes what it does. *)
StrayIgnored ==
  (pc # "stopped" /\ env["PRESENCE_URL"] = Unset) =>
    cfg = Load([v \in Variables |-> IF v \in PresenceVariables THEN Unset ELSE env[v]])

(* The ranges of the table in README.md.                                   *)
InDocumentedRange(v, hi) == IsNumber(env[v]) => env[v] \in 1..hi

Documented ==
  /\ Unset \notin {env["MC_HOST"], env["MC_USERNAME"]}
  /\ InDocumentedRange("MC_PORT", 65535)
  /\ InDocumentedRange("MC_VIEW_DISTANCE", 64)
  /\ InDocumentedRange("RECONNECT_MIN_MS", 3600000)
  /\ InDocumentedRange("RECONNECT_MAX_MS", 3600000)
  /\ Text \notin {env[v] : v \in {"MC_PORT", "MC_VIEW_DISTANCE", "RECONNECT_MIN_MS", "RECONNECT_MAX_MS"}}
  /\ InForce("RECONNECT_MAX_MS", 300000) >= InForce("RECONNECT_MIN_MS", 5000)
  /\ env["PRESENCE_URL"] # Unset =>
       /\ env["PRESENCE_URL"] = WebURL
       /\ env["PRESENCE_TOKEN"] # Unset
       /\ env["PRESENCE_ACTOR_ID"] = Actor
       /\ env["PRESENCE_DEFAULT"] \in {"present", "parked"}
       /\ env["PRESENCE_POLL_MS"] # Text
       /\ InDocumentedRange("PRESENCE_POLL_MS", 600000)

(* The one disagreement between the table and the code: PRESENCE_POLL_MS   *)
(* has no range of 1..600000 but one of minPollMs..600000.                 *)
PollTooShort ==
  env["PRESENCE_URL"] # Unset /\ env["PRESENCE_POLL_MS"] \in 1..(minPollMs - 1)

(* The process runs with the settings the table allows and with no other,  *)
(* whatever sequence of edits led to them, the defaults taken into account *)
(* and one setting at a limit no excuse for another beyond it.             *)
RunsOnlyDocumented ==
  pc # "stopped" => (pc = "running" <=> Documented /\ ~PollTooShort)

===============================================================================
