------------------------------ MODULE ConfigProofs ------------------------------
(***************************************************************************)
(* Proofs about module Config, whatever the variables are set to and       *)
(* however often: Load accepts the settings of the documented table (but   *)
(* for the one it narrows) and no other, and changes none of them.         *)
(***************************************************************************)
EXTENDS Config, TLAPS

(* What a variable can be set to.                                          *)
Settings == {Unset, Text} \cup UNION {Choices[v] : v \in Variables}

(* The variables read as numbers.                                          *)
NumberVariables ==
  {"MC_PORT", "MC_VIEW_DISTANCE", "RECONNECT_MIN_MS", "RECONNECT_MAX_MS", "PRESENCE_POLL_MS"}

(* An environment.                                                         *)
EnvType(e) ==
  /\ e \in [Variables -> Settings]
  /\ \A v \in Variables : e[v] # Refused
  /\ \A v \in NumberVariables : e[v] \in Int \cup {Unset, Text}

(* What runs, or does not, is what Load made of the environment.           *)
ConfigInv ==
  /\ EnvType(env)
  /\ pc \in {"stopped", "running", "refused"}
  /\ pc # "stopped" => cfg = Load(env)
  /\ pc = "running" => cfg # Refused
  /\ pc = "refused" => cfg = Refused

(* An error is none of the numbers, and no unset variable is a number.     *)
LEMMA Apart ==
  /\ Unset \notin Int /\ Text \notin Int /\ Refused \notin Int
  /\ Unset # Text /\ Refused # Unset /\ Refused # Text
BY SettingsAssumption

(* What positiveInt returns: the number set, or the default for none.      *)
LEMMA PositiveInt ==
  ASSUME NEW x \in Int \cup {Unset, Text}, NEW def \in Int, NEW max \in Int
  PROVE  /\ positiveInt(x, def, max) # Refused <=> x = Unset \/ x \in 1..max
         /\ x = Unset => positiveInt(x, def, max) = def
         /\ x \in 1..max => positiveInt(x, def, max) = x
<1>1. CASE x = Unset
  BY <1>1, Apart DEF positiveInt
<1>2. CASE x = Text
  BY <1>2, Apart DEF positiveInt, IsNumber
<1>3. CASE x \in Int
  BY <1>3, Apart DEF positiveInt, IsNumber
<1> QED
  BY <1>1, <1>2, <1>3

(* And positiveUint8, with a ceiling that fits.                            *)
LEMMA PositiveUint8 ==
  ASSUME NEW x \in Int \cup {Unset, Text}, NEW def \in Int, NEW max \in Int, max <= 255
  PROVE  /\ positiveUint8(x, def, max) # Refused <=> x = Unset \/ x \in 1..max
         /\ x = Unset => positiveUint8(x, def, max) = def
         /\ x \in 1..max => positiveUint8(x, def, max) = x
<1>1. CASE x = Unset
  BY <1>1, Apart DEF positiveUint8
<1>2. CASE x = Text
  BY <1>2, Apart DEF positiveUint8, IsNumber
<1>3. CASE x \in Int
  BY <1>3, Apart DEF positiveUint8, IsNumber
<1> QED
  BY <1>1, <1>2, <1>3

(* A number within its bounds, or none at all.                             *)
Within(x, hi) == x = Unset \/ x \in 1..hi

(* So both readers return a number for what is within the bounds, and an   *)
(* error for anything else.                                                *)
LEMMA ReadsNumbers ==
  ASSUME NEW x \in Int \cup {Unset, Text}, NEW def \in Int, NEW max \in Int
  PROVE  /\ positiveInt(x, def, max) # Refused <=> Within(x, max)
         /\ positiveInt(x, def, max) # Refused => positiveInt(x, def, max) \in Int
<1>1. x \in 1..max => x \in Int
  OBVIOUS
<1> QED
  BY <1>1, PositiveInt DEF Within

(* So does positiveUint8, as long as the bound is one of a byte.           *)
LEMMA ReadsBytes ==
  ASSUME NEW x \in Int \cup {Unset, Text}, NEW def \in Int, NEW max \in Int, max <= 255
  PROVE  /\ positiveUint8(x, def, max) # Refused <=> Within(x, max)
         /\ positiveUint8(x, def, max) # Refused => positiveUint8(x, def, max) \in Int
<1>1. x \in 1..max => x \in Int
  OBVIOUS
<1>2. positiveUint8(x, def, max) # Refused <=> x = Unset \/ x \in 1..max
  BY PositiveUint8
<1>3. /\ x = Unset => positiveUint8(x, def, max) = def
      /\ x \in 1..max => positiveUint8(x, def, max) = x
  BY PositiveUint8
<1> QED
  BY <1>1, <1>2, <1>3 DEF Within

(* The interval of the poller.                                             *)
LEMMA PollInterval ==
  ASSUME NEW e, EnvType(e)
  PROVE  /\ PollMs(e) # Refused <=> e["PRESENCE_POLL_MS"] = Unset
                                    \/ e["PRESENCE_POLL_MS"] \in minPollMs..maxPollMs
         /\ PollMs(e) # Refused => PollMs(e) \in Int
<1> DEFINE x   == e["PRESENCE_POLL_MS"]
           def == 10000
           ms  == positiveInt(x, def, maxPollMs)
           min == minPollMs
<1>1. x \in Int \cup {Unset, Text}
  BY DEF EnvType, NumberVariables
<1>2. def \in Int /\ maxPollMs \in Int /\ min \in 1..def /\ min <= maxPollMs
  BY SMT DEF maxPollMs, minPollMs
<1>3. PollMs(e) = IF ms = Refused THEN Refused ELSE IF ms < min THEN Refused ELSE ms
  BY SMT DEF PollMs
<1> HIDE DEF x, def, min
<1>4. /\ ms # Refused <=> x = Unset \/ x \in 1..maxPollMs
      /\ x = Unset => ms = def
      /\ x \in 1..maxPollMs => ms = x
  BY <1>1, <1>2, PositiveInt
<1> HIDE DEF ms
<1>5. CASE x = Unset
  <2>1. PollMs(e) = def
    BY <1>2, <1>3, <1>4, <1>5
  <2> QED
    BY <1>2, <1>5, <2>1, Apart DEF x
<1>6. CASE x = Text
  <2>1. PollMs(e) = Refused
    BY <1>2, <1>3, <1>4, <1>6, Apart
  <2> QED
    BY <1>2, <1>6, <2>1, Apart DEF x, min
<1>7. CASE x \in Int /\ x \in min..maxPollMs
  <2>1. PollMs(e) = x
    BY <1>2, <1>3, <1>4, <1>7, Apart
  <2> QED
    BY <1>7, <2>1, Apart DEF x, min
<1>8. CASE x \in Int /\ x \notin min..maxPollMs
  <2>1. PollMs(e) = Refused
    BY <1>2, <1>3, <1>4, <1>8, Apart
  <2> QED
    BY <1>8, <2>1, Apart DEF x, min
<1> QED
  BY <1>1, <1>5, <1>6, <1>7, <1>8

(* With PRESENCE_URL set, the other four are all needed; without it, none  *)
(* is looked at.                                                           *)
PresenceWanted(e) ==
  e["PRESENCE_URL"] # Unset =>
    /\ e["PRESENCE_URL"] = WebURL
    /\ e["PRESENCE_TOKEN"] # Unset
    /\ e["PRESENCE_ACTOR_ID"] = Actor
    /\ e["PRESENCE_DEFAULT"] \in {"present", "parked"}
    /\ \/ e["PRESENCE_POLL_MS"] = Unset
       \/ e["PRESENCE_POLL_MS"] \in minPollMs..maxPollMs

(* What loadPresence returns when it returns no error.                     *)
Presences == [enabled : BOOLEAN, default : {Unset, "present", "parked"}, pollMs : Int]

(* loadPresence returns an error exactly for what is not wanted.           *)
LEMMA PresenceAccepted ==
  ASSUME NEW e, EnvType(e)
  PROVE  /\ PresenceWanted(e) => loadPresence(e) \in Presences
         /\ loadPresence(e) # Refused <=> PresenceWanted(e)
<1>1. e["PRESENCE_TOKEN"] # Refused
  BY DEF EnvType, Variables
<1>2. required(e["PRESENCE_TOKEN"]) = Refused <=> e["PRESENCE_TOKEN"] = Unset
  BY <1>1, Apart DEF required
<1>3. Refused \notin Presences
  BY SettingsAssumption DEF Presences
<1>4. CASE e["PRESENCE_URL"] = Unset
  <2>1. loadPresence(e) = [enabled |-> FALSE, default |-> Unset, pollMs |-> 0]
    BY <1>4 DEF loadPresence
  <2>2. PresenceWanted(e)
    BY <1>4 DEF PresenceWanted
  <2>3. loadPresence(e) \in Presences
    BY <2>1 DEF Presences
  <2> QED
    BY <1>3, <2>2, <2>3
<1>5. CASE e["PRESENCE_URL"] # Unset /\ PresenceWanted(e)
  <2>1. PollMs(e) # Refused /\ PollMs(e) \in Int
    BY <1>5, PollInterval DEF PresenceWanted
  <2>2. loadPresence(e) =
          [enabled |-> TRUE, default |-> e["PRESENCE_DEFAULT"], pollMs |-> PollMs(e)]
    BY <1>2, <1>5, <2>1 DEF loadPresence, PresenceWanted
  <2>3. loadPresence(e) \in Presences
    BY <1>5, <2>1, <2>2 DEF Presences, PresenceWanted
  <2> QED
    BY <1>3, <1>5, <2>3
<1>6. CASE e["PRESENCE_URL"] # Unset /\ ~PresenceWanted(e)
  <2>1. loadPresence(e) = Refused
    BY <1>2, <1>6, PollInterval DEF loadPresence, PresenceWanted
  <2> QED
    BY <1>6, <2>1
<1> QED
  BY <1>4, <1>5, <1>6

-------------------------------------------------------------------------------
(* What an environment has to be for Load to accept it.                    *)
Accepted(e) ==
  /\ Unset \notin {e["MC_HOST"], e["MC_USERNAME"]}
  /\ Within(e["MC_PORT"], maxPort)
  /\ Within(e["MC_VIEW_DISTANCE"], maxViewDistance)
  /\ Within(e["RECONNECT_MIN_MS"], maxBackoffMs)
  /\ Within(e["RECONNECT_MAX_MS"], maxBackoffMs)
  /\ PresenceWanted(e)
  /\ Ordered(positiveInt(e["RECONNECT_MIN_MS"], 5000, maxBackoffMs),
             positiveInt(e["RECONNECT_MAX_MS"], 300000, maxBackoffMs))

(* The radius Load returns.                                                *)
View(e) == positiveUint8(e["MC_VIEW_DISTANCE"], maxTickDistance, maxViewDistance)

(* Load returns an error exactly for what is not accepted, and otherwise   *)
(* what its readers returned.                                              *)
LEMMA LoadAccepts ==
  ASSUME NEW e, EnvType(e)
  PROVE  /\ Load(e) # Refused <=> Accepted(e)
         /\ Load(e) # Refused => Load(e).view = View(e) /\ View(e) # Refused
<1> DEFINE defPort == 19132
           defMin == 5000
           defMax == 300000
           port == positiveInt(e["MC_PORT"], defPort, maxPort)
           view == View(e)
           min  == positiveInt(e["RECONNECT_MIN_MS"], defMin, maxBackoffMs)
           max  == positiveInt(e["RECONNECT_MAX_MS"], defMax, maxBackoffMs)
           pres == loadPresence(e)
           host == e["MC_HOST"]
           user == e["MC_USERNAME"]
<1>1. Load(e) =
        IF \/ Refused \in {required(host), required(user)}
           \/ port = Refused \/ view = Refused \/ min = Refused \/ max = Refused
           \/ pres = Refused
        THEN Refused
        ELSE IF ~Ordered(min, max) THEN Refused
        ELSE [port |-> port, view |-> view, min |-> min, max |-> max, presence |-> pres]
  BY SMT DEF Load, View
<1>2. /\ defPort \in Int /\ defMin \in Int /\ defMax \in Int /\ maxTickDistance \in Int
      /\ maxPort \in Int /\ maxBackoffMs \in Int /\ maxViewDistance \in Int
      /\ maxViewDistance <= 255
  BY SMT DEF maxTickDistance, maxPort, maxBackoffMs, maxViewDistance
<1>3. /\ e["MC_PORT"] \in Int \cup {Unset, Text}
      /\ e["MC_VIEW_DISTANCE"] \in Int \cup {Unset, Text}
      /\ e["RECONNECT_MIN_MS"] \in Int \cup {Unset, Text}
      /\ e["RECONNECT_MAX_MS"] \in Int \cup {Unset, Text}
      /\ host # Refused /\ user # Refused
  BY DEF EnvType, NumberVariables, Variables
<1>4. Accepted(e) <=>
        /\ host # Unset /\ user # Unset
        /\ Within(e["MC_PORT"], maxPort)
        /\ Within(e["MC_VIEW_DISTANCE"], maxViewDistance)
        /\ Within(e["RECONNECT_MIN_MS"], maxBackoffMs)
        /\ Within(e["RECONNECT_MAX_MS"], maxBackoffMs)
        /\ PresenceWanted(e)
        /\ Ordered(min, max)
  BY SMT DEF Accepted
<1> HIDE DEF defPort, defMin, defMax
<1>5. /\ port # Refused <=> Within(e["MC_PORT"], maxPort)
      /\ port # Refused => port \in Int
  BY <1>2, <1>3, ReadsNumbers
<1>6. /\ view # Refused <=> Within(e["MC_VIEW_DISTANCE"], maxViewDistance)
      /\ view # Refused => view \in Int
  <2>1. view = positiveUint8(e["MC_VIEW_DISTANCE"], maxTickDistance, maxViewDistance)
    BY DEF View
  <2> HIDE DEF view
  <2> QED
    BY <1>2, <1>3, <2>1, ReadsBytes
<1>7. /\ min # Refused <=> Within(e["RECONNECT_MIN_MS"], maxBackoffMs)
      /\ min # Refused => min \in Int
  BY <1>2, <1>3, ReadsNumbers
<1>8. /\ max # Refused <=> Within(e["RECONNECT_MAX_MS"], maxBackoffMs)
      /\ max # Refused => max \in Int
  BY <1>2, <1>3, ReadsNumbers
<1>9. /\ pres # Refused <=> PresenceWanted(e)
      /\ pres # Refused => pres \in Presences
  BY PresenceAccepted
<1>10. /\ required(host) = Refused <=> host = Unset
       /\ required(user) = Refused <=> user = Unset
  BY <1>3 DEF required
<1> HIDE DEF port, view, min, max, pres, host, user
<1>11. CASE Accepted(e)
  <2>1. /\ port \in Int /\ view \in Int /\ min \in Int /\ max \in Int /\ pres \in Presences
        /\ view # Refused
    BY <1>4, <1>5, <1>6, <1>7, <1>8, <1>9, <1>11
  <2>2. Load(e) = [port |-> port, view |-> view, min |-> min, max |-> max, presence |-> pres]
    BY <1>1, <1>4, <1>5, <1>6, <1>7, <1>8, <1>9, <1>10, <1>11
  <2>3. Load(e) # Refused
    BY <2>1, <2>2, SettingsAssumption DEF Presences
  <2> QED
    BY <1>11, <2>1, <2>2, <2>3 DEF view
<1>12. CASE ~Accepted(e)
  <2>1. Load(e) = Refused
    BY <1>1, <1>4, <1>5, <1>6, <1>7, <1>8, <1>9, <1>10, <1>12
  <2> QED
    BY <1>12, <2>1
<1> QED
  BY <1>11, <1>12

-------------------------------------------------------------------------------
(* The environment is edited while nothing runs, and read once at a start. *)
LEMMA InitConfig == Init => ConfigInv
<1> SUFFICES ASSUME Init PROVE ConfigInv
  OBVIOUS
<1>1. env \in [Variables -> Settings]
  BY DEF Init, Settings
<1>2. \A v \in Variables : env[v] \in {Unset, Text}
  BY DEF Init
<1>3. NumberVariables \subseteq Variables
  BY DEF NumberVariables, Variables
<1>4. EnvType(env)
  BY <1>1, <1>2, <1>3, Apart DEF EnvType
<1> QED
  BY <1>4 DEF Init, ConfigInv

(* Editing a variable, starting and stopping keep the invariant.           *)
LEMMA NextConfig == ConfigInv /\ [Next]_vars => ConfigInv'
<1> SUFFICES ASSUME ConfigInv, [Next]_vars PROVE ConfigInv'
  OBVIOUS
<1>1. ASSUME NEW v \in Variables, Edit(v) PROVE ConfigInv'
  <2>1. PICK x \in Choices[v] : env' = [env EXCEPT ![v] = x]
    BY <1>1 DEF Edit
  <2>2. pc = "stopped" /\ pc' = "stopped"
    BY <1>1 DEF Edit
  <2>3. x \in Settings /\ x # Refused
    BY SettingsAssumption DEF Settings
  <2>4. v \in NumberVariables => x \in Int \cup {Unset, Text}
    BY SettingsAssumption DEF NumberVariables
  <2>5. env' \in [Variables -> Settings]
    BY <2>1, <2>3 DEF ConfigInv, EnvType
  <2>6. \A w \in Variables : env'[w] # Refused
    BY <2>1, <2>3 DEF ConfigInv, EnvType
  <2>7. NumberVariables \subseteq Variables
    BY DEF NumberVariables, Variables
  <2>8. \A w \in NumberVariables : env'[w] \in Int \cup {Unset, Text}
    BY <2>1, <2>4, <2>7 DEF ConfigInv, EnvType
  <2>9. EnvType(env')
    BY <2>5, <2>6, <2>8 DEF EnvType
  <2> QED
    BY <2>2, <2>9 DEF ConfigInv
<1>2. CASE Start
  <2>1. UNCHANGED env /\ cfg' = Load(env) /\ cfg' = Load(env')
        /\ pc' = IF cfg' = Refused THEN "refused" ELSE "running"
    BY <1>2 DEF Start
  <2> QED
    BY <2>1 DEF ConfigInv
<1>3. CASE Stop
  BY <1>3 DEF Stop, ConfigInv
<1>4. CASE UNCHANGED vars
  BY <1>4 DEF vars, ConfigInv
<1> QED
  BY <1>1, <1>2, <1>3, <1>4 DEF Next

(* What runs is what Load made of the environment.                         *)
THEOREM ConfigInvariance == Spec => []ConfigInv
BY InitConfig, NextConfig, PTL DEF Spec

(* The radius in force is the one asked for, or the default, and never 0.  *)
THEOREM RadiusIsAsRequested == Spec => []RadiusAsRequested
<1>1. ConfigInv => RadiusAsRequested
  <2> SUFFICES ASSUME ConfigInv, pc = "running"
               PROVE  cfg.view > 0 /\ cfg.view = InForce("MC_VIEW_DISTANCE", 12)
    BY DEF RadiusAsRequested
  <2> DEFINE x == env["MC_VIEW_DISTANCE"]
  <2>1. cfg.view = View(env) /\ View(env) # Refused
    BY LoadAccepts DEF ConfigInv
  <2>2. x \in Int \cup {Unset, Text}
    BY DEF ConfigInv, EnvType, NumberVariables
  <2>3. maxTickDistance = 12 /\ maxTickDistance \in Int
        /\ maxViewDistance \in Int /\ maxViewDistance <= 255
    BY DEF maxTickDistance, maxViewDistance
  <2>4. View(env) = positiveUint8(x, maxTickDistance, maxViewDistance)
    BY DEF View
  <2> HIDE DEF x
  <2>5. \/ x = Unset /\ View(env) = maxTickDistance
        \/ x # Unset /\ View(env) = x /\ x \in 1..maxViewDistance
    BY <2>1, <2>2, <2>3, <2>4, PositiveUint8, Apart
  <2> QED
    BY <2>1, <2>3, <2>5 DEF InForce, x
<1> QED
  BY <1>1, ConfigInvariance, PTL

(* Without PRESENCE_URL the other variables of presence change nothing.    *)
THEOREM StrayIsIgnored == Spec => []StrayIgnored
<1>1. ConfigInv => StrayIgnored
  <2> DEFINE bare == [v \in Variables |-> IF v \in PresenceVariables THEN Unset ELSE env[v]]
  <2> SUFFICES ASSUME ConfigInv, pc # "stopped", env["PRESENCE_URL"] = Unset
               PROVE  cfg = Load(bare)
    BY DEF StrayIgnored
  <2>1. /\ bare["PRESENCE_URL"] = Unset
        /\ bare["MC_HOST"] = env["MC_HOST"]
        /\ bare["MC_USERNAME"] = env["MC_USERNAME"]
        /\ bare["MC_PORT"] = env["MC_PORT"]
        /\ bare["MC_VIEW_DISTANCE"] = env["MC_VIEW_DISTANCE"]
        /\ bare["RECONNECT_MIN_MS"] = env["RECONNECT_MIN_MS"]
        /\ bare["RECONNECT_MAX_MS"] = env["RECONNECT_MAX_MS"]
    BY DEF Variables, PresenceVariables
  <2> HIDE DEF bare
  <2>2. loadPresence(bare) = loadPresence(env)
    BY <2>1 DEF loadPresence
  <2>3. Load(bare) = Load(env)
    BY <2>1, <2>2, SMT DEF Load
  <2> QED
    BY <2>3 DEF ConfigInv
<1> QED
  BY <1>1, ConfigInvariance, PTL

-------------------------------------------------------------------------------
(* What the table asks of a number is what its reader asks of it.          *)
LEMMA TableOfNumbers ==
  ASSUME NEW v, env[v] \in Int \cup {Unset, Text}, NEW hi \in Int
  PROVE  Within(env[v], hi) <=> InDocumentedRange(v, hi) /\ env[v] # Text
<1>1. CASE env[v] \in {Unset, Text}
  BY <1>1, Apart DEF Within, InDocumentedRange, IsNumber
<1>2. CASE env[v] \in Int
  BY <1>2, Apart DEF Within, InDocumentedRange, IsNumber
<1> QED
  BY <1>1, <1>2

(* What positiveInt makes of such a number is what is in force.            *)
LEMMA NumberInForce ==
  ASSUME NEW v, env[v] \in Int \cup {Unset, Text}, NEW def \in Int, NEW hi \in Int,
         Within(env[v], hi)
  PROVE  positiveInt(env[v], def, hi) = InForce(v, def)
<1>1. CASE env[v] = Unset
  BY <1>1, PositiveInt DEF InForce
<1>2. CASE env[v] # Unset
  <2>1. env[v] \in 1..hi
    BY <1>2 DEF Within
  <2> QED
    BY <1>2, <2>1, PositiveInt DEF InForce
<1> QED
  BY <1>1, <1>2

(* The table on presence, and the minimum it does not mention.             *)
LEMMA TableOfPresence ==
  ASSUME EnvType(env)
  PROVE  PresenceWanted(env) <=>
           /\ env["PRESENCE_URL"] # Unset =>
                /\ env["PRESENCE_URL"] = WebURL
                /\ env["PRESENCE_TOKEN"] # Unset
                /\ env["PRESENCE_ACTOR_ID"] = Actor
                /\ env["PRESENCE_DEFAULT"] \in {"present", "parked"}
                /\ env["PRESENCE_POLL_MS"] # Text
                /\ InDocumentedRange("PRESENCE_POLL_MS", maxPollMs)
           /\ ~PollTooShort
<1> DEFINE x == env["PRESENCE_POLL_MS"]
<1>1. x \in Int \cup {Unset, Text}
  BY DEF EnvType, NumberVariables
<1>2. maxPollMs \in Int /\ minPollMs \in Int /\ minPollMs >= 1
  BY SMT DEF maxPollMs, minPollMs
<1>3. Within(x, maxPollMs) <=> InDocumentedRange("PRESENCE_POLL_MS", maxPollMs) /\ x # Text
  BY <1>1, <1>2, TableOfNumbers
<1>4. x = Unset \/ x \in minPollMs..maxPollMs
        <=> Within(x, maxPollMs) /\ x \notin 1..(minPollMs - 1)
  <2>1. CASE x \in {Unset, Text}
    BY <1>2, <2>1, Apart DEF Within
  <2>2. CASE x \in Int
    BY <1>2, <2>2, Apart DEF Within
  <2> QED
    BY <1>1, <2>1, <2>2
<1> QED
  BY <1>3, <1>4 DEF PresenceWanted, PollTooShort

(* What Load accepts is the table, but for a poll below the minimum.       *)
LEMMA TableIsAccepted ==
  ASSUME EnvType(env)
  PROVE  Accepted(env) <=> Documented /\ ~PollTooShort
<1> DEFINE defMin == 5000
           defMax == 300000
           Times == InForce("RECONNECT_MAX_MS", defMax) >= InForce("RECONNECT_MIN_MS", defMin)
           Presence ==
             env["PRESENCE_URL"] # Unset =>
               /\ env["PRESENCE_URL"] = WebURL
               /\ env["PRESENCE_TOKEN"] # Unset
               /\ env["PRESENCE_ACTOR_ID"] = Actor
               /\ env["PRESENCE_DEFAULT"] \in {"present", "parked"}
               /\ env["PRESENCE_POLL_MS"] # Text
               /\ InDocumentedRange("PRESENCE_POLL_MS", maxPollMs)
<1>1. Documented <=>
        /\ Unset \notin {env["MC_HOST"], env["MC_USERNAME"]}
        /\ InDocumentedRange("MC_PORT", maxPort) /\ env["MC_PORT"] # Text
        /\ InDocumentedRange("MC_VIEW_DISTANCE", maxViewDistance)
        /\ env["MC_VIEW_DISTANCE"] # Text
        /\ InDocumentedRange("RECONNECT_MIN_MS", maxBackoffMs)
        /\ env["RECONNECT_MIN_MS"] # Text
        /\ InDocumentedRange("RECONNECT_MAX_MS", maxBackoffMs)
        /\ env["RECONNECT_MAX_MS"] # Text
        /\ Times
        /\ Presence
  BY SMT DEF Documented, maxPort, maxViewDistance, maxBackoffMs, maxPollMs
<1>2. Accepted(env) <=>
        /\ Unset \notin {env["MC_HOST"], env["MC_USERNAME"]}
        /\ Within(env["MC_PORT"], maxPort)
        /\ Within(env["MC_VIEW_DISTANCE"], maxViewDistance)
        /\ Within(env["RECONNECT_MIN_MS"], maxBackoffMs)
        /\ Within(env["RECONNECT_MAX_MS"], maxBackoffMs)
        /\ PresenceWanted(env)
        /\ Ordered(positiveInt(env["RECONNECT_MIN_MS"], defMin, maxBackoffMs),
                   positiveInt(env["RECONNECT_MAX_MS"], defMax, maxBackoffMs))
  BY SMT DEF Accepted
<1>3. /\ defMin \in Int /\ defMax \in Int
      /\ maxPort \in Int /\ maxBackoffMs \in Int /\ maxViewDistance \in Int
  BY SMT DEF maxPort, maxBackoffMs, maxViewDistance
<1>4. /\ env["MC_PORT"] \in Int \cup {Unset, Text}
      /\ env["MC_VIEW_DISTANCE"] \in Int \cup {Unset, Text}
      /\ env["RECONNECT_MIN_MS"] \in Int \cup {Unset, Text}
      /\ env["RECONNECT_MAX_MS"] \in Int \cup {Unset, Text}
  BY DEF EnvType, NumberVariables
<1>5. PresenceWanted(env) <=> Presence /\ ~PollTooShort
  BY TableOfPresence
<1> HIDE DEF defMin, defMax, Presence
<1>6. /\ Within(env["MC_PORT"], maxPort)
           <=> InDocumentedRange("MC_PORT", maxPort) /\ env["MC_PORT"] # Text
      /\ Within(env["MC_VIEW_DISTANCE"], maxViewDistance)
           <=> /\ InDocumentedRange("MC_VIEW_DISTANCE", maxViewDistance)
               /\ env["MC_VIEW_DISTANCE"] # Text
      /\ Within(env["RECONNECT_MIN_MS"], maxBackoffMs)
           <=> /\ InDocumentedRange("RECONNECT_MIN_MS", maxBackoffMs)
               /\ env["RECONNECT_MIN_MS"] # Text
      /\ Within(env["RECONNECT_MAX_MS"], maxBackoffMs)
           <=> /\ InDocumentedRange("RECONNECT_MAX_MS", maxBackoffMs)
               /\ env["RECONNECT_MAX_MS"] # Text
  BY <1>3, <1>4, TableOfNumbers
<1>7. ASSUME Within(env["RECONNECT_MIN_MS"], maxBackoffMs),
             Within(env["RECONNECT_MAX_MS"], maxBackoffMs)
      PROVE  Ordered(positiveInt(env["RECONNECT_MIN_MS"], defMin, maxBackoffMs),
                     positiveInt(env["RECONNECT_MAX_MS"], defMax, maxBackoffMs)) <=> Times
  <2>1. /\ positiveInt(env["RECONNECT_MIN_MS"], defMin, maxBackoffMs)
             = InForce("RECONNECT_MIN_MS", defMin)
        /\ positiveInt(env["RECONNECT_MAX_MS"], defMax, maxBackoffMs)
             = InForce("RECONNECT_MAX_MS", defMax)
    BY <1>3, <1>4, <1>7, NumberInForce
  <2> QED
    BY <2>1 DEF Ordered
<1> HIDE DEF Times
<1> QED
  BY <1>1, <1>2, <1>5, <1>6, <1>7

(* The process runs with the settings of the table and with no other.      *)
THEOREM RunsOnTheTable == Spec => []RunsOnlyDocumented
<1>1. ConfigInv => RunsOnlyDocumented
  <2> SUFFICES ASSUME ConfigInv, pc # "stopped"
               PROVE  pc = "running" <=> Documented /\ ~PollTooShort
    BY DEF RunsOnlyDocumented
  <2>1. pc = "running" <=> Load(env) # Refused
    BY DEF ConfigInv
  <2> QED
    BY <2>1, LoadAccepts, TableIsAccepted DEF ConfigInv
<1> QED
  BY <1>1, ConfigInvariance, PTL

================================================================================
