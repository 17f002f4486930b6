------------------------------- MODULE Session --------------------------------
(***************************************************************************)
(* One session of the bot: the function session of cmd/bot/main.go with    *)
(* the Respawner of internal/liveness/respawn.go it drives, seen from the  *)
(* moment the connect loop calls it until it returns.                      *)
(*                                                                         *)
(* Besides the session goroutine there are the hook that closes the        *)
(* connection when the session context ends (context.AfterFunc), the       *)
(* gophertunnel connection, and the server.  The last two are outside the  *)
(* repository: packets arrive in order and none is lost while the          *)
(* connection is open, WritePacket fails only on a closed connection, and  *)
(* the server plays its side of the respawn handshake the way the comments *)
(* on Respawner describe it.                                               *)
(*                                                                         *)
(* A definition marked FAULT is the one after it with a mistake in it,     *)
(* which a property below must notice.                                     *)
(***************************************************************************)
EXTENDS Integers, Sequences

CONSTANTS
  MaxDeaths,      (* bound: how often the player is killed                  *)
  MaxStrays       (* bound: Respawn packets sent outside a death            *)

ASSUME SessionAssumption == MaxDeaths \in Nat /\ MaxStrays \in Nat

VARIABLES
  ctxDone,   (* the session context has ended: a park or a shutdown         *)
  pc,        (* where session is                                            *)
  pk,        (* the packet ReadPacket returned last                         *)
  dead,      (* Respawner.dead                                              *)
  result,    (* what session returns: "nil" or "error"                      *)
  hook,      (* the AfterFunc that closes the connection: unset, armed,     *)
             (* running or over                                             *)
  conn,      (* the connection                                              *)
  inbox,     (* packets on their way to the bot                             *)
  outbox,    (* packets on their way to the server                          *)
  player,    (* the player on the server                                    *)
  radius,    (* the server holds a view distance for the player             *)
  deaths, strays   (* counts towards the bounds                             *)

botVars    == <<pc, pk, dead, result>>
serverVars == <<player, radius, deaths, strays>>
vars == <<ctxDone, botVars, hook, conn, inbox, outbox, serverVars>>

SessionPCs == {"negotiate", "dial", "hook", "spawn", "spawned", "request", "check",
               "read", "handle", "again", "unhook", "close", "returned"}

Init ==
  /\ ctxDone \in BOOLEAN
  /\ pc = "negotiate"
  /\ pk = "RadiusUpdated"
  /\ dead = FALSE
  /\ result = "error"
  /\ hook = "unset"
  /\ conn = "none"
  /\ inbox = <<>>
  /\ outbox = <<>>
  /\ player = "alive"
  /\ radius = FALSE
  /\ deaths = 0
  /\ strays = 0

-------------------------------------------------------------------------------
(***************************************************************************)
(* The session goroutine.                                                  *)
(***************************************************************************)

(* Ping the server for its protocol number, or make do without it.         *)
Negotiate ==
  /\ pc = "negotiate"
  /\ pc' = "dial"
  /\ UNCHANGED <<ctxDone, pk, dead, result, hook, conn, inbox, outbox, serverVars>>

(* DialContext returns, within its 30 s.  A dial that completes as the     *)
(* context ends may still succeed.                                         *)
Dial ==
  /\ pc = "dial"
  /\ \/ pc' = "returned" /\ UNCHANGED conn
     \/ pc' = "hook" /\ conn' = "open"
  /\ UNCHANGED <<ctxDone, pk, dead, result, hook, inbox, outbox, serverVars>>

(* context.AfterFunc; with the context already done it runs at once.       *)
Hook ==
  /\ pc = "hook"
  /\ pc' = "spawn"
  /\ hook' = "armed"
  /\ UNCHANGED <<ctxDone, pk, dead, result, conn, inbox, outbox, serverVars>>

(* DoSpawnContext returns nil: the player is in the world.  The connection *)
(* may close at this moment, or have closed just before.                   *)
Spawn ==
  /\ pc = "spawn"
  /\ pc' = "spawned"
  /\ UNCHANGED <<ctxDone, pk, dead, result, hook, conn, inbox, outbox, serverVars>>

(* session calls spawned, whatever has become of the connection.           *)
Spawned ==
  /\ pc = "spawned"
  /\ pc' = "request"
  /\ UNCHANGED <<ctxDone, pk, dead, result, hook, conn, inbox, outbox, serverVars>>

(* DoSpawnContext returns an error, which it does at the latest when its   *)
(* context ends or the connection closes.                                  *)
SpawnFails ==
  /\ pc = "spawn"
  /\ pc' = "unhook"
  /\ UNCHANGED <<ctxDone, pk, dead, result, hook, conn, inbox, outbox, serverVars>>

(* WritePacket of p: an error, and nothing sent, on a closed connection.   *)
Write(p, onSuccess, onError) ==
  IF conn = "open"
  THEN outbox' = Append(outbox, p) /\ pc' = onSuccess
  ELSE UNCHANGED outbox /\ pc' = onError

RequestRadius ==
  /\ pc = "request"
  /\ Write("RequestRadius", "check", "unhook")
  /\ UNCHANGED <<ctxDone, pk, dead, result, hook, conn, inbox, serverVars>>

(* The head of the packet loop.                                            *)
Check ==
  /\ pc = "check"
  /\ IF ctxDone THEN pc' = "unhook" /\ result' = "nil"
     ELSE pc' = "read" /\ UNCHANGED result
  /\ UNCHANGED <<ctxDone, pk, dead, hook, conn, inbox, outbox, serverVars>>

ReadPacket ==
  /\ pc = "read"
  /\ inbox # <<>>
  /\ pk' = Head(inbox)
  /\ inbox' = Tail(inbox)
  /\ pc' = "handle"
  /\ UNCHANGED <<ctxDone, dead, result, hook, conn, outbox, serverVars>>

(* FAULT: any end of the connection is a clean one.                        *)
ReadFailsCleanly ==
  /\ pc = "read"
  /\ conn = "closed"
  /\ result' = "nil"
  /\ pc' = "unhook"
  /\ UNCHANGED <<ctxDone, pk, dead, hook, conn, inbox, outbox, serverVars>>

(* A closed connection; packets still queued may be returned before.       *)
ReadFails ==
  /\ pc = "read"
  /\ conn = "closed"
  /\ result' = IF ctxDone THEN "nil" ELSE "error"
  /\ pc' = "unhook"
  /\ UNCHANGED <<ctxDone, pk, dead, hook, conn, inbox, outbox, serverVars>>

(* FAULT: the death is noted and the respawn not requested.                *)
HandleDeathSilently ==
  /\ pc = "handle"
  /\ pk = "DeathInfo"
  /\ dead' = TRUE
  /\ pc' = "check"
  /\ UNCHANGED <<ctxDone, pk, result, hook, conn, inbox, outbox, serverVars>>

(* Respawner.Handle on a DeathInfo.  A request that cannot be written is   *)
(* only logged.                                                            *)
HandleDeath ==
  /\ pc = "handle"
  /\ pk = "DeathInfo"
  /\ dead' = TRUE
  /\ Write("PlayerAction", "check", "check")
  /\ UNCHANGED <<ctxDone, pk, result, hook, conn, inbox, serverVars>>

(* FAULT: a stray Respawn packet is confirmed too.                         *)
AsksForConfirmationStray == pk = "Ready"

(* FAULT: the first of the two Respawn packets is confirmed.               *)
AsksForConfirmationEarly == dead /\ pk \in {"Searching", "Ready"}

(* The one Respawn packet Handle answers.                                  *)
AsksForConfirmation == dead /\ pk = "Ready"

(* FAULT: the radius is not asked for again after a respawn.               *)
HandleReadyAndForget ==
  /\ pc = "handle"
  /\ AsksForConfirmation
  /\ dead' = FALSE
  /\ Write("ClientReady", "check", "check")
  /\ UNCHANGED <<ctxDone, pk, result, hook, conn, inbox, serverVars>>

(* Respawner.Handle on that packet.                                        *)
HandleReady ==
  /\ pc = "handle"
  /\ AsksForConfirmation
  /\ dead' = FALSE
  /\ Write("ClientReady", "again", "check")
  /\ UNCHANGED <<ctxDone, pk, result, hook, conn, inbox, serverVars>>

(* Every other packet, a Respawn outside a death among them.               *)
HandleOther ==
  /\ pc = "handle"
  /\ pk # "DeathInfo"
  /\ ~AsksForConfirmation
  /\ pc' = "check"
  /\ UNCHANGED <<ctxDone, pk, dead, result, hook, conn, inbox, outbox, serverVars>>

(* Back in the world: the radius is asked for again.                       *)
RequestAgain ==
  /\ pc = "again"
  /\ Write("RequestRadius", "check", "unhook")
  /\ UNCHANGED <<ctxDone, pk, dead, result, hook, conn, inbox, serverVars>>

(* The deferred calls, last deferred first: stop, then conn.Close.         *)
Unhook ==
  /\ pc = "unhook"
  /\ pc' = "close"
  /\ hook' = IF hook = "armed" THEN "over" ELSE hook
  /\ UNCHANGED <<ctxDone, pk, dead, result, conn, inbox, outbox, serverVars>>

Close ==
  /\ pc = "close"
  /\ pc' = "returned"
  /\ conn' = "closed"
  /\ UNCHANGED <<ctxDone, pk, dead, result, hook, inbox, outbox, serverVars>>

Returned ==
  /\ pc = "returned"
  /\ UNCHANGED vars

-------------------------------------------------------------------------------
(***************************************************************************)
(* The session context and the hook on it.                                 *)
(***************************************************************************)

ContextEnds ==
  /\ ~ctxDone
  /\ ctxDone' = TRUE
  /\ UNCHANGED <<botVars, hook, conn, inbox, outbox, serverVars>>

HookStarts ==
  /\ hook = "armed"
  /\ ctxDone
  /\ hook' = "running"
  /\ UNCHANGED <<ctxDone, botVars, conn, inbox, outbox, serverVars>>

(* FAULT: the hook does not close the connection.                          *)
HookRunsIdle ==
  /\ hook = "running"
  /\ hook' = "over"
  /\ UNCHANGED <<ctxDone, botVars, conn, inbox, outbox, serverVars>>

HookRuns ==
  /\ hook = "running"
  /\ hook' = "over"
  /\ conn' = "closed"
  /\ UNCHANGED <<ctxDone, botVars, inbox, outbox, serverVars>>

-------------------------------------------------------------------------------
(***************************************************************************)
(* The server.                                                             *)
(***************************************************************************)

(* The player is in the world and the connection up.                       *)
Online == conn = "open" /\ pc \notin {"hook", "spawn"}

(* A kick, a restart, a network failure.                                   *)
ServerDrops ==
  /\ conn = "open"
  /\ conn' = "closed"
  /\ UNCHANGED <<ctxDone, botVars, hook, inbox, outbox, serverVars>>

Kill ==
  /\ Online
  /\ player = "alive"
  /\ deaths < MaxDeaths
  /\ deaths' = deaths + 1
  /\ player' = "dead"
  /\ inbox' = Append(inbox, "DeathInfo")
  /\ UNCHANGED <<ctxDone, botVars, hook, conn, outbox, radius, strays>>

(* A Respawn outside a death, on a dimension change for instance.          *)
Stray ==
  /\ Online
  /\ player = "alive"
  /\ strays < MaxStrays
  /\ strays' = strays + 1
  /\ inbox' = Append(inbox, "Ready")
  /\ UNCHANGED <<ctxDone, botVars, hook, conn, outbox, player, radius, deaths>>

(* The request to respawn; the first Respawn packet answers it.            *)
ServerTakesAction ==
  /\ Online
  /\ outbox # <<>>
  /\ Head(outbox) = "PlayerAction"
  /\ outbox' = Tail(outbox)
  /\ IF player = "dead"
     THEN player' = "searching" /\ inbox' = Append(inbox, "Searching")
     ELSE UNCHANGED <<player, inbox>>
  /\ UNCHANGED <<ctxDone, botVars, hook, conn, radius, deaths, strays>>

(* A place to spawn is found; the second Respawn packet says so.           *)
ServerFindsPlace ==
  /\ Online
  /\ player = "searching"
  /\ player' = "ready"
  /\ inbox' = Append(inbox, "Ready")
  /\ UNCHANGED <<ctxDone, botVars, hook, conn, outbox, radius, deaths, strays>>

(* The confirmation: the player is replaced, and its view distance gone.   *)
ServerTakesReady ==
  /\ Online
  /\ outbox # <<>>
  /\ Head(outbox) = "ClientReady"
  /\ outbox' = Tail(outbox)
  /\ IF player = "ready"
     THEN player' = "alive" /\ radius' = FALSE
     ELSE UNCHANGED <<player, radius>>
  /\ UNCHANGED <<ctxDone, botVars, hook, conn, inbox, deaths, strays>>

ServerTakesRadius ==
  /\ Online
  /\ outbox # <<>>
  /\ Head(outbox) = "RequestRadius"
  /\ outbox' = Tail(outbox)
  /\ radius' = TRUE
  /\ inbox' = Append(inbox, "RadiusUpdated")
  /\ UNCHANGED <<ctxDone, botVars, hook, conn, player, deaths, strays>>

-------------------------------------------------------------------------------
SessionStep ==
  \/ Negotiate \/ Dial \/ Hook \/ Spawned \/ RequestRadius \/ Check \/ ReadPacket
  \/ ReadFails \/ HandleDeath \/ HandleReady \/ HandleOther \/ RequestAgain \/ Unhook \/ Close

HookStep == HookStarts \/ HookRuns

ServerReplies ==
  ServerTakesAction \/ ServerFindsPlace \/ ServerTakesReady \/ ServerTakesRadius

Next ==
  \/ SessionStep
  \/ Spawn
  \/ SpawnFails
  \/ HookStep
  \/ ContextEnds
  \/ ServerReplies
  \/ ServerDrops
  \/ Kill
  \/ Stray
  \/ Returned

Spec == Init /\ [][Next]_vars

(* The goroutines run; a dial has its timeout; DoSpawnContext gives up at  *)
(* the latest when its context ends or its connection closes; the server,  *)
(* as long as the connection is up, takes what it is sent.  ReadPacket     *)
(* returns only when there is something to return.                         *)
Fairness ==
  /\ WF_vars(SessionStep)
  /\ WF_vars((ctxDone \/ conn = "closed") /\ SpawnFails)
  /\ WF_vars(HookStep)
  /\ WF_vars(ServerReplies)

FairSpec == Spec /\ Fairness

-------------------------------------------------------------------------------
(***************************************************************************)
(* Safety.                                                                 *)
(***************************************************************************)

(* The packet p is on its way to the bot, or in its hands.                 *)
Inbound(p) == (\E i \in 1..Len(inbox) : inbox[i] = p) \/ (pc = "handle" /\ pk = p)
Outbound(p) == \E i \in 1..Len(outbox) : outbox[i] = p

(* A respawn is confirmed only when the server waits for it: neither a     *)
(* stray Respawn nor the first of the two is answered.                     *)
ConfirmsOnlyWhenAsked ==
  Online /\ Outbound("ClientReady") => player = "ready"

(* A dead player is never left lying: at every stage of the handshake      *)
(* somebody holds the packet that moves it on, and when it is the bot's    *)
(* turn to confirm, the Respawner still knows that it is dead.             *)
HandshakeMovesOn ==
  Online =>
    /\ player = "dead" => Inbound("DeathInfo") \/ Outbound("PlayerAction")
    /\ player = "ready" => (Inbound("Ready") /\ dead) \/ Outbound("ClientReady")

(* The view distance the server dropped with the player it replaced is     *)
(* asked for again: a living player has it, or the request is on its way.  *)
RadiusRestored ==
  Online /\ player = "alive" /\ ~radius =>
    pc \in {"spawned", "request", "again", "unhook", "close"} \/ Outbound("RequestRadius")

-------------------------------------------------------------------------------
(***************************************************************************)
(* Liveness, under FairSpec.                                               *)
(***************************************************************************)

(* A killed player is back in the world with its view distance, unless the *)
(* session ends first.                                                     *)
RespawnCompletes ==
  player = "dead" ~> ((player = "alive" /\ radius) \/ conn # "open")

-------------------------------------------------------------------------------
(***************************************************************************)
(* A session keeps the promise of module Link, safety and, under FairSpec, *)
(* liveness.                                                               *)
(***************************************************************************)
Stage ==
  CASE pc \in {"negotiate", "dial"}       -> "called"
    [] pc \in {"hook", "spawn", "spawned"} -> "joining"
    [] pc \in {"unhook", "close"}          -> "leaving"
    [] pc = "returned"                     -> "returned"
    [] OTHER                               -> "joined"

Promise == INSTANCE Link WITH stage <- Stage, open <- conn = "open"

(* Whatever the server, the network and the context do, and whatever way   *)
(* session returns: spawned is called at most once and only after a dial   *)
(* that succeeded, from then on the session is left only when its context  *)
(* or its connection has ended, it is nil only for the former, so that the *)
(* loop never takes a dropped connection for an intended end, and no       *)
(* connection is left behind.                                              *)
LinkKept == Promise!Spec

(* The session ends once its context has, a park or a shutdown, also when  *)
(* the server is silent; and once its connection has, at whatever step it  *)
(* is then.                                                                *)
SessionEnds == Promise!Ends

===============================================================================
