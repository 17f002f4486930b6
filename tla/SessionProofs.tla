----------------------------- MODULE SessionProofs -----------------------------
(***************************************************************************)
(* Proofs about module Session, for every number of deaths and of stray    *)
(* packets: that the session keeps the contract the connect loop relies    *)
(* on, and that the respawn handshake never gets stuck half way.  Liveness *)
(* is TLC's.                                                               *)
(***************************************************************************)
EXTENDS Session, SequenceTheorems, TLAPS

(* What a session relies on at each of its steps: there is no connection,  *)
(* and no hook to close one, before the dial has returned it, and no       *)
(* result but an error before session is on its way out.                   *)
LinkInv ==
  /\ ctxDone \in BOOLEAN
  /\ pc \in SessionPCs
  /\ result \in {"nil", "error"}
  /\ conn \in {"none", "open", "closed"}
  /\ pc \in {"negotiate", "dial"} => conn = "none" /\ hook = "unset"
  /\ pc \notin {"unhook", "close", "returned"} => result = "error"

(* The four stretches of code that Stage tells apart, and the end.         *)
LEMMA StageOf ==
  /\ pc \in {"negotiate", "dial"} => Stage = "called"
  /\ pc \in {"hook", "spawn", "spawned"} => Stage = "joining"
  /\ pc \in {"request", "check", "read", "handle", "again"} => Stage = "joined"
  /\ pc \in {"unhook", "close"} => Stage = "leaving"
  /\ pc = "returned" => Stage = "returned"
BY DEF Stage

(* When session is called, nothing has been done.                          *)
LEMMA InitInv == Init => LinkInv
BY DEF Init, LinkInv, SessionPCs

(* Each step of session, of the hook and of the server keeps the invariant. *)
LEMMA NextInv == LinkInv /\ [Next]_vars => LinkInv'
<1> SUFFICES ASSUME LinkInv, [Next]_vars PROVE LinkInv'
  OBVIOUS
<1> USE DEF LinkInv, SessionPCs, botVars, serverVars
<1>1. CASE Negotiate \/ Dial \/ Hook \/ Check \/ Unhook \/ Close
  BY <1>1 DEF Negotiate, Dial, Hook, Check, Unhook, Close
<1>2. CASE RequestRadius \/ RequestAgain
  BY <1>2 DEF RequestRadius, RequestAgain, Write
<1>3. CASE ReadPacket
  BY <1>3 DEF ReadPacket
<1>4. CASE ReadFails
  BY <1>4 DEF ReadFails
<1>5. CASE HandleDeath
  BY <1>5 DEF HandleDeath, Write
<1>6. CASE HandleReady
  BY <1>6 DEF HandleReady, Write
<1>7. CASE HandleOther
  BY <1>7 DEF HandleOther
<1>8. CASE Spawn \/ Spawned \/ SpawnFails
  BY <1>8 DEF Spawn, Spawned, SpawnFails
<1>9. CASE HookStep \/ ContextEnds \/ ServerDrops
  BY <1>9 DEF HookStep, HookStarts, HookRuns, ContextEnds, ServerDrops
<1>10. CASE ServerReplies
  <2>1. CASE ServerTakesAction
    BY <2>1 DEF ServerTakesAction
  <2>2. CASE ServerFindsPlace
    BY <2>2 DEF ServerFindsPlace
  <2>3. CASE ServerTakesReady
    BY <2>3 DEF ServerTakesReady
  <2>4. CASE ServerTakesRadius
    BY <2>4 DEF ServerTakesRadius
  <2> QED
    BY <1>10, <2>1, <2>2, <2>3, <2>4 DEF ServerReplies
<1>11. CASE Kill
  BY <1>11 DEF Kill
<1>12. CASE Stray
  BY <1>12 DEF Stray
<1>13. CASE Returned \/ UNCHANGED vars
  BY <1>13 DEF Returned, vars
<1> QED
  BY <1>1, <1>2, <1>3, <1>4, <1>5, <1>6, <1>7, <1>8, <1>9, <1>10, <1>11, <1>12, <1>13
     DEF Next, SessionStep

(* The strengthened invariant holds in every reachable state.              *)
THEOREM SessionInvariance == Spec => []LinkInv
BY InitInv, NextInv, PTL DEF Spec

(* A session that is called is the called session of Link.                 *)
LEMMA InitLink == Init => Promise!Init
BY DEF Init, Promise!Init, Stage

(* Every step of the session, the hook or the server is a step of Link or  *)
(* one it does not see.                                                    *)
LEMMA NextLink == LinkInv /\ LinkInv' /\ [Next]_vars => [Promise!Next]_Promise!vars
<1> SUFFICES ASSUME LinkInv, LinkInv', [Next]_vars
             PROVE  [Promise!Next]_Promise!vars
  OBVIOUS
<1> USE StageOf DEF LinkInv, SessionPCs, botVars, serverVars, Stage, Promise!Next, Promise!vars
<1>1. CASE Negotiate \/ Hook \/ Spawn \/ ReadPacket \/ HandleOther \/ Unhook
  BY <1>1 DEF Negotiate, Hook, Spawn, ReadPacket, HandleOther, Unhook
<1>2. CASE Dial
  BY <1>2 DEF Dial, Promise!Dial
<1>3. CASE Spawned
  BY <1>3 DEF Spawned, Promise!Join
<1>4. CASE SpawnFails \/ Check \/ ReadFails
  BY <1>4 DEF SpawnFails, Check, ReadFails, Promise!Leave
<1>5. CASE RequestRadius \/ RequestAgain
  BY <1>5 DEF RequestRadius, RequestAgain, Write, Promise!Leave
<1>6. CASE HandleDeath \/ HandleReady
  BY <1>6 DEF HandleDeath, HandleReady, Write
<1>7. CASE Close
  BY <1>7 DEF Close, Promise!Return
<1>8. CASE HookStep \/ ServerDrops
  BY <1>8 DEF HookStep, HookStarts, HookRuns, ServerDrops, Promise!Drop
<1>9. CASE ContextEnds
  BY <1>9 DEF ContextEnds, Promise!ContextEnds
<1>10. CASE ServerReplies
  BY <1>10 DEF ServerReplies, ServerTakesAction, ServerFindsPlace, ServerTakesReady,
       ServerTakesRadius
<1>11. CASE Kill \/ Stray \/ Returned \/ UNCHANGED vars
  BY <1>11 DEF Kill, Stray, Returned, vars
<1> QED
  BY <1>1, <1>2, <1>3, <1>4, <1>5, <1>6, <1>7, <1>8, <1>9, <1>10, <1>11
     DEF Next, SessionStep

(* A session implements the safety part of Link: it calls spawned at most  *)
(* once and only after the dial, leaves from then on only when its context *)
(* or its connection has ended, returns nil only for the former, and       *)
(* leaves no connection open.                                              *)
THEOREM LinkImplemented == Spec => LinkKept
<1>1. LinkInv /\ LinkInv' /\ [Next]_vars => [Promise!Next]_Promise!vars
  BY NextLink
<1> QED
  BY InitLink, SessionInvariance, <1>1, PTL DEF Spec, LinkKept, Promise!Spec

-------------------------------------------------------------------------------
(***************************************************************************)
(* The respawn handshake.  It lives in two queues, so the invariant speaks *)
(* of what is in a queue and of what is behind what.                       *)
(***************************************************************************)

(* The packet p is in the queue q.                                         *)
Has(q, p) == \E i \in 1..Len(q) : q[i] = p

(* There is a b in the queue q, somewhere behind an a.                     *)
Follows(q, a, b) == \E i, j \in 1..Len(q) : i < j /\ q[i] = a /\ q[j] = b

(* What joins a queue joins it behind all that is there.                   *)
LEMMA AppendQueue ==
  ASSUME NEW S, NEW q \in Seq(S), NEW x \in S
  PROVE  /\ Append(q, x) \in Seq(S)
         /\ \A p : Has(Append(q, x), p) <=> Has(q, p) \/ x = p
         /\ \A a, b : Follows(Append(q, x), a, b) <=> Follows(q, a, b) \/ (Has(q, a) /\ x = b)
<1>1. /\ Append(q, x) \in Seq(S)
      /\ Len(Append(q, x)) = Len(q) + 1
      /\ Len(q) \in Nat
      /\ \A i \in 1..Len(q) : Append(q, x)[i] = q[i]
      /\ Append(q, x)[Len(q) + 1] = x
  BY AppendProperties, LenProperties
<1>. DEFINE r == Append(q, x)
<1>. HIDE DEF r
<1>0. /\ Len(r) = Len(q) + 1
      /\ Len(q) \in Nat
      /\ \A i \in 1..Len(q) : i \in 1..Len(r) /\ r[i] = q[i]
      /\ \A i \in 1..Len(r) : i \in 1..Len(q) \/ i = Len(q) + 1
      /\ Len(q) + 1 \in 1..Len(r) /\ r[Len(q) + 1] = x
  BY <1>1 DEF r
<1>2. ASSUME NEW p PROVE Has(r, p) <=> Has(q, p) \/ x = p
  <2>1. Has(r, p) => Has(q, p) \/ x = p
    <3>1. SUFFICES ASSUME NEW i \in 1..Len(r), r[i] = p PROVE Has(q, p) \/ x = p
      BY DEF Has
    <3> QED
      BY <1>0, <3>1 DEF Has
  <2>2. Has(q, p) => Has(r, p)
    BY <1>0 DEF Has
  <2>3. x = p => Has(r, p)
    BY <1>0 DEF Has
  <2> QED
    BY <2>1, <2>2, <2>3
<1>3. ASSUME NEW a, NEW b
      PROVE  Follows(r, a, b) <=> Follows(q, a, b) \/ (Has(q, a) /\ x = b)
  <2>1. Follows(r, a, b) => Follows(q, a, b) \/ (Has(q, a) /\ x = b)
    <3>1. SUFFICES ASSUME NEW i \in 1..Len(r), NEW j \in 1..Len(r), i < j, r[i] = a, r[j] = b
                   PROVE  Follows(q, a, b) \/ (Has(q, a) /\ x = b)
      BY DEF Follows
    <3>2. i \in 1..Len(q) /\ q[i] = a
      BY <1>0, <3>1
    <3> QED
      BY <1>0, <3>1, <3>2 DEF Follows, Has
  <2>2. Follows(q, a, b) => Follows(r, a, b)
    <3>1. SUFFICES ASSUME NEW i \in 1..Len(q), NEW j \in 1..Len(q), i < j, q[i] = a, q[j] = b
                   PROVE  Follows(r, a, b)
      BY DEF Follows
    <3> QED
      BY <1>0, <3>1 DEF Follows
  <2>3. Has(q, a) /\ x = b => Follows(r, a, b)
    <3>1. SUFFICES ASSUME NEW i \in 1..Len(q), q[i] = a, x = b PROVE Follows(r, a, b)
      BY DEF Has
    <3>2. i < Len(q) + 1
      BY <1>0
    <3> QED
      BY <1>0, <3>1, <3>2 DEF Follows
  <2> QED
    BY <2>1, <2>2, <2>3
<1>4. r \in Seq(S)
  BY <1>1 DEF r
<1>. QED
  BY <1>2, <1>3, <1>4 DEF r

(* What leaves a queue leaves it at its head.                              *)
LEMMA TailQueue ==
  ASSUME NEW S, NEW q \in Seq(S), q # <<>>
  PROVE  /\ Tail(q) \in Seq(S)
         /\ \A p : Has(q, p) <=> Head(q) = p \/ Has(Tail(q), p)
         /\ \A a, b : Follows(q, a, b) <=>
                        Follows(Tail(q), a, b) \/ (Head(q) = a /\ Has(Tail(q), b))
<1>1. /\ Tail(q) \in Seq(S)
      /\ Len(Tail(q)) = Len(q) - 1
      /\ Len(q) \in Nat \ {0}
      /\ \A i \in 1..Len(Tail(q)) : Tail(q)[i] = q[i + 1]
      /\ Head(q) = q[1]
  BY HeadTailProperties, EmptySeq, LenProperties
<1>. DEFINE r == Tail(q)  h == Head(q)
<1>. HIDE DEF r, h
<1>0. /\ Len(r) = Len(q) - 1
      /\ Len(q) \in Nat \ {0}
      /\ \A i \in 1..Len(r) : r[i] = q[i + 1]
      /\ \A i \in 2..Len(q) : i - 1 \in 1..Len(r) /\ r[i - 1] = q[i]
      /\ h = q[1]
  BY <1>1 DEF r, h
<1>2. ASSUME NEW p PROVE Has(q, p) <=> h = p \/ Has(r, p)
  <2>1. Has(q, p) => h = p \/ Has(r, p)
    BY <1>0 DEF Has
  <2>2. h = p => Has(q, p)
    <3>1. 1 \in 1..Len(q)
      BY <1>0
    <3> QED
      BY <1>0, <3>1 DEF Has
  <2>3. Has(r, p) => Has(q, p)
    <3>1. SUFFICES ASSUME NEW i \in 1..Len(r), r[i] = p PROVE Has(q, p)
      BY DEF Has
    <3>2. i + 1 \in 1..Len(q) /\ q[i + 1] = p
      BY <1>0, <3>1
    <3> QED
      BY <3>2 DEF Has
  <2> QED
    BY <2>1, <2>2, <2>3
<1>3. ASSUME NEW a, NEW b
      PROVE  Follows(q, a, b) <=> Follows(r, a, b) \/ (h = a /\ Has(r, b))
  <2>1. Follows(q, a, b) => Follows(r, a, b) \/ (h = a /\ Has(r, b))
    <3>1. SUFFICES ASSUME NEW i \in 1..Len(q), NEW j \in 1..Len(q), i < j, q[i] = a, q[j] = b
                   PROVE  Follows(r, a, b) \/ (h = a /\ Has(r, b))
      BY DEF Follows
    <3>2. j - 1 \in 1..Len(r) /\ r[j - 1] = b
      BY <1>0, <3>1
    <3>3. CASE i = 1
      BY <1>0, <3>1, <3>2, <3>3 DEF Has
    <3>4. CASE i # 1
      <4>1. i - 1 \in 1..Len(r) /\ r[i - 1] = a /\ i - 1 < j - 1
        BY <1>0, <3>1, <3>4
      <4> QED
        BY <4>1, <3>2 DEF Follows
    <3> QED
      BY <3>3, <3>4
  <2>2. Follows(r, a, b) => Follows(q, a, b)
    <3>1. SUFFICES ASSUME NEW i \in 1..Len(r), NEW j \in 1..Len(r), i < j, r[i] = a, r[j] = b
                   PROVE  Follows(q, a, b)
      BY DEF Follows
    <3>2. /\ i + 1 \in 1..Len(q) /\ q[i + 1] = a
          /\ j + 1 \in 1..Len(q) /\ q[j + 1] = b
          /\ i + 1 < j + 1
      BY <1>0, <3>1
    <3> QED
      BY <3>2 DEF Follows
  <2>3. h = a /\ Has(r, b) => Follows(q, a, b)
    <3>1. SUFFICES ASSUME h = a, NEW i \in 1..Len(r), r[i] = b PROVE Follows(q, a, b)
      BY DEF Has
    <3>2. 1 \in 1..Len(q) /\ i + 1 \in 1..Len(q) /\ 1 < i + 1 /\ q[1] = a /\ q[i + 1] = b
      BY <1>0, <3>1
    <3> QED
      BY <3>2 DEF Follows
  <2> QED
    BY <2>1, <2>2, <2>3
<1>4. r \in Seq(S)
  BY <1>1 DEF r
<1>. QED
  BY <1>2, <1>3, <1>4 DEF r, h

(* What may be under way.                                                  *)
Packets == {"RadiusUpdated", "DeathInfo", "Searching", "Ready",
            "RequestRadius", "PlayerAction", "ClientReady"}

(* The packet p is on its way to the bot, or in its hands.                 *)
ToBot(p) == Has(inbox, p) \/ (pc = "handle" /\ pk = p)

(* The death is news: nothing has answered it, and every Respawn packet on *)
(* its way was sent before it.                                             *)
DeathAhead ==
  /\ ~dead
  /\ ToBot("DeathInfo")
  /\ ~Has(outbox, "PlayerAction")
  /\ ~Follows(inbox, "DeathInfo", "DeathInfo")
  /\ ~Follows(inbox, "DeathInfo", "Ready")
  /\ pc = "handle" /\ pk = "DeathInfo" => ~Has(inbox, "DeathInfo") /\ ~Has(inbox, "Ready")

(* The request to respawn is under way, and the strays are gone.           *)
ActionAhead ==
  /\ dead
  /\ ~ToBot("DeathInfo")
  /\ ~ToBot("Ready")
  /\ Has(outbox, "PlayerAction")
  /\ ~Follows(outbox, "PlayerAction", "PlayerAction")

(* The server waits, and the Respawn packet that says so is under way.     *)
ReadyAhead ==
  /\ dead
  /\ ToBot("Ready")
  /\ ~Has(outbox, "ClientReady")

(* The confirmation is under way, and the next request for the radius with *)
(* it, or about to be.                                                     *)
ConfirmationAhead ==
  /\ ~dead
  /\ Has(outbox, "ClientReady")
  /\ ~Follows(outbox, "ClientReady", "ClientReady")
  /\ \/ Follows(outbox, "ClientReady", "RequestRadius")
     \/ pc \in {"again", "unhook", "close", "returned"}

(* One stage of the handshake at a time, as long as the connection lives.  *)
Handshake ==
  /\ player \in {"alive", "dead", "searching", "ready"}
  /\ player # "dead" => ~ToBot("DeathInfo") /\ ~Has(outbox, "PlayerAction")
  /\ player # "ready" => ~Has(outbox, "ClientReady")
  /\ player = "alive" => ~dead
  /\ player = "dead" => DeathAhead \/ ActionAhead
  /\ player = "searching" => dead /\ ~ToBot("Ready")
  /\ player = "ready" => ReadyAhead \/ ConfirmationAhead
  /\ player = "alive" /\ ~radius =>
       \/ pc \notin {"check", "read", "handle"}
       \/ Has(outbox, "RequestRadius")

(* The queues hold packets, a session holds a connection while it runs,    *)
(* and while that connection lives the handshake is in one of its stages.  *)
HandshakeInv ==
  /\ inbox \in Seq(Packets)
  /\ outbox \in Seq(Packets)
  /\ dead \in BOOLEAN
  /\ conn = "none" => pc \in {"negotiate", "dial", "returned"}
  /\ pc = "returned" => conn # "open"
  /\ conn # "closed" => Handshake

(* Nothing is under way when session is called.                            *)
LEMMA InitHandshake == Init => HandshakeInv
<1>1. /\ <<>> \in Seq(Packets)
      /\ \A p : ~Has(<<>>, p)
  BY EmptySeq DEF Has
<1> QED
  BY <1>1 DEF Init, HandshakeInv, Handshake, ToBot, SessionPCs

(* The handshake does not notice the steps of session between two packets. *)
LEMMA HandshakeApart ==
  ASSUME Handshake, UNCHANGED <<dead, inbox, outbox, player, radius>>,
         pc # "handle", pc' # "handle",
         pc' \in {"check", "read"} => pc \in {"check", "read"},
         pc \in {"again", "unhook", "close", "returned"} =>
           pc' \in {"again", "unhook", "close", "returned"}
  PROVE  Handshake'
<1>1. /\ DeathAhead => DeathAhead'
      /\ ActionAhead => ActionAhead'
      /\ ReadyAhead => ReadyAhead'
      /\ ConfirmationAhead => ConfirmationAhead'
      /\ \A p : ToBot(p)' <=> ToBot(p)
  BY DEF DeathAhead, ActionAhead, ReadyAhead, ConfirmationAhead, ToBot
<1>2. ToBot("Ready")' <=> ToBot("Ready")
  BY DEF ToBot
<1>3. ToBot("DeathInfo")' <=> ToBot("DeathInfo")
  BY DEF ToBot
<1> QED
  BY <1>1, <1>2, <1>3 DEF Handshake

(* Every step leaves the handshake at one of its stages.                   *)
LEMMA NextHandshake == LinkInv /\ HandshakeInv /\ [Next]_vars => HandshakeInv'
<1> SUFFICES ASSUME LinkInv, HandshakeInv, [Next]_vars PROVE HandshakeInv'
  OBVIOUS
<1> USE DEF LinkInv, HandshakeInv, SessionPCs, Packets, botVars, serverVars
<1>1. CASE Negotiate \/ Dial \/ Hook \/ Check \/ Unhook \/ Close \/ Spawn \/ Spawned
          \/ SpawnFails
  <2>1. /\ UNCHANGED <<dead, inbox, outbox, player, radius>>
        /\ pc # "handle" /\ pc' # "handle" /\ pc' \in SessionPCs
        /\ pc' \in {"check", "read"} => pc \in {"check", "read"}
        /\ pc \in {"again", "unhook", "close", "returned"} =>
             pc' \in {"again", "unhook", "close", "returned"}
        /\ conn' \in {conn, "open", "closed"}
        /\ conn = "closed" => conn' = "closed"
        /\ conn' = "none" => pc' \in {"negotiate", "dial", "returned"}
        /\ pc' = "returned" => conn' # "open"
    BY <1>1 DEF Negotiate, Dial, Hook, Check, Unhook, Close, Spawn, Spawned,
       SpawnFails
  <2>2. conn' # "closed" => Handshake'
    BY <2>1, HandshakeApart
  <2> QED
    BY <2>1, <2>2
<1>2. CASE HookStep \/ ContextEnds \/ ServerDrops \/ Returned \/ UNCHANGED vars
  BY <1>2 DEF HookStep, HookStarts, HookRuns, ContextEnds, ServerDrops, Returned, vars,
       Handshake, ToBot, DeathAhead, ActionAhead, ReadyAhead, ConfirmationAhead
<1>3. CASE ReadPacket
  <2>1. /\ inbox' \in Seq(Packets)
        /\ \A p : Has(inbox, p) <=> pk' = p \/ Has(inbox', p)
        /\ \A a, b : Follows(inbox, a, b) <=>
                       Follows(inbox', a, b) \/ (pk' = a /\ Has(inbox', b))
    BY <1>3, TailQueue DEF ReadPacket
  <2> QED
    BY <1>3, <2>1 DEF ReadPacket, Handshake, ToBot, DeathAhead, ActionAhead, ReadyAhead,
       ConfirmationAhead
<1>4. CASE ReadFails
  BY <1>4 DEF ReadFails
<1>5. CASE RequestRadius \/ RequestAgain
  <2>1. CASE conn = "open"
    <3>1. outbox' = Append(outbox, "RequestRadius") /\ "RequestRadius" \in Packets
      BY <1>5, <2>1 DEF RequestRadius, RequestAgain, Write
    <3>2. /\ outbox' \in Seq(Packets)
          /\ \A p : Has(outbox', p) <=> Has(outbox, p) \/ "RequestRadius" = p
          /\ \A a, b : Follows(outbox', a, b) <=>
                         Follows(outbox, a, b) \/ (Has(outbox, a) /\ "RequestRadius" = b)
      BY <3>1, AppendQueue
    <3> QED
      BY <1>5, <2>1, <3>2 DEF RequestRadius, RequestAgain, Write, Handshake, ToBot, DeathAhead,
         ActionAhead, ReadyAhead, ConfirmationAhead
  <2>2. CASE conn # "open"
    BY <1>5, <2>2 DEF RequestRadius, RequestAgain, Write
  <2> QED
    BY <2>1, <2>2
<1>6. CASE HandleDeath
  <2>1. CASE conn = "open"
    <3>1. player = "dead" /\ DeathAhead
      BY <1>6, <2>1 DEF HandleDeath, Handshake, ToBot, ActionAhead
    <3>2. outbox' = Append(outbox, "PlayerAction") /\ "PlayerAction" \in Packets
      BY <1>6, <2>1 DEF HandleDeath, Write
    <3>3. /\ outbox' \in Seq(Packets)
          /\ \A p : Has(outbox', p) <=> Has(outbox, p) \/ "PlayerAction" = p
          /\ \A a, b : Follows(outbox', a, b) <=>
                         Follows(outbox, a, b) \/ (Has(outbox, a) /\ "PlayerAction" = b)
      BY <3>2, AppendQueue
    <3>4. dead' /\ pc' = "check" /\ UNCHANGED <<conn, inbox, serverVars>>
      BY <1>6, <2>1 DEF HandleDeath, Write
    <3>5. ~Has(inbox, "DeathInfo") /\ ~Has(inbox, "Ready") /\ ~Has(outbox, "PlayerAction")
      BY <1>6, <3>1 DEF HandleDeath, DeathAhead
    <3>6. ~Follows(outbox, "PlayerAction", "PlayerAction")
      BY <3>5 DEF Follows, Has
    <3>7. ActionAhead'
      BY <3>3, <3>4, <3>5, <3>6 DEF ActionAhead, ToBot
    <3>8. ~Has(outbox', "ClientReady")
      BY <2>1, <3>1, <3>3 DEF Handshake
    <3> QED
      BY <2>1, <3>1, <3>3, <3>4, <3>7, <3>8 DEF Handshake
  <2>2. CASE conn # "open"
    BY <1>6, <2>2 DEF HandleDeath, Write
  <2> QED
    BY <2>1, <2>2
<1>7. CASE HandleReady
  <2>1. CASE conn = "open"
    <3>1. player = "ready" /\ ReadyAhead
      BY <1>7, <2>1 DEF HandleReady, AsksForConfirmation, Handshake, ToBot, DeathAhead,
         ActionAhead, ConfirmationAhead
    <3>2. outbox' = Append(outbox, "ClientReady") /\ "ClientReady" \in Packets
      BY <1>7, <2>1 DEF HandleReady, Write
    <3>3. /\ outbox' \in Seq(Packets)
          /\ \A p : Has(outbox', p) <=> Has(outbox, p) \/ "ClientReady" = p
          /\ \A a, b : Follows(outbox', a, b) <=>
                         Follows(outbox, a, b) \/ (Has(outbox, a) /\ "ClientReady" = b)
      BY <3>2, AppendQueue
    <3>4. ~dead' /\ dead' \in BOOLEAN /\ pc' = "again" /\ UNCHANGED <<conn, inbox, serverVars>>
      BY <1>7, <2>1 DEF HandleReady, Write
    <3>5. ~Follows(outbox, "ClientReady", "ClientReady")
      BY <3>1 DEF ReadyAhead, Has, Follows
    <3>6. ConfirmationAhead'
      BY <3>1, <3>3, <3>4, <3>5 DEF ReadyAhead, ConfirmationAhead
    <3>7. ~ToBot("DeathInfo")' /\ ~Has(outbox', "PlayerAction")
      BY <2>1, <3>1, <3>3, <3>4 DEF Handshake, ToBot
    <3> QED
      BY <2>1, <3>1, <3>3, <3>4, <3>6, <3>7 DEF Handshake
  <2>2. CASE conn # "open"
    BY <1>7, <2>2 DEF HandleReady, Write
  <2> QED
    BY <2>1, <2>2
<1>8. CASE HandleOther
  BY <1>8 DEF HandleOther, AsksForConfirmation, Handshake, ToBot, DeathAhead, ActionAhead,
     ReadyAhead, ConfirmationAhead
<1>9. CASE Kill
  <2>1. inbox' = Append(inbox, "DeathInfo") /\ "DeathInfo" \in Packets
    BY <1>9 DEF Kill
  <2>2. /\ inbox' \in Seq(Packets)
        /\ \A p : Has(inbox', p) <=> Has(inbox, p) \/ "DeathInfo" = p
        /\ \A a, b : Follows(inbox', a, b) <=>
                       Follows(inbox, a, b) \/ (Has(inbox, a) /\ "DeathInfo" = b)
    BY <2>1, AppendQueue
  <2>3. /\ conn = "open" /\ player = "alive" /\ player' = "dead"
        /\ UNCHANGED <<conn, pc, pk, dead, outbox>>
    BY <1>9 DEF Kill, Online
  <2>4. ~dead /\ ~ToBot("DeathInfo") /\ ~Has(outbox, "PlayerAction") /\ ~Has(outbox, "ClientReady")
    BY <2>3 DEF Handshake
  <2>5. ~Follows(inbox, "DeathInfo", "DeathInfo") /\ ~Follows(inbox, "DeathInfo", "Ready")
    BY <2>4 DEF ToBot, Has, Follows
  <2>6. DeathAhead'
    BY <2>2, <2>3, <2>4, <2>5 DEF DeathAhead, ToBot
  <2> QED
    BY <2>2, <2>3, <2>4, <2>6 DEF Handshake
<1>10. CASE Stray
  <2>1. inbox' = Append(inbox, "Ready") /\ "Ready" \in Packets
    BY <1>10 DEF Stray
  <2>2. /\ inbox' \in Seq(Packets)
        /\ \A p : Has(inbox', p) <=> Has(inbox, p) \/ "Ready" = p
    BY <2>1, AppendQueue
  <2>3. /\ conn = "open" /\ player = "alive"
        /\ UNCHANGED <<conn, pc, pk, dead, outbox, player, radius>>
    BY <1>10 DEF Stray, Online
  <2> QED
    BY <2>2, <2>3 DEF Handshake, ToBot
<1>11. CASE ServerFindsPlace
  <2>1. inbox' = Append(inbox, "Ready") /\ "Ready" \in Packets
    BY <1>11 DEF ServerFindsPlace
  <2>2. /\ inbox' \in Seq(Packets)
        /\ \A p : Has(inbox', p) <=> Has(inbox, p) \/ "Ready" = p
    BY <2>1, AppendQueue
  <2>3. /\ conn = "open" /\ player = "searching" /\ player' = "ready"
        /\ UNCHANGED <<conn, pc, pk, dead, outbox, radius>>
    BY <1>11 DEF ServerFindsPlace, Online
  <2>4. ReadyAhead'
    BY <2>2, <2>3 DEF Handshake, ReadyAhead, ToBot
  <2> QED
    BY <2>2, <2>3, <2>4 DEF Handshake, ToBot
<1>12. CASE ServerTakesAction
  <2>1. /\ conn = "open" /\ outbox # <<>> /\ outbox' = Tail(outbox)
        /\ Head(outbox) = "PlayerAction"
        /\ UNCHANGED <<conn, pc, pk, dead, radius>>
    BY <1>12 DEF ServerTakesAction, Online
  <2>2. /\ outbox' \in Seq(Packets)
        /\ \A p : Has(outbox, p) <=> "PlayerAction" = p \/ Has(outbox', p)
        /\ \A a, b : Follows(outbox, a, b) <=>
                       Follows(outbox', a, b) \/ ("PlayerAction" = a /\ Has(outbox', b))
    BY <2>1, TailQueue
  <2>3. player = "dead" /\ ActionAhead
    BY <2>1, <2>2 DEF Handshake, DeathAhead
  <2>4. /\ player' = "searching" /\ inbox' = Append(inbox, "Searching")
        /\ "Searching" \in Packets
    BY <1>12, <2>3 DEF ServerTakesAction
  <2>5. /\ inbox' \in Seq(Packets)
        /\ \A p : Has(inbox', p) <=> Has(inbox, p) \/ "Searching" = p
    BY <2>4, AppendQueue
  <2>6. ~Has(outbox', "PlayerAction") /\ ~Has(outbox', "ClientReady")
    BY <2>1, <2>2, <2>3 DEF Handshake, ActionAhead
  <2>7. dead' /\ ~ToBot("DeathInfo")' /\ ~ToBot("Ready")'
    BY <2>1, <2>3, <2>5 DEF ActionAhead, ToBot
  <2> QED
    BY <2>1, <2>2, <2>4, <2>5, <2>6, <2>7 DEF Handshake
<1>13. CASE ServerTakesReady
  <2>1. /\ conn = "open" /\ outbox # <<>> /\ outbox' = Tail(outbox)
        /\ Head(outbox) = "ClientReady"
        /\ UNCHANGED <<conn, pc, pk, dead, inbox>>
    BY <1>13 DEF ServerTakesReady, Online
  <2>2. /\ outbox' \in Seq(Packets)
        /\ \A p : Has(outbox, p) <=> "ClientReady" = p \/ Has(outbox', p)
        /\ \A a, b : Follows(outbox, a, b) <=>
                       Follows(outbox', a, b) \/ ("ClientReady" = a /\ Has(outbox', b))
    BY <2>1, TailQueue
  <2>3. player = "ready" /\ ConfirmationAhead
    BY <2>1, <2>2 DEF Handshake, ReadyAhead
  <2>4. player' = "alive"
    BY <1>13, <2>3 DEF ServerTakesReady
  <2>5. ~Has(outbox', "PlayerAction") /\ ~Has(outbox', "ClientReady") /\ ~ToBot("DeathInfo")'
    BY <2>1, <2>2, <2>3 DEF Handshake, ConfirmationAhead, ToBot
  <2>6. Follows(outbox, "ClientReady", "RequestRadius") => Has(outbox', "RequestRadius")
    <3>1. Follows(outbox', "ClientReady", "RequestRadius") => Has(outbox', "RequestRadius")
      BY DEF Follows, Has
    <3> QED
      BY <2>2, <3>1
  <2> QED
    BY <2>1, <2>2, <2>3, <2>4, <2>5, <2>6 DEF Handshake, ConfirmationAhead
<1>14. CASE ServerTakesRadius
  <2>1. /\ conn = "open" /\ outbox # <<>> /\ outbox' = Tail(outbox)
        /\ Head(outbox) = "RequestRadius" /\ radius' = TRUE
        /\ inbox' = Append(inbox, "RadiusUpdated") /\ "RadiusUpdated" \in Packets
        /\ UNCHANGED <<conn, pc, pk, dead, player>>
    BY <1>14 DEF ServerTakesRadius, Online
  <2>2. /\ outbox' \in Seq(Packets)
        /\ \A p : Has(outbox, p) <=> "RequestRadius" = p \/ Has(outbox', p)
        /\ \A a, b : Follows(outbox, a, b) <=>
                       Follows(outbox', a, b) \/ ("RequestRadius" = a /\ Has(outbox', b))
    BY <2>1, TailQueue
  <2>3. /\ inbox' \in Seq(Packets)
        /\ \A p : Has(inbox', p) <=> Has(inbox, p) \/ "RadiusUpdated" = p
        /\ \A a, b : Follows(inbox', a, b) <=>
                       Follows(inbox, a, b) \/ (Has(inbox, a) /\ "RadiusUpdated" = b)
    BY <2>1, AppendQueue
  <2>4. DeathAhead => DeathAhead'
    BY <2>1, <2>2, <2>3 DEF DeathAhead, ToBot
  <2>5. ActionAhead => ActionAhead'
    BY <2>1, <2>2, <2>3 DEF ActionAhead, ToBot
  <2>6. ReadyAhead => ReadyAhead'
    BY <2>1, <2>2, <2>3 DEF ReadyAhead, ToBot
  <2>7. ConfirmationAhead => ConfirmationAhead'
    BY <2>1, <2>2, <2>3 DEF ConfirmationAhead
  <2>8. /\ ToBot("DeathInfo")' => ToBot("DeathInfo")
        /\ ToBot("Ready")' => ToBot("Ready")
    BY <2>1, <2>3 DEF ToBot
  <2> QED
    BY <2>1, <2>2, <2>3, <2>4, <2>5, <2>6, <2>7, <2>8 DEF Handshake
<1> QED
  BY <1>1, <1>2, <1>3, <1>4, <1>5, <1>6, <1>7, <1>8, <1>9, <1>10, <1>11, <1>12, <1>13, <1>14
     DEF Next, SessionStep, ServerReplies

(* The handshake is at one of its stages in every reachable state.         *)
THEOREM HandshakeInvariance == Spec => []HandshakeInv
<1>1. LinkInv /\ HandshakeInv /\ [Next]_vars => HandshakeInv'
  BY NextHandshake
<1> QED
  BY InitHandshake, SessionInvariance, <1>1, PTL DEF Spec

(* A respawn is confirmed only when the server waits for it.               *)
THEOREM ConfirmsWhenAsked == Spec => []ConfirmsOnlyWhenAsked
<1>1. HandshakeInv => ConfirmsOnlyWhenAsked
  BY DEF HandshakeInv, Handshake, ConfirmsOnlyWhenAsked, Online, Outbound, Has
<1> QED
  BY <1>1, HandshakeInvariance, PTL

(* A dead player is never left lying: somebody holds the packet that moves *)
(* the handshake on, and the Respawner remembers the death until then.     *)
THEOREM HandshakeMoves == Spec => []HandshakeMovesOn
<1>1. HandshakeInv => HandshakeMovesOn
  <2>1. SUFFICES ASSUME HandshakeInv, Online PROVE HandshakeMovesOn
    BY DEF HandshakeMovesOn
  <2>2. Handshake
    BY <2>1 DEF HandshakeInv, Online
  <2>3. /\ \A p : ToBot(p) <=> Inbound(p)
        /\ \A p : Has(outbox, p) <=> Outbound(p)
    BY DEF ToBot, Inbound, Outbound, Has
  <2> QED
    BY <2>2, <2>3 DEF HandshakeMovesOn, Handshake, DeathAhead, ActionAhead, ReadyAhead,
       ConfirmationAhead
<1> QED
  BY <1>1, HandshakeInvariance, PTL

(* A living player without a view distance has one asked for.              *)
THEOREM RadiusComesBack == Spec => []RadiusRestored
<1>1. LinkInv /\ HandshakeInv => RadiusRestored
  <2>1. SUFFICES ASSUME LinkInv, HandshakeInv, Online, player = "alive", ~radius
                 PROVE  \/ pc \in {"spawned", "request", "again", "unhook", "close"}
                        \/ Outbound("RequestRadius")
    BY DEF RadiusRestored
  <2>2. pc \notin {"check", "read", "handle"} \/ Has(outbox, "RequestRadius")
    BY <2>1 DEF HandshakeInv, Handshake, Online
  <2>3. Has(outbox, "RequestRadius") => Outbound("RequestRadius")
    BY DEF Has, Outbound
  <2> QED
    BY <2>1, <2>2, <2>3 DEF LinkInv, HandshakeInv, SessionPCs, Online
<1> QED
  BY <1>1, SessionInvariance, HandshakeInvariance, PTL

================================================================================
