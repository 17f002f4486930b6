------------------------------ MODULE Negotiation ------------------------------
(***************************************************************************)
(* internal/mcproto/protocol.go: before each session the bot pings the     *)
(* server and announces the protocol number its pong advertises, if that   *)
(* can be used, and the compiled-in one if not.  The server upgrades, is   *)
(* restored or answers nonsense between any two sessions, and between the  *)
(* ping and the dial of one.                                               *)
(*                                                                         *)
(* A pong is a sequence of symbols: ";" and "\\" have the meaning they     *)
(* have to splitPong, a numeral is one symbol with a value, and "x" stands *)
(* for any other text.                                                     *)
(*                                                                         *)
(* A definition marked FAULT is the one after it with a mistake in it,     *)
(* which a property below must notice.                                     *)
(***************************************************************************)
EXTENDS Integers, FiniteSets, SequencesExt

CONSTANTS
  Baked,        (* minecraft.DefaultProtocol.ID()                           *)
  MaxInt32,     (* the largest number the protocol field may hold           *)
  Value,        (* Value[t]: the number the numeral t stands for            *)
  Protocols,    (* the protocol numbers the server speaks in its life       *)
  Names,        (* the server names (MOTDs) in its life                     *)
  Nonsense,     (* pongs of something that is no Bedrock server             *)
  NoAnswer,     (* no pong at all                                           *)
  MaxMoves      (* bound: how often the server changes                      *)

Numerals == DOMAIN Value

(* What a pong is made of.                                                 *)
Symbols == {";", "\\", "x"} \cup Numerals

(* The numerals a protocol field may hold.                                 *)
Numbers == {t \in Numerals : Value[t] \in 1..MaxInt32}

ASSUME NegotiationAssumption ==
  /\ MaxInt32 \in Nat
  /\ Baked \in 1..MaxInt32
  /\ Value \in [Numerals -> Int]
  /\ {";", "\\"} \cap Numerals = {}
  /\ Protocols \subseteq Numbers
  /\ Names \subseteq Seq(Symbols)
  /\ MaxMoves \in Nat

(* What is no Bedrock server does not advertise a number a client may have *)
(* by chance: its pong holds none, or is no pong for want of separators.   *)
ASSUME NonsenseAssumption ==
  /\ Nonsense \subseteq Seq(Symbols)
  /\ \A s \in Nonsense :
       \/ \A i \in DOMAIN s : s[i] \notin Numbers
       \/ Cardinality({i \in DOMAIN s : s[i] = ";"}) < 3

VARIABLES
  server,       (* the numeral of the protocol the server speaks            *)
  pong,         (* what it answers a ping, or NoAnswer                      *)
  honest,       (* the pong advertises the number the server speaks         *)
  pc,           (* where the session is                                     *)
  announced,    (* the number the dial announces                            *)
  kicked,       (* the last dial was turned away for its number             *)
  moves,        (* how often the server has changed                         *)
  \* History variables: the guards of the code do not read them.
  heard,        (* the last ping was answered, and honestly                 *)
  fresh         (* the server is what it was at the last ping               *)

serverVars == <<server, pong, honest, moves>>
vars == <<serverVars, pc, announced, kicked, heard, fresh>>

-------------------------------------------------------------------------------
(***************************************************************************)
(* Pure parts.                                                             *)
(***************************************************************************)

(* FAULT: an escape is an ordinary symbol.                                 *)
SplitNextNaive(st, r) ==
  IF r = ";" THEN [st EXCEPT !.fields = Append(@, st.cur), !.cur = <<>>]
  ELSE [st EXCEPT !.cur = Append(@, r)]

(* The body of the loop of splitPong.                                      *)
SplitNext(st, r) ==
  IF st.escape THEN [st EXCEPT !.escape = FALSE, !.cur = Append(@, r)]
  ELSE IF r = "\\" THEN [st EXCEPT !.escape = TRUE]
  ELSE IF r = ";" THEN [st EXCEPT !.fields = Append(@, st.cur), !.cur = <<>>]
  ELSE [st EXCEPT !.cur = Append(@, r)]

splitPong(s) ==
  LET after[i \in 0..Len(s)] ==
        IF i = 0 THEN [fields |-> <<>>, cur |-> <<>>, escape |-> FALSE]
        ELSE SplitNext(after[i - 1], s[i])
  IN  Append(after[Len(s)].fields, after[Len(s)].cur)

(* How a server writes its name.                                           *)
Escape(name) ==
  FlattenSeq([i \in DOMAIN name |->
    IF name[i] \in {";", "\\"} THEN <<"\\", name[i]>> ELSE <<name[i]>>])

(* The leading fields of a pong.                                           *)
Render(name, protocol) ==
  <<"x", ";">> \o Escape(name) \o <<";", protocol, ";", "x">>

(* What a server that speaks t may answer, and every answer there is.      *)
HonestPongs == [t \in Protocols |-> {Render(n, t) : n \in Names}]
Pongs       == (UNION {HonestPongs[t] : t \in Protocols}) \cup Nonsense

Fields == [s \in Pongs |-> splitPong(s)]

(* FAULT: zero and negative numbers are passed on.                         *)
UsableAnyInt(field) == Len(field) = 1 /\ field[1] \in Numerals

(* strconv.ParseInt at 32 bits, and n > 0.                                 *)
Usable(field) ==
  /\ Len(field) = 1
  /\ field[1] \in Numerals
  /\ Value[field[1]] \in 1..MaxInt32

(* ParsePong succeeds, and the number it returns.                          *)
Parses(s) == Len(Fields[s]) >= 4 /\ Usable(Fields[s][3])

Advertised(s) == Value[Fields[s][3][1]]

Init ==
  /\ server \in Protocols
  /\ pong \in HonestPongs[server] \cup Nonsense \cup {NoAnswer}
  /\ honest = (pong \notin Nonsense \cup {NoAnswer})
  /\ pc = "ping"
  /\ announced = Baked
  /\ kicked = FALSE
  /\ moves = 0
  /\ heard = FALSE
  /\ fresh = FALSE

-------------------------------------------------------------------------------
(* FAULT: nothing is announced that was not announced before.              *)
protocolForKeeps(id) == announced' = IF announced # Baked THEN announced ELSE id

(* protocolFor: the compiled-in protocol if it has the number the server   *)
(* advertises, and if not the same under the server's number.              *)
protocolFor(id) == announced' = id

(* Negotiate: any problem with the ping or the pong is met with the        *)
(* compiled-in number.                                                     *)
Negotiate ==
  /\ pc = "ping"
  /\ pc' = "dial"
  /\ IF pong # NoAnswer /\ Parses(pong)
     THEN protocolFor(Advertised(pong))
     ELSE announced' = Baked
  /\ heard' = honest
  /\ fresh' = TRUE
  /\ UNCHANGED <<serverVars, kicked>>

(* The ping times out, or is lost, whatever the server would answer.       *)
PingLost ==
  /\ pc = "ping"
  /\ pc' = "dial"
  /\ announced' = Baked
  /\ heard' = FALSE
  /\ fresh' = TRUE
  /\ moves < MaxMoves
  /\ moves' = moves + 1
  /\ UNCHANGED <<server, pong, honest, kicked>>

(* The server turns away a client that announces another number than its   *)
(* own.                                                                    *)
Dial ==
  /\ pc = "dial"
  /\ kicked' = (announced # Value[server])
  /\ pc' = IF kicked' THEN "ended" ELSE "session"
  /\ UNCHANGED <<serverVars, announced, heard, fresh>>

(* The session ends, and the connect loop starts another.                  *)
Reconnect ==
  /\ pc = "ended"
  /\ pc' = "ping"
  /\ UNCHANGED <<serverVars, announced, kicked, heard, fresh>>

SessionDrops ==
  /\ pc = "session"
  /\ pc' = "ended"
  /\ UNCHANGED <<serverVars, announced, kicked, heard, fresh>>

(* The server is upgraded or restored and renamed, goes down for a while   *)
(* or has something else at its address; a restart ends the session.       *)
ServerChanges ==
  /\ moves < MaxMoves
  /\ moves' = moves + 1
  /\ server' \in Protocols
  /\ pong' \in HonestPongs[server'] \cup Nonsense \cup {NoAnswer}
  /\ honest' = (pong' \notin Nonsense \cup {NoAnswer})
  /\ pc' = IF pc = "session" THEN "ended" ELSE pc
  /\ fresh' = (fresh /\ server' = server)
  /\ UNCHANGED <<announced, kicked, heard>>

-------------------------------------------------------------------------------
BotStep == Negotiate \/ Dial \/ Reconnect

Next == BotStep \/ PingLost \/ SessionDrops \/ ServerChanges

Spec == Init /\ [][Next]_vars

(* The connect loop goes round: a ping and a dial end by their timeouts.   *)
FairSpec == Spec /\ WF_vars(BotStep)

-------------------------------------------------------------------------------
(***************************************************************************)
(* Safety.                                                                 *)
(***************************************************************************)

(* An answer that is a pong is understood, semicolons and backslashes in   *)
(* the server's name included: a dial right after it is not turned away.   *)
HonestPongUnderstood ==
  pong # NoAnswer /\ honest => Parses(pong) /\ Advertised(pong) = Value[server]

(* A session is turned away for its number only if the server has changed  *)
(* since the ping, or the ping told nothing and the server does not speak  *)
(* the compiled-in protocol.  So a number announced earlier does not       *)
(* stick, and no nonsense makes the bot announce a number that is sure to  *)
(* be refused.                                                             *)
KickHasCause ==
  [][Dial /\ fresh /\ (heard \/ Value[server] = Baked) => ~kicked']_vars

-------------------------------------------------------------------------------
(* Liveness, under FairSpec: a server that settles on any version, an      *)
(* older one included, is joined.                                          *)
ServerFollowed ==
  honest ~> (pc = "session" \/ ~honest)

===============================================================================
