----------------------------- MODULE ProtocolProofs -----------------------------
(***************************************************************************)
(* Proofs about the two programs that deal with protocol numbers.          *)
(*                                                                         *)
(* Negotiation: a server's pong is understood whatever its name, of any    *)
(* length and with any separators and escapes in it, and a session is      *)
(* turned away for its number only with a cause.  What splitPong and       *)
(* Escape compute is shown by induction, which needs no more of the        *)
(* library than that Nat is well founded: a set that holds 0 and the       *)
(* successor of each of its members holds every natural number.            *)
(*                                                                         *)
(* ProtocolCheck: for every set of versions, an answer is given whole, and *)
(* a run that says nothing has nothing to say.                             *)
(***************************************************************************)
EXTENDS Negotiation, ProtocolCheck, SequenceTheorems, FiniteSetTheorems,
        WellFoundedInduction, TLAPS

(* Induction over the natural numbers, for a set.                          *)
LEMMA SetInduction ==
  ASSUME NEW T, 0 \in T, \A n \in Nat : n \in T => n + 1 \in T
  PROVE  Nat \subseteq T
<1> SUFFICES ASSUME Nat \ T # {} PROVE FALSE
  OBVIOUS
<1> DEFINE R == OpToRel(<, Nat)
<1>1. IsWellFoundedOn(R, Nat)
  BY NatLessThanWellFounded
<1>2. R = {ss \in Nat \X Nat : ss[1] < ss[2]}
  BY Zenon DEF OpToRel
<1> HIDE DEF R
<1>3. PICK x \in Nat \ T : \A y \in Nat \ T : <<y, x>> \notin R
  BY <1>1, WFMin
<1>4. x # 0 /\ x - 1 \in Nat
  BY <1>3
<1>5. <<x - 1, x>> \in R
  BY <1>2, <1>4
<1>6. x - 1 \in T
  BY <1>3, <1>4, <1>5
<1>7. x - 1 + 1 \in T
  BY <1>4, <1>6
<1> QED
  BY <1>3, <1>7

-------------------------------------------------------------------------------
(* The state of splitPong's loop before the first symbol.                  *)
Start == [fields |-> <<>>, cur |-> <<>>, escape |-> FALSE]

(* f holds the states the loop goes through over the first n symbols of s. *)
Splits(f, s, n) == f = [i \in 0..n |-> IF i = 0 THEN Start ELSE SplitNext(f[i - 1], s[i])]

(* The state of the loop after all of s.                                   *)
After(s) == (CHOOSE f : Splits(f, s, Len(s)))[Len(s)]

(* There are such states.                                                  *)
LEMMA SplitsExist == \A s : \A n \in Nat : \E f : Splits(f, s, n)
<1> SUFFICES ASSUME NEW s PROVE \A n \in Nat : \E f : Splits(f, s, n)
  OBVIOUS
<1> DEFINE T == {n \in Nat : \E f : Splits(f, s, n)}
<1>1. 0 \in T
  <2>1. Splits([i \in 0..0 |-> Start], s, 0)
    BY DEF Splits
  <2> QED
    BY <2>1
<1>2. ASSUME NEW n \in Nat, n \in T PROVE n + 1 \in T
  <2>1. PICK f : Splits(f, s, n)
    BY <1>2
  <2> DEFINE g == [i \in 0..(n + 1) |-> IF i = n + 1 THEN SplitNext(f[n], s[n + 1]) ELSE f[i]]
  <2>2. \A i \in 0..n : g[i] = f[i]
    OBVIOUS
  <2>3. f[0] = Start /\ \A i \in 1..n : f[i] = SplitNext(f[i - 1], s[i])
    BY <2>1 DEF Splits
  <2>4. g[0] = Start
    BY <2>2, <2>3
  <2>5. \A i \in 1..n : g[i] = SplitNext(g[i - 1], s[i])
    BY <2>2, <2>3
  <2>6. g[n + 1] = SplitNext(g[n], s[n + 1])
    BY <2>2
  <2>7. g = [i \in 0..(n + 1) |-> g[i]]
    OBVIOUS
  <2> HIDE DEF g
  <2>8. \A i \in 0..(n + 1) : g[i] = IF i = 0 THEN Start ELSE SplitNext(g[i - 1], s[i])
    <3> TAKE i \in 0..(n + 1)
    <3>1. i = 0 \/ i \in 1..n \/ i = n + 1
      OBVIOUS
    <3>2. CASE i = n + 1
      <4>1. i # 0 /\ i - 1 = n
        BY <3>2
      <4> QED
        BY <2>6, <3>2, <4>1
    <3> QED
      BY <2>4, <2>5, <3>1, <3>2
  <2>9. Splits(g, s, n + 1)
    BY <2>7, <2>8 DEF Splits
  <2> QED
    BY <2>9
<1> HIDE DEF T
<1>3. Nat \subseteq T
  BY <1>1, <1>2, SetInduction
<1> QED
  BY <1>3 DEF T

(* And no two of them.                                                     *)
LEMMA SplitsAgree ==
  ASSUME NEW s, NEW t, NEW n \in Nat, NEW m \in Nat, n <= m,
         \A i \in 1..n : s[i] = t[i],
         NEW f, Splits(f, s, n), NEW g, Splits(g, t, m)
  PROVE  f[n] = g[n]
<1> DEFINE T == {i \in Nat : i <= n => f[i] = g[i]}
<1>1. f[0] = Start /\ \A i \in 1..n : f[i] = SplitNext(f[i - 1], s[i])
  BY DEF Splits
<1>2. g[0] = Start /\ \A i \in 1..m : g[i] = SplitNext(g[i - 1], t[i])
  BY DEF Splits
<1>3. 0 \in T
  BY <1>1, <1>2
<1>4. ASSUME NEW i \in Nat, i \in T PROVE i + 1 \in T
  <2>1. CASE i + 1 <= n
    <3>1. i + 1 \in 1..n /\ i + 1 \in 1..m /\ i + 1 - 1 = i
      BY <2>1
    <3>2. f[i] = g[i]
      BY <1>4, <2>1
    <3>3. f[i + 1] = SplitNext(f[i], s[i + 1]) /\ g[i + 1] = SplitNext(g[i], t[i + 1])
      BY <1>1, <1>2, <3>1
    <3> QED
      BY <3>1, <3>2, <3>3
  <2> QED
    BY <2>1
<1> HIDE DEF T
<1>5. Nat \subseteq T
  BY <1>3, <1>4, SetInduction
<1> QED
  BY <1>5 DEF T

(* splitPong ends a field more than its loop has.                          *)
LEMMA SplitPong == \A s : splitPong(s) = Append(After(s).fields, After(s).cur)
BY DEF splitPong, After, Splits, Start

(* The loop of splitPong, a symbol at a time.                              *)
LEMMA AfterEmpty == After(<<>>) = Start
<1>1. PICK f : Splits(f, <<>>, 0)
  BY SplitsExist
<1>2. Splits(CHOOSE g : Splits(g, <<>>, 0), <<>>, 0)
  BY <1>1
<1>3. Len(<<>>) = 0
  OBVIOUS
<1> QED
  BY <1>2, <1>3 DEF After, Splits

LEMMA AfterAppend ==
  ASSUME NEW S, NEW s \in Seq(S), NEW r \in S
  PROVE  After(Append(s, r)) = SplitNext(After(s), r)
<1> DEFINE n == Len(s)
           t == Append(s, r)
           f == CHOOSE h : Splits(h, s, Len(s))
           g == CHOOSE h : Splits(h, t, Len(t))
<1>1. n \in Nat /\ Len(t) = n + 1 /\ t[n + 1] = r /\ \A i \in 1..n : t[i] = s[i]
  BY AppendProperties
<1>2. Splits(f, s, n)
  BY <1>1, SplitsExist
<1>3. Splits(g, t, n + 1)
  BY <1>1, SplitsExist
<1>4. After(s) = f[n] /\ After(t) = g[n + 1]
  BY <1>1 DEF After
<1> HIDE DEF n, t, f, g
<1>5. f[n] = g[n]
  <2>1. n + 1 \in Nat /\ n <= n + 1 /\ \A i \in 1..n : s[i] = t[i]
    BY <1>1
  <2> QED
    BY <1>1, <1>2, <1>3, <2>1, SplitsAgree
<1>6. g[n + 1] = SplitNext(g[n], t[n + 1])
  <2>1. n + 1 \in 1..(n + 1) /\ n + 1 - 1 = n
    BY <1>1
  <2>2. \A i \in 1..(n + 1) : g[i] = SplitNext(g[i - 1], t[i])
    BY <1>1, <1>3 DEF Splits
  <2>3. g[n + 1] = SplitNext(g[n + 1 - 1], t[n + 1])
    BY <1>1, <2>1, <2>2
  <2> QED
    BY <2>1, <2>3
<1> QED
  BY <1>1, <1>4, <1>5, <1>6 DEF t

-------------------------------------------------------------------------------
(* What one symbol of a name is written as.                                *)
Written(c) == IF c \in {";", "\\"} THEN <<"\\", c>> ELSE <<c>>

(* f holds the first n symbols of the name s, written, each with all that  *)
(* comes before it.                                                        *)
Writes(f, s, n) ==
  f = [i \in 1..n |-> IF i = 1 THEN Written(s[i]) ELSE f[i - 1] \o Written(s[i])]

(* There are such texts.                                                   *)
LEMMA WritesExist == \A s : \A n \in Nat : \E f : Writes(f, s, n)
<1> SUFFICES ASSUME NEW s PROVE \A n \in Nat : \E f : Writes(f, s, n)
  OBVIOUS
<1> DEFINE T == {n \in Nat : \E f : Writes(f, s, n)}
<1>1. 0 \in T
  <2>1. Writes([i \in 1..0 |-> <<>>], s, 0)
    BY DEF Writes
  <2> QED
    BY <2>1
<1>2. ASSUME NEW n \in Nat, n \in T PROVE n + 1 \in T
  <2>1. PICK f : Writes(f, s, n)
    BY <1>2
  <2> DEFINE last == IF n = 0 THEN Written(s[1]) ELSE f[n] \o Written(s[n + 1])
             g == [i \in 1..(n + 1) |-> IF i = n + 1 THEN last ELSE f[i]]
  <2>2. \A i \in 1..n : g[i] = f[i]
    OBVIOUS
  <2>3. \A i \in 1..n : f[i] = IF i = 1 THEN Written(s[i]) ELSE f[i - 1] \o Written(s[i])
    BY <2>1 DEF Writes
  <2>4. g[n + 1] = last
    OBVIOUS
  <2>5. g = [i \in 1..(n + 1) |-> g[i]]
    OBVIOUS
  <2>6. n # 0 => last = g[n] \o Written(s[n + 1])
    <3>1. n # 0 => n \in 1..n
      OBVIOUS
    <3>2. n # 0 => f[n] = g[n]
      BY <2>2, <3>1
    <3> HIDE DEF g
    <3> QED
      BY <3>2
  <2>7. n = 0 => last = Written(s[1])
    OBVIOUS
  <2> HIDE DEF g, last
  <2>8. \A i \in 1..(n + 1) :
          g[i] = IF i = 1 THEN Written(s[i]) ELSE g[i - 1] \o Written(s[i])
    <3> TAKE i \in 1..(n + 1)
    <3>1. CASE i = n + 1 /\ n = 0
      BY <2>4, <2>7, <3>1
    <3>2. CASE i = n + 1 /\ n # 0
      <4>1. i # 1 /\ i - 1 = n
        BY <3>2
      <4> QED
        BY <2>4, <2>6, <3>2, <4>1
    <3>3. CASE i \in 1..n /\ i = 1
      BY <2>2, <2>3, <3>3
    <3>4. CASE i \in 1..n /\ i # 1
      <4>1. i - 1 \in 1..n
        BY <3>4
      <4> QED
        BY <2>2, <2>3, <3>4, <4>1
    <3> QED
      BY <3>1, <3>2, <3>3, <3>4
  <2>9. Writes(g, s, n + 1)
    BY <2>5, <2>8 DEF Writes
  <2> QED
    BY <2>9
<1> HIDE DEF T
<1>3. Nat \subseteq T
  BY <1>1, <1>2, SetInduction
<1> QED
  BY <1>3 DEF T

(* And no two of them.                                                     *)
LEMMA WritesAgree ==
  ASSUME NEW s, NEW t, NEW n \in Nat, NEW m \in Nat, 1 <= n, n <= m,
         \A i \in 1..n : s[i] = t[i],
         NEW f, Writes(f, s, n), NEW g, Writes(g, t, m)
  PROVE  f[n] = g[n]
<1> DEFINE T == {i \in Nat : 1 <= i /\ i <= n => f[i] = g[i]}
<1>1. \A i \in 1..n : f[i] = IF i = 1 THEN Written(s[i]) ELSE f[i - 1] \o Written(s[i])
  BY DEF Writes
<1>2. \A i \in 1..m : g[i] = IF i = 1 THEN Written(t[i]) ELSE g[i - 1] \o Written(t[i])
  BY DEF Writes
<1>3. 0 \in T
  OBVIOUS
<1>4. ASSUME NEW i \in Nat, i \in T PROVE i + 1 \in T
  <2>1. CASE i + 1 <= n
    <3>1. i + 1 \in 1..n /\ i + 1 \in 1..m /\ i + 1 - 1 = i /\ (i + 1 = 1 <=> i = 0)
      BY <2>1
    <3>2. i # 0 => f[i] = g[i]
      BY <1>4, <2>1
    <3>3. f[i + 1] = IF i = 0 THEN Written(s[i + 1]) ELSE f[i] \o Written(s[i + 1])
      BY <1>1, <3>1
    <3>4. g[i + 1] = IF i = 0 THEN Written(t[i + 1]) ELSE g[i] \o Written(t[i + 1])
      BY <1>2, <3>1
    <3>5. f[i + 1] = g[i + 1]
      BY <3>1, <3>2, <3>3, <3>4
    <3> QED
      BY <3>5
  <2> QED
    BY <2>1
<1> HIDE DEF T
<1>5. Nat \subseteq T
  BY <1>3, <1>4, SetInduction
<1> QED
  BY <1>5 DEF T

(* How a name is written, a symbol at a time.                              *)
LEMMA EscapeEmpty == Escape(<<>>) = <<>>
<1> DEFINE q == [i \in DOMAIN <<>> |->
                   IF <<>>[i] \in {";", "\\"} THEN <<"\\", <<>>[i]>> ELSE <<<<>>[i]>>]
<1>1. q = <<>> /\ Len(q) = 0
  OBVIOUS
<1>2. Escape(<<>>) = FlattenSeq(q)
  BY DEF Escape
<1> HIDE DEF q
<1> QED
  BY <1>1, <1>2 DEF FlattenSeq

(* The text of a name that has symbols.                                    *)
LEMMA EscapeFull ==
  ASSUME NEW S, NEW s \in Seq(S), s # <<>>
  PROVE  Escape(s) = (CHOOSE f : Writes(f, s, Len(s)))[Len(s)]
<1> DEFINE n == Len(s)
           q == [i \in DOMAIN s |->
                   IF s[i] \in {";", "\\"} THEN <<"\\", s[i]>> ELSE <<s[i]>>]
<1>1. n \in Nat \ {0} /\ DOMAIN s = 1..n
  OBVIOUS
<1>2. Len(q) = n /\ \A i \in 1..n : q[i] = Written(s[i])
  BY <1>1 DEF Written
<1>3. Escape(s) = FlattenSeq(q)
  BY DEF Escape
<1> HIDE DEF q
<1>4. FlattenSeq(q) =
        (CHOOSE f : f = [i \in 1..n |-> IF i = 1 THEN q[i] ELSE f[i - 1] \o q[i]])[n]
  BY <1>1, <1>2 DEF FlattenSeq
<1>5. ASSUME NEW f
      PROVE  [i \in 1..n |-> IF i = 1 THEN q[i] ELSE f[i - 1] \o q[i]] =
             [i \in 1..n |-> IF i = 1 THEN Written(s[i]) ELSE f[i - 1] \o Written(s[i])]
  BY <1>2
<1>6. (CHOOSE f : f = [i \in 1..n |-> IF i = 1 THEN q[i] ELSE f[i - 1] \o q[i]]) =
      (CHOOSE f : Writes(f, s, n))
  BY <1>5 DEF Writes
<1> QED
  BY <1>3, <1>4, <1>6

LEMMA EscapeAppend ==
  ASSUME NEW S, NEW s \in Seq(S), NEW c \in S
  PROVE  Escape(Append(s, c)) = Escape(s) \o Written(c)
<1> DEFINE n == Len(s)
           t == Append(s, c)
           f == CHOOSE h : Writes(h, s, Len(s))
           g == CHOOSE h : Writes(h, t, Len(t))
<1>1. /\ n \in Nat /\ Len(t) = n + 1 /\ t[n + 1] = c /\ \A i \in 1..n : t[i] = s[i]
      /\ t \in Seq(S) /\ t # <<>>
  BY AppendProperties
<1>2. Writes(f, s, n)
  BY <1>1, WritesExist
<1>3. Writes(g, t, n + 1)
  <2>1. n + 1 \in Nat /\ Len(t) = n + 1
    BY <1>1
  <2> HIDE DEF n, t
  <2>2. \E h : Writes(h, t, n + 1)
    BY <2>1, WritesExist
  <2> QED
    BY <2>1, <2>2
<1>4. Escape(t) = g[n + 1]
  BY <1>1, EscapeFull
<1>5. s # <<>> => Escape(s) = f[n]
  BY EscapeFull
<1>6. s = <<>> => n = 0
  OBVIOUS
<1>7. s # <<>> => n >= 1
  BY <1>1
<1> HIDE DEF n, t, f, g
<1>8. \A i \in 1..(n + 1) : g[i] = IF i = 1 THEN Written(t[i]) ELSE g[i - 1] \o Written(t[i])
  BY <1>1, <1>3 DEF Writes
<1>9. n + 1 \in 1..(n + 1) /\ n + 1 - 1 = n /\ (n + 1 = 1 <=> n = 0)
  BY <1>1
<1>10. CASE s = <<>>
  <2>1. g[n + 1] = Written(c)
    BY <1>1, <1>6, <1>8, <1>9, <1>10
  <2>2. Written(c) = <<>> \o Written(c)
    BY DEF Written
  <2> QED
    BY <1>4, <1>10, <2>1, <2>2, EscapeEmpty DEF t
<1>11. CASE s # <<>>
  <2>1. g[n + 1] = g[n] \o Written(c)
    <3>1. PICK k : k = n + 1
      OBVIOUS
    <3>2. k \in 1..k /\ k # 1 /\ k - 1 = n
      BY <1>1, <1>7, <1>11, <3>1
    <3>3. \A i \in 1..k : i # 1 => g[i] = g[i - 1] \o Written(t[i])
      BY <1>8, <3>1
    <3>4. g[k] = g[k - 1] \o Written(t[k])
      BY Zenon, <3>2, <3>3
    <3> QED
      BY <1>1, <3>1, <3>2, <3>4
  <2>2. f[n] = g[n]
    <3>1. n + 1 \in Nat /\ n <= n + 1 /\ 1 <= n /\ \A i \in 1..n : s[i] = t[i]
      BY <1>1, <1>7, <1>11
    <3> QED
      BY <1>1, <1>2, <1>3, <3>1, WritesAgree
  <2> QED
    BY <1>4, <1>5, <1>11, <2>1, <2>2 DEF t
<1> QED
  BY <1>10, <1>11

-------------------------------------------------------------------------------
(* What the loop of splitPong holds: the fields it has, the one it is in,  *)
(* and whether the last symbol was an escape.                              *)
States == [fields : Seq(Seq(Symbols)), cur : Seq(Symbols), escape : BOOLEAN]

Reading(st, fields, cur) ==
  st \in States /\ st.fields = fields /\ st.cur = cur /\ ~st.escape

Escaping(st, fields, cur) ==
  st \in States /\ st.fields = fields /\ st.cur = cur /\ st.escape

(* An escape changes the next symbol, and nothing else.                    *)
LEMMA EscapeStep ==
  ASSUME NEW st, NEW fields \in Seq(Seq(Symbols)), NEW cur \in Seq(Symbols),
         Reading(st, fields, cur)
  PROVE  Escaping(SplitNext(st, "\\"), fields, cur)
<1>1. st \in States /\ ~st.escape
  BY DEF Reading
<1>2. SplitNext(st, "\\") = [st EXCEPT !.escape = TRUE]
  BY <1>1 DEF SplitNext
<1> QED
  BY <1>1, <1>2 DEF Reading, Escaping, States

(* After an escape a symbol is only itself.                                *)
LEMMA EscapedStep ==
  ASSUME NEW st, NEW fields \in Seq(Seq(Symbols)), NEW cur \in Seq(Symbols),
         NEW r \in Symbols, Escaping(st, fields, cur)
  PROVE  Reading(SplitNext(st, r), fields, Append(cur, r))
<1>1. st \in States /\ st.escape /\ st.cur = cur /\ Append(cur, r) \in Seq(Symbols)
  BY AppendProperties DEF Escaping
<1>2. SplitNext(st, r) = [st EXCEPT !.escape = FALSE, !.cur = Append(cur, r)]
  BY <1>1 DEF SplitNext
<1> QED
  BY <1>1, <1>2 DEF Reading, Escaping, States

(* A separator ends the field.                                             *)
LEMMA SeparatorStep ==
  ASSUME NEW st, NEW fields \in Seq(Seq(Symbols)), NEW cur \in Seq(Symbols),
         Reading(st, fields, cur)
  PROVE  Reading(SplitNext(st, ";"), Append(fields, cur), <<>>)
<1>1. /\ st \in States /\ ~st.escape /\ st.cur = cur /\ st.fields = fields
      /\ Append(fields, cur) \in Seq(Seq(Symbols)) /\ <<>> \in Seq(Symbols)
  BY AppendProperties DEF Reading
<1>2. SplitNext(st, ";") = [st EXCEPT !.fields = Append(fields, cur), !.cur = <<>>]
  BY <1>1 DEF SplitNext
<1> QED
  BY <1>1, <1>2 DEF Reading, States

(* Any other symbol joins the field.                                       *)
LEMMA PlainStep ==
  ASSUME NEW st, NEW fields \in Seq(Seq(Symbols)), NEW cur \in Seq(Symbols),
         NEW r \in Symbols, r \notin {";", "\\"}, Reading(st, fields, cur)
  PROVE  Reading(SplitNext(st, r), fields, Append(cur, r))
<1>1. st \in States /\ ~st.escape /\ st.cur = cur /\ Append(cur, r) \in Seq(Symbols)
  BY AppendProperties DEF Reading
<1>2. SplitNext(st, r) = [st EXCEPT !.cur = Append(cur, r)]
  BY <1>1 DEF SplitNext
<1> QED
  BY <1>1, <1>2 DEF Reading, States

(* One symbol of a name, written, is read as that symbol.                  *)
LEMMA SymbolRead ==
  ASSUME NEW u \in Seq(Symbols), NEW c \in Symbols,
         NEW fields \in Seq(Seq(Symbols)), NEW cur \in Seq(Symbols),
         Reading(After(u), fields, cur)
  PROVE  /\ u \o Written(c) \in Seq(Symbols)
         /\ Reading(After(u \o Written(c)), fields, Append(cur, c))
<1>0. "\\" \in Symbols
  BY DEF Symbols
<1>1. CASE c \in {";", "\\"}
  <2>1. Append(u, "\\") \in Seq(Symbols) /\ Append(Append(u, "\\"), c) \in Seq(Symbols)
    BY <1>0, AppendProperties
  <2>2. u \o Written(c) = Append(Append(u, "\\"), c)
    <3>1. Written(c) = <<"\\", c>>
      BY <1>1 DEF Written
    <3> QED
      BY <1>0, <3>1
  <2>3. After(Append(u, "\\")) = SplitNext(After(u), "\\")
    BY <1>0, AfterAppend
  <2>4. After(Append(Append(u, "\\"), c)) = SplitNext(After(Append(u, "\\")), c)
    BY <2>1, AfterAppend
  <2>5. Escaping(After(Append(u, "\\")), fields, cur)
    BY <2>3, EscapeStep
  <2>6. Reading(After(Append(Append(u, "\\"), c)), fields, Append(cur, c))
    BY <2>4, <2>5, EscapedStep
  <2> QED
    BY <2>1, <2>2, <2>6
<1>2. CASE c \notin {";", "\\"}
  <2>1. u \o Written(c) = Append(u, c)
    <3>1. Written(c) = <<c>>
      BY <1>2 DEF Written
    <3> QED
      BY <3>1
  <2>2. After(Append(u, c)) = SplitNext(After(u), c)
    BY AfterAppend
  <2>3. Append(u, c) \in Seq(Symbols)
    BY AppendProperties
  <2> QED
    BY <1>2, <2>1, <2>2, <2>3, PlainStep
<1> QED
  BY <1>1, <1>2

(* A pair is its second element behind its first.                          *)
LEMMA PairOf == ASSUME NEW S, NEW a \in S, NEW b \in S PROVE Append(<<a>>, b) = <<a, b>>
<1>1. \A u \in Seq(S) : u \o <<a, b>> = Append(Append(u, a), b)
  OBVIOUS
<1>2. <<>> \in Seq(S) /\ <<a, b>> \in Seq(S) /\ Append(<<>>, a) = <<a>>
  OBVIOUS
<1>3. <<>> \o <<a, b>> = <<a, b>>
  BY <1>2, ConcatEmptySeq
<1>4. <<>> \o <<a, b>> = Append(Append(<<>>, a), b)
  BY <1>1, <1>2
<1> QED
  BY Zenon, <1>2, <1>3, <1>4

(* A field of one symbol.                                                  *)
LEMMA OneSymbol ==
  ASSUME NEW S, NEW a \in S
  PROVE  <<>> \in Seq(S) /\ Append(<<>>, a) = <<a>> /\ <<a>> \in Seq(S)
<1>1. <<>> \in Seq(S)
  BY EmptySeq
<1>2. Append(<<>>, a) = <<a>>
  OBVIOUS
<1>3. <<a>> \in Seq(S)
  BY <1>1, <1>2, AppendProperties
<1> QED
  BY <1>1, <1>2, <1>3

(* The field before the name.                                              *)
Lead == <<"x", ";">>

(* It is read as a field of its own.                                       *)
LEMMA LeadRead == Lead \in Seq(Symbols) /\ Reading(After(Lead), <<<<"x">>>>, <<>>)
<1>1. "x" \in Symbols /\ ";" \in Symbols
  BY DEF Symbols
<1>2. <<>> \in Seq(Symbols) /\ <<>> \in Seq(Seq(Symbols))
  BY EmptySeq
<1>4. Append(<<>>, "x") = <<"x">>
  OBVIOUS
<1>3. <<"x">> \in Seq(Symbols)
  BY <1>1, <1>2, <1>4, AppendProperties
<1>5. Append(<<"x">>, ";") = Lead
  BY Zenon, <1>1, PairOf DEF Lead
<1>6. Append(<<>>, <<"x">>) = <<<<"x">>>>
  OBVIOUS
<1>7. Reading(Start, <<>>, <<>>)
  <2>1. Start.fields = <<>> /\ Start.cur = <<>>
    BY DEF Start
  <2>2. ~Start.escape
    BY Zenon DEF Start
  <2>3. Start \in States
    BY <1>2 DEF Start, States
  <2> QED
    BY <2>1, <2>2, <2>3 DEF Reading
<1>8. Reading(After(<<"x">>), <<>>, <<"x">>)
  <2>1. After(<<"x">>) = SplitNext(Start, "x")
    BY <1>1, <1>2, <1>4, AfterAppend, AfterEmpty
  <2>2. Reading(SplitNext(Start, "x"), <<>>, Append(<<>>, "x"))
    BY <1>1, <1>2, <1>7, PlainStep
  <2> QED
    BY <1>4, <2>1, <2>2
<1>9. Reading(After(Lead), <<<<"x">>>>, <<>>)
  <2>1. After(Lead) = SplitNext(After(<<"x">>), ";")
    BY <1>1, <1>3, <1>5, AfterAppend
  <2>2. Reading(SplitNext(After(<<"x">>), ";"), Append(<<>>, <<"x">>), <<>>)
    BY <1>2, <1>3, <1>8, SeparatorStep
  <2> QED
    BY <1>6, <2>1, <2>2
<1>10. Lead \in Seq(Symbols)
  BY <1>1, <1>3, <1>5, AppendProperties
<1> QED
  BY <1>9, <1>10

(* What is added to the text behind it is added to the whole.              *)
LEMMA LeadText ==
  ASSUME NEW e \in Seq(Symbols), NEW w \in Seq(Symbols)
  PROVE  Lead \o (e \o w) = (Lead \o e) \o w
BY LeadRead, ConcatAssociative

(* Behind it, a name of any length is read as it is.                       *)
LEMMA NameRead ==
  ASSUME NEW name \in Seq(Symbols)
  PROVE  /\ Escape(name) \in Seq(Symbols)
         /\ Reading(After(Lead \o Escape(name)), <<<<"x">>>>, name)
<1> DEFINE Read(s) ==
             /\ Escape(s) \in Seq(Symbols)
             /\ Reading(After(Lead \o Escape(s)), <<<<"x">>>>, s)
           T == {n \in Nat : \A s \in Seq(Symbols) : Len(s) = n => Read(s)}
<1>1. Lead \in Seq(Symbols) /\ <<<<"x">>>> \in Seq(Seq(Symbols))
  <2>1. "x" \in Symbols
    BY DEF Symbols
  <2> QED
    BY <2>1, LeadRead
<1>2. 0 \in T
  <2>1. ASSUME NEW s \in Seq(Symbols), Len(s) = 0 PROVE Read(s)
    <3>1. s = <<>>
      BY <2>1, EmptySeq
    <3>2. Lead \o <<>> = Lead
      BY <1>1
    <3>3. <<>> \in Seq(Symbols)
      BY EmptySeq
    <3> QED
      BY <3>1, <3>2, <3>3, EscapeEmpty, LeadRead
  <2> QED
    BY <2>1
<1>3. ASSUME NEW n \in Nat, n \in T PROVE n + 1 \in T
  <2>1. ASSUME NEW s \in Seq(Symbols), Len(s) = n + 1 PROVE Read(s)
    <3>1. s # <<>>
      BY <2>1
    <3>2. PICK front \in Seq(Symbols), c \in Symbols : s = Append(front, c)
      BY <3>1, SequenceEmptyOrAppend
    <3>3. Len(front) = n
      BY <2>1, <3>2, AppendProperties, LenProperties
    <3>4. Read(front)
      BY <1>3, <3>3
    <3>5. Escape(s) = Escape(front) \o Written(c)
      BY <3>2, EscapeAppend
    <3>6. Written(c) \in Seq(Symbols)
      <4>1. "\\" \in Symbols
        BY DEF Symbols
      <4>2. <<"\\", c>> \in Seq(Symbols) /\ <<c>> \in Seq(Symbols)
        BY <4>1
      <4> QED
        BY <4>2 DEF Written
    <3>7. Escape(s) \in Seq(Symbols)
      BY <3>4, <3>5, <3>6, ConcatProperties
    <3>8. Lead \o Escape(s) = (Lead \o Escape(front)) \o Written(c)
      BY <3>4, <3>5, <3>6, LeadText
    <3>9. Lead \o Escape(front) \in Seq(Symbols)
      BY <1>1, <3>4, ConcatProperties
    <3> DEFINE u == Lead \o Escape(front)
    <3>10. u \in Seq(Symbols) /\ Reading(After(u), <<<<"x">>>>, front)
      BY <3>4, <3>9
    <3>11. Lead \o Escape(s) = u \o Written(c)
      BY <3>8
    <3> HIDE DEF u
    <3>12. Reading(After(u \o Written(c)), <<<<"x">>>>, Append(front, c))
      BY <1>1, <3>10, SymbolRead
    <3> QED
      BY <3>2, <3>7, <3>11, <3>12
  <2> HIDE DEF Read
  <2> QED
    BY <2>1
<1> HIDE DEF T
<1>4. Nat \subseteq T
  BY <1>2, <1>3, SetInduction
<1>5. Len(name) \in Nat
  BY LenProperties
<1> QED
  BY <1>4, <1>5 DEF T

(* Behind the name, the protocol and the field after it are read.          *)
LEMMA PongRead ==
  ASSUME NEW name \in Seq(Symbols), NEW t \in Numerals
  PROVE  /\ Render(name, t) \in Seq(Symbols)
         /\ splitPong(Render(name, t)) =
              Append(Append(Append(<<<<"x">>>>, name), <<t>>), <<"x">>)
<1> DEFINE u  == Lead \o Escape(name)
           u1 == Append(u, ";")
           u2 == Append(u1, t)
           u3 == Append(u2, ";")
           u4 == Append(u3, "x")
           f1 == Append(<<<<"x">>>>, name)
           f2 == Append(f1, <<t>>)
<1>1. ";" \in Symbols /\ "x" \in Symbols /\ t \in Symbols /\ t \notin {";", "\\"}
  BY NegotiationAssumption DEF Symbols
<1>2. <<>> \in Seq(Symbols) /\ <<t>> \in Seq(Symbols) /\ Append(<<>>, t) = <<t>>
  BY Zenon, <1>1, OneSymbol
<1>3. Append(<<>>, "x") = <<"x">>
  BY Zenon, <1>1, OneSymbol
<1>4. <<"x">> \in Seq(Symbols)
  BY Zenon, <1>1, OneSymbol
<1>5. <<<<"x">>>> \in Seq(Seq(Symbols))
  BY <1>4
<1>6. f1 \in Seq(Seq(Symbols)) /\ f2 \in Seq(Seq(Symbols))
  BY <1>2, <1>5, AppendProperties
<1>7. u \in Seq(Symbols) /\ Reading(After(u), <<<<"x">>>>, name)
  BY NameRead, LeadRead, ConcatProperties
<1>8. Render(name, t) = u4
  <2>1. Render(name, t) = u \o <<";", t, ";", "x">>
    BY DEF Render, Lead
  <2> HIDE DEF u
  <2>2. u \o <<";", t, ";", "x">> = Append(Append(Append(Append(u, ";"), t), ";"), "x")
    <3>1. PICK a \in Symbols, d \in Symbols : a = ";" /\ d = "x"
      BY <1>1
    <3>2. ASSUME NEW v \in Seq(Symbols), NEW b \in Symbols
          PROVE  v \o <<a, b, a, d>> = Append(Append(Append(Append(v, a), b), a), d)
      OBVIOUS
    <3> QED
      BY Zenon, <1>1, <1>7, <3>1, <3>2
  <2> QED
    BY <2>1, <2>2
<1> HIDE DEF u
<1>9. u1 \in Seq(Symbols) /\ u2 \in Seq(Symbols) /\ u3 \in Seq(Symbols) /\ u4 \in Seq(Symbols)
  BY <1>1, <1>7, AppendProperties
<1> HIDE DEF f1, f2
<1>10. Reading(After(u1), f1, <<>>)
  BY <1>1, <1>5, <1>7, AfterAppend, SeparatorStep DEF f1
<1> HIDE DEF u1
<1>11. Reading(After(u2), f1, <<t>>)
  <2>1. After(u2) = SplitNext(After(u1), t)
    BY <1>1, <1>9, AfterAppend DEF u2
  <2>2. Reading(SplitNext(After(u1), t), f1, Append(<<>>, t))
    BY <1>1, <1>2, <1>6, <1>10, PlainStep
  <2> QED
    BY <1>2, <2>1, <2>2
<1> HIDE DEF u2
<1>12. Reading(After(u3), f2, <<>>)
  BY <1>1, <1>2, <1>6, <1>9, <1>11, AfterAppend, SeparatorStep DEF f2
<1> HIDE DEF u3
<1>13. Reading(After(u4), f2, <<"x">>)
  <2>1. After(u4) = SplitNext(After(u3), "x")
    BY <1>1, <1>9, AfterAppend
  <2>2. Reading(SplitNext(After(u3), "x"), f2, Append(<<>>, "x"))
    BY <1>1, <1>2, <1>6, <1>12, PlainStep
  <2> QED
    BY <1>3, <2>1, <2>2
<1> HIDE DEF u4
<1>14. splitPong(u4) = Append(f2, <<"x">>)
  BY <1>13, SplitPong DEF Reading
<1> QED
  BY <1>8, <1>9, <1>14 DEF f1, f2

(* What a server that speaks t answers is understood.                      *)
LEMMA HonestRead ==
  ASSUME NEW t \in Protocols, NEW p \in HonestPongs[t]
  PROVE  Parses(p) /\ Advertised(p) = Value[t]
<1>1. PICK name \in Names : p = Render(name, t)
  BY DEF HonestPongs
<1>2. t \in Numerals /\ Value[t] \in 1..MaxInt32 /\ name \in Seq(Symbols)
  BY NegotiationAssumption DEF Numbers
<1>3. p \in Pongs
  BY DEF Pongs, HonestPongs
<1> DEFINE f1 == Append(<<<<"x">>>>, name)
           f2 == Append(f1, <<t>>)
           f3 == Append(f2, <<"x">>)
<1>4. Fields[p] = f3
  BY <1>1, <1>2, <1>3, PongRead DEF Fields
<1>5. Len(f3) = 4 /\ f3[3] = <<t>>
  OBVIOUS
<1> HIDE DEF f1, f2, f3
<1>6. Len(Fields[p]) >= 4 /\ Fields[p][3] = <<t>>
  BY <1>4, <1>5
<1>7. Len(<<t>>) = 1 /\ <<t>>[1] = t
  OBVIOUS
<1> QED
  BY <1>2, <1>6, <1>7 DEF Parses, Usable, Advertised

-------------------------------------------------------------------------------
(* How many separators there are in a text.                                *)
Separators(s) == {i \in DOMAIN s : s[i] = ";"}

(* Another symbol is another separator, or not.                            *)
LEMMA SeparatorsAppend ==
  ASSUME NEW R, NEW s \in Seq(R), NEW r \in R, IsFiniteSet(Separators(s))
  PROVE  /\ IsFiniteSet(Separators(Append(s, r)))
         /\ r = ";" => Cardinality(Separators(Append(s, r))) = Cardinality(Separators(s)) + 1
         /\ r # ";" => Separators(Append(s, r)) = Separators(s)
<1> DEFINE t == Append(s, r)
           k == Len(s) + 1
<1>1. /\ DOMAIN s = 1..Len(s) /\ DOMAIN t = 1..k /\ Len(s) \in Nat
      /\ t[k] = r /\ \A i \in 1..Len(s) : t[i] = s[i]
  BY AppendProperties, LenProperties
<1>2. Separators(t) = IF r = ";" THEN Separators(s) \cup {k} ELSE Separators(s)
  <2>1. ASSUME NEW i \in 1..k PROVE i \in 1..Len(s) \/ i = k
    BY <1>1
  <2>2. k \in 1..k /\ \A i \in 1..Len(s) : i \in 1..k
    BY <1>1
  <2> HIDE DEF t, k
  <2> QED
    BY <1>1, <2>1, <2>2 DEF Separators
<1>3. k \notin Separators(s)
  <2>1. k \notin 1..Len(s)
    BY <1>1
  <2> HIDE DEF k
  <2> QED
    BY <1>1, <2>1 DEF Separators
<1> HIDE DEF t, k
<1> QED
  BY <1>2, <1>3, FS_AddElement DEF t

(* The loop makes its fields of the symbols it is given, and ends one only *)
(* at a separator.                                                         *)
LEMMA FieldsBound ==
  ASSUME NEW R, NEW text \in Seq(R)
  PROVE  /\ After(text).fields \in Seq(Seq(R)) /\ After(text).cur \in Seq(R)
         /\ Cardinality(Separators(text)) \in Nat
         /\ Len(After(text).fields) <= Cardinality(Separators(text))
<1> DEFINE Held == [fields : Seq(Seq(R)), cur : Seq(R), escape : BOOLEAN]
           Bound(s) == /\ After(s) \in Held
                       /\ IsFiniteSet(Separators(s))
                       /\ Len(After(s).fields) <= Cardinality(Separators(s))
           T == {n \in Nat : \A s \in Seq(R) : Len(s) = n => Bound(s)}
<1>1. ASSUME NEW st \in Held, NEW r \in R
      PROVE  /\ SplitNext(st, r) \in Held
             /\ r # ";" => Len(SplitNext(st, r).fields) = Len(st.fields)
             /\ r = ";" => Len(SplitNext(st, r).fields) \in {Len(st.fields), Len(st.fields) + 1}
  <2>1. /\ Append(st.cur, r) \in Seq(R) /\ <<>> \in Seq(R)
        /\ Append(st.fields, st.cur) \in Seq(Seq(R))
        /\ Len(Append(st.fields, st.cur)) = Len(st.fields) + 1
    BY AppendProperties
  <2>2. CASE st.escape
    <3>1. SplitNext(st, r) = [st EXCEPT !.escape = FALSE, !.cur = Append(st.cur, r)]
      BY <2>2 DEF SplitNext
    <3> QED
      BY <2>1, <3>1
  <2>3. CASE ~st.escape /\ r = "\\"
    <3>1. SplitNext(st, r) = [st EXCEPT !.escape = TRUE]
      BY <2>3 DEF SplitNext
    <3> QED
      BY <2>3, <3>1
  <2>4. CASE ~st.escape /\ r = ";"
    <3>1. SplitNext(st, r) = [st EXCEPT !.fields = Append(st.fields, st.cur), !.cur = <<>>]
      BY <2>4 DEF SplitNext
    <3> QED
      BY <2>1, <2>4, <3>1
  <2>5. CASE ~st.escape /\ r \notin {";", "\\"}
    <3>1. SplitNext(st, r) = [st EXCEPT !.cur = Append(st.cur, r)]
      BY <2>5 DEF SplitNext
    <3> QED
      BY <2>1, <3>1
  <2> QED
    BY <2>2, <2>3, <2>4, <2>5
<1>2. 0 \in T
  <2>1. ASSUME NEW s \in Seq(R), Len(s) = 0 PROVE Bound(s)
    <3>1. s = <<>>
      BY <2>1, EmptySeq
    <3>2. Separators(<<>>) = {}
      BY DEF Separators
    <3>3. Start \in Held /\ Len(Start.fields) = 0
      BY DEF Start
    <3>4. IsFiniteSet(Separators(s)) /\ Cardinality(Separators(s)) = 0
      BY <3>1, <3>2, FS_EmptySet
    <3>5. After(s) = Start
      BY <3>1, AfterEmpty
    <3> QED
      BY <3>3, <3>4, <3>5
  <2> QED
    BY <2>1
<1>3. ASSUME NEW n \in Nat, n \in T PROVE n + 1 \in T
  <2>1. ASSUME NEW s \in Seq(R), Len(s) = n + 1 PROVE Bound(s)
    <3>1. s # <<>>
      BY <2>1
    <3>2. PICK front \in Seq(R), r \in R : s = Append(front, r)
      BY <3>1, SequenceEmptyOrAppend
    <3>3. Len(front) = n
      BY <2>1, <3>2, AppendProperties, LenProperties
    <3>4. Bound(front)
      BY <1>3, <3>3
    <3>5. After(s) = SplitNext(After(front), r)
      BY <3>2, AfterAppend
    <3>6. Len(After(front).fields) \in Nat /\ Cardinality(Separators(front)) \in Nat
      BY <3>4, FS_CardinalityType, LenProperties
    <3>7. /\ After(s) \in Held
          /\ r # ";" => Len(After(s).fields) = Len(After(front).fields)
          /\ r = ";" => Len(After(s).fields) \in {Len(After(front).fields),
                                                 Len(After(front).fields) + 1}
      BY <1>1, <3>4, <3>5
    <3>8. /\ IsFiniteSet(Separators(s))
          /\ r = ";" => Cardinality(Separators(s)) = Cardinality(Separators(front)) + 1
          /\ r # ";" => Separators(s) = Separators(front)
      BY <3>2, <3>4, SeparatorsAppend
    <3>9. Len(After(front).fields) <= Cardinality(Separators(front))
      BY <3>4
    <3>10. Len(After(s).fields) <= Cardinality(Separators(s))
      <4>1. CASE r = ";"
        <5>1. /\ Len(After(s).fields) \in {Len(After(front).fields),
                                          Len(After(front).fields) + 1}
              /\ Cardinality(Separators(s)) = Cardinality(Separators(front)) + 1
          BY <3>7, <3>8, <4>1
        <5> QED
          BY <3>6, <3>9, <5>1
      <4>2. CASE r # ";"
        BY <3>7, <3>8, <3>9, <4>2
      <4> QED
        BY <4>1, <4>2
    <3> QED
      BY <3>7, <3>8, <3>10
  <2> HIDE DEF Bound
  <2> QED
    BY <2>1
<1>4. Nat \subseteq T
  <2> HIDE DEF T
  <2> QED
    BY <1>2, <1>3, SetInduction
<1>5. Bound(text)
  BY <1>4, LenProperties
<1> QED
  BY <1>5, FS_CardinalityType

(* What holds no number, or fewer than three separators, does not parse.   *)
LEMMA NonsenseRead == ASSUME NEW s \in Nonsense PROVE ~Parses(s)
<1>1. s \in Seq(Symbols) /\ s \in Pongs
  <2>1. s \in Seq(Symbols)
    BY Zenon, NonsenseAssumption
  <2> QED
    BY Zenon, <2>1 DEF Pongs
<1>2. Fields[s] = Append(After(s).fields, After(s).cur)
  BY <1>1, SplitPong DEF Fields
<1>3. CASE Cardinality({i \in DOMAIN s : s[i] = ";"}) < 3
  <2>1. /\ After(s).fields \in Seq(Seq(Symbols)) /\ After(s).cur \in Seq(Symbols)
        /\ Cardinality(Separators(s)) \in Nat
        /\ Len(After(s).fields) <= Cardinality(Separators(s))
    BY <1>1, FieldsBound
  <2>2. Len(After(s).fields) < 3 /\ Len(After(s).fields) \in Nat
    <3>1. Cardinality(Separators(s)) < 3
      BY Zenon, <1>3 DEF Separators
    <3> QED
      BY <2>1, <3>1, LenProperties
  <2>3. Len(Fields[s]) = Len(After(s).fields) + 1
    BY <1>2, <2>1, AppendProperties
  <2> QED
    BY <2>2, <2>3 DEF Parses
<1>4. CASE \A i \in DOMAIN s : s[i] \notin Numbers
  <2> DEFINE R == Symbols \ Numbers
  <2>1. s \in Seq(R)
    <3>1. s \in [1..Len(s) -> R] /\ Len(s) \in Nat
      BY <1>1, <1>4, LenProperties
    <3> QED
      BY <3>1
  <2>2. Fields[s] \in Seq(Seq(R))
    <3>1. After(s).fields \in Seq(Seq(R)) /\ After(s).cur \in Seq(R)
      BY <2>1, FieldsBound
    <3> HIDE DEF R
    <3> QED
      BY <1>2, <3>1, AppendProperties
  <2>3. ASSUME Parses(s) PROVE FALSE
    <3>1. Len(Fields[s]) >= 4 /\ Usable(Fields[s][3])
      BY <2>3 DEF Parses
    <3>2. Fields[s][3] \in Seq(R)
      <4> HIDE DEF R
      <4>1. 3 \in 1..Len(Fields[s])
        BY <2>2, <3>1, LenProperties
      <4> QED
        BY <2>2, <4>1, ElementOfSeq
    <3>3. Fields[s][3][1] \in R
      <4>1. 1 \in 1..Len(Fields[s][3])
        BY <3>1 DEF Usable
      <4> HIDE DEF R
      <4> QED
        BY <3>2, <4>1, ElementOfSeq
    <3>4. Fields[s][3][1] \in Numbers
      BY <3>1 DEF Usable, Numbers
    <3> QED
      BY <3>3, <3>4
  <2> QED
    BY <2>3
<1> QED
  BY <1>3, <1>4, NonsenseAssumption

-------------------------------------------------------------------------------
(* The server is one that may be, and a ping that is not out of date has   *)
(* left the number to announce that it told, or the compiled-in one.       *)
NegotiationInv ==
  /\ server \in Protocols
  /\ pong \in HonestPongs[server] \cup Nonsense \cup {NoAnswer}
  /\ honest = (pong \notin Nonsense \cup {NoAnswer})
  /\ honest \in BOOLEAN
  /\ heard \in BOOLEAN
  /\ fresh \in BOOLEAN
  /\ pc = "dial" /\ fresh /\ heard => announced = Value[server]
  /\ pc = "dial" /\ fresh /\ ~heard => announced = Baked

(* No session has begun at the start.                                      *)
LEMMA InitNegotiation == Init => NegotiationInv
BY DEF Init, NegotiationInv

(* Each step of the bot and of the server keeps the invariant.             *)
LEMMA NextNegotiation == NegotiationInv /\ [Next]_vars => NegotiationInv'
<1> SUFFICES ASSUME NegotiationInv, [Next]_vars PROVE NegotiationInv'
  OBVIOUS
<1> USE DEF NegotiationInv, serverVars
<1>1. CASE Negotiate
  <2>1. /\ pc' = "dial" /\ fresh' = TRUE /\ heard' = honest
        /\ UNCHANGED <<server, pong, honest>>
        /\ announced' = IF pong # NoAnswer /\ Parses(pong) THEN Advertised(pong) ELSE Baked
    BY <1>1 DEF Negotiate, protocolFor
  <2>2. CASE honest
    <3>1. pong # NoAnswer /\ pong \in HonestPongs[server]
      BY <2>2
    <3>2. announced' = Value[server]
      BY <2>1, <3>1, HonestRead
    <3> QED
      BY <2>1, <2>2, <3>2
  <2>3. CASE ~honest
    <3>1. pong = NoAnswer \/ pong \in Nonsense
      BY <2>3
    <3>2. announced' = Baked
      BY <2>1, <3>1, NonsenseRead
    <3> QED
      BY <2>1, <2>3, <3>2
  <2> QED
    BY <2>2, <2>3
<1>2. CASE PingLost
  BY <1>2 DEF PingLost
<1>3. CASE Dial
  BY <1>3 DEF Dial
<1>4. CASE Reconnect
  BY <1>4 DEF Reconnect
<1>5. CASE SessionDrops
  BY <1>5 DEF SessionDrops
<1>6. CASE ServerChanges
  BY <1>6 DEF ServerChanges
<1>7. CASE UNCHANGED vars
  BY <1>7 DEF vars
<1> QED
  BY <1>1, <1>2, <1>3, <1>4, <1>5, <1>6, <1>7 DEF Next, BotStep

(* The number announced is what the last ping told, or the compiled-in     *)
(* one, in every reachable state.                                          *)
THEOREM NegotiationInvariance == Spec => []NegotiationInv
BY InitNegotiation, NextNegotiation, PTL DEF Spec

(* Every real pong is understood, whatever the server is called.           *)
THEOREM PongUnderstood == Spec => []HonestPongUnderstood
<1>1. NegotiationInv => HonestPongUnderstood
  BY HonestRead DEF NegotiationInv, HonestPongUnderstood
<1> QED
  BY <1>1, NegotiationInvariance, PTL

(* No session is turned away for its number but for a server that has      *)
(* changed, or has told nothing and does not speak the compiled-in         *)
(* protocol.                                                               *)
THEOREM KicksHaveCauses == Spec => KickHasCause
<1>1. NegotiationInv /\ Dial /\ fresh /\ (heard \/ Value[server] = Baked) => ~kicked'
  BY DEF NegotiationInv, Dial
<1> QED
  BY <1>1, NegotiationInvariance, PTL DEF Spec, KickHasCause

-------------------------------------------------------------------------------
(* The program is over once it has an exit code.                           *)
ExitInv == exit # NoExit => job \in {"steps", "over"}

(* Between decide and the exit the verdict is that of the inputs.          *)
VerdictInv ==
  job \in {"open", "write", "act"} =>
    result = decide(library, production, vendored, upstream)

(* What is written by the end of emit is all there is to write.            *)
OutputInv == job = "act" /\ output = "file" => written = Keys(result)

(* The invariant that the proof shows to be inductive.                     *)
AnswerInv ==
  /\ output \in {"unset", "file"}
  /\ ExitInv
  /\ VerdictInv
  /\ OutputInv
  /\ AnswerIsWhole
  /\ QuietMeansMatch

(* Only equal versions match.                                              *)
LEMMA OnlyEqualMatch ==
  ASSUME NEW lib, NEW prod, NEW vend, NEW up
  PROVE  /\ decide(lib, prod, vend, up) \in Statuses
         /\ decide(lib, prod, vend, up) = "match" <=> lib = prod
BY DEF decide, Statuses

(* Nothing has been decided when the program starts.                       *)
LEMMA InitAnswer == CheckInit => AnswerInv
BY DEF CheckInit, AnswerInv, ExitInv, VerdictInv, OutputInv, AnswerIsWhole,
       QuietMeansMatch, NoExit

(* What a failed write leaves behind is never taken for an answer: it ends *)
(* the program with 2.                                                     *)
LEMMA NextAnswer == AnswerInv /\ [CheckNext]_checkVars => AnswerInv'
<1> SUFFICES ASSUME AnswerInv, [CheckNext]_checkVars PROVE AnswerInv'
  OBVIOUS
<1> USE DEF AnswerInv, ExitInv, VerdictInv, OutputInv, AnswerIsWhole,
            QuietMeansMatch, NoExit, inputVars
<1>1. CASE ResolveUpstream
  BY <1>1 DEF ResolveUpstream
<1>2. CASE Flags
  BY <1>2 DEF Flags
<1>3. CASE JobEnds
  BY <1>3 DEF JobEnds
<1>4. CASE Over
  BY <1>4 DEF Over, checkVars
<1>5. CASE Usage
  BY <1>5 DEF Usage, Exits
<1>6. CASE Decide
  BY <1>6 DEF Decide
<1>7. CASE EmitOpen
  BY <1>7 DEF EmitOpen, EmitOrDie, Exits
<1>8. CASE EmitWrite
  BY <1>8 DEF EmitWrite, EmitOrDie, Exits
<1>9. CASE EmitClose
  BY <1>9 DEF EmitClose, EmitOrDie, Exits
<1>10. CASE Act
  <2>1. /\ result \in Statuses
        /\ result = "match" => library = production
        /\ output = "file" => written = Keys(result)
    BY <1>10, OnlyEqualMatch DEF Act
  <2>2. /\ job' = "steps"
        /\ UNCHANGED <<library, production, output, result, written>>
        /\ exit' = IF result = "behind" THEN 1 ELSE 0
    BY <1>10 DEF Act, Exits
  <2>3. ~warned' => result # "blocked-on-upstream"
    BY <1>10 DEF Act
  <2>4. exit' = 0 /\ ~warned' => library' = production'
    BY <2>1, <2>2, <2>3 DEF Statuses
  <2>5. exit' \in {0, 1} /\ output' = "file" => written' = Keys(result)'
    BY <2>1, <2>2 DEF Keys
  <2> QED
    BY <2>2, <2>4, <2>5
<1>11. CASE UNCHANGED checkVars
  BY <1>11 DEF checkVars
<1> QED
  BY <1>1, <1>2, <1>3, <1>4, <1>5, <1>6, <1>7, <1>8, <1>9, <1>10, <1>11 DEF CheckNext

(* The verdict, the file and the exit code agree in every reachable state. *)
THEOREM AnswerInvariance == CheckSpec => []AnswerInv
BY InitAnswer, NextAnswer, PTL DEF CheckSpec

(* The program exits 0 or 1 under Actions only with every output of its    *)
(* verdict in the file, whichever of its writes fails.                     *)
THEOREM AnswersAreWhole == CheckSpec => []AnswerIsWhole
<1>1. AnswerInv => AnswerIsWhole
  BY DEF AnswerInv
<1> QED
  BY <1>1, AnswerInvariance, PTL

(* A run with exit code 0 and no warning compared equal versions.          *)
THEOREM QuietRunsMatch == CheckSpec => []QuietMeansMatch
<1>1. AnswerInv => QuietMeansMatch
  BY DEF AnswerInv
<1> QED
  BY <1>1, AnswerInvariance, PTL

===============================================================================
