---------------------------- MODULE PollTimerProofs ----------------------------
(***************************************************************************)
(* Proofs about module PollTimer, for every interval, every timeout and    *)
(* every number of failures: how late news can be, and how close fetches   *)
(* can follow each other.                                                  *)
(***************************************************************************)
EXTENDS PollTimer, TLAPS

(* The time since the last fetch started, the one before, and the last tick. *)
sinceStart  == starts[1]
sinceSecond == starts[2]
sinceFire   == Interval - toTick

(* The types of the variables.                                             *)
TimerType ==
  /\ pc \in {"fetch", "report", "select"}
  /\ busy \in 0..Timeout
  /\ toTick \in 1..Interval
  /\ ticks \in {0, 1}
  /\ asked \in BOOLEAN
  /\ waiting \in BOOLEAN
  /\ carried \in BOOLEAN
  /\ age \in Nat
  /\ failures \in Nat
  /\ sinceStart \in Nat
  /\ sinceSecond \in Nat

(* A round ends in time: the calls by their timeouts, and the wait for the *)
(* next tick because an empty channel has seen no tick since the start.    *)
RoundInv ==
  /\ pc = "fetch" => sinceStart = busy
  /\ pc = "report" => sinceStart <= Timeout + busy
  /\ pc = "select" => sinceStart <= Gap /\ busy = 0
  /\ ticks = 0 => sinceStart <= sinceFire

(* News that an answer under way does not carry is younger than the fetch; *)
(* otherwise it has waited for at most a round per failure and one more.   *)
AgeInv ==
  /\ pc = "fetch" => age <= (failures + 1) * Gap + sinceStart
  /\ pc \in {"report", "select"} => age <= failures * Gap + sinceStart
  /\ pc = "fetch" /\ asked /\ waiting /\ ~carried => age <= sinceStart

(* A tick in the channel has fired since the last fetch started, and the   *)
(* one that started that fetch since the one before: an interval apart.    *)
SpreadInv ==
  /\ ticks = 1 => sinceStart >= sinceFire /\ sinceSecond >= Interval
  /\ sinceSecond >= sinceFire

(* The invariant that the proof shows to be inductive.                     *)
TimerInv == TimerType /\ RoundInv /\ AgeInv /\ SpreadInv

(* Ages are told apart well beyond a round, and a round more for a failure *)
(* is a round more.                                                        *)
LEMMA Rounds ==
  /\ Gap \in Nat /\ Gap >= Interval /\ Gap >= 2 * Timeout
  /\ Old \in Nat /\ Old > Gap
  /\ \A f \in Nat : f * Gap \in Nat /\ (f + 1) * Gap = f * Gap + Gap
<1>1. Gap \in Nat /\ Gap >= Interval /\ Gap >= 2 * Timeout
  BY TimerAssumption DEF Gap
<1>2. ASSUME NEW g \in Nat, NEW f \in Nat PROVE f * g \in Nat /\ (f + 1) * g = f * g + g
  OBVIOUS
<1>3. \A f \in Nat : f * Gap \in Nat /\ (f + 1) * Gap = f * Gap + Gap
  BY <1>1, <1>2
<1>4. Old = MaxFailures * Gap + Gap + Timeout + 1
  BY <1>1, <1>3, TimerAssumption DEF Old
<1> QED
  BY <1>1, <1>3, <1>4, TimerAssumption

(* The first fetch starts with the process.                                *)
LEMMA InitTimer == Init => TimerInv
<1> SUFFICES ASSUME Init PROVE TimerInv
  OBVIOUS
<1>1. sinceStart = 0 /\ sinceSecond = Old /\ sinceFire = 0
  BY TimerAssumption DEF Init, sinceStart, sinceSecond, sinceFire
<1>2. TimerType
  <2>1. Old \in Nat /\ Interval \in 1..Interval /\ 0 \in 0..Timeout
    BY Rounds, TimerAssumption
  <2> QED
    BY <1>1, <2>1 DEF Init, TimerType
<1>3. RoundInv /\ SpreadInv
  BY <1>1, Rounds, TimerAssumption DEF Init, RoundInv, SpreadInv
<1>4. (failures + 1) * Gap + sinceStart \in Nat
  BY <1>1, Rounds DEF Init
<1>5. AgeInv
  BY <1>1, <1>4 DEF Init, AgeInv
<1> QED
  BY <1>2, <1>3, <1>5 DEF TimerInv

(* Each step keeps the three bounds.  The products of the rounds are hidden *)
(* behind names, so that what is left is linear.                           *)
LEMMA NextTimer == TimerInv /\ [Next]_vars => TimerInv'
<1> SUFFICES ASSUME TimerInv, [Next]_vars PROVE TimerInv'
  OBVIOUS
<1> DEFINE G == Gap
           FG == failures * Gap
<1>0. /\ G \in Nat /\ G >= Interval /\ G >= 2 * Timeout
      /\ Old \in Nat /\ Old > G
      /\ FG \in Nat
      /\ Interval \in Nat \ {0} /\ Timeout \in Nat \ {0}
  BY Rounds, TimerAssumption DEF TimerInv, TimerType
<1>1. /\ (failures + 1) * Gap = FG + G
      /\ (failures + 1 + 1) * Gap = FG + G + G
      /\ 0 * Gap = 0 /\ (0 + 1) * Gap = G
  BY Rounds DEF TimerInv, TimerType
<1>2. /\ pc = "fetch" => age <= FG + G + sinceStart
      /\ pc \in {"report", "select"} => age <= FG + sinceStart
      /\ pc = "fetch" /\ asked /\ waiting /\ ~carried => age <= sinceStart
  BY <1>0, <1>1 DEF TimerInv, AgeInv
<1>3. TimerType /\ RoundInv /\ SpreadInv
  BY DEF TimerInv
<1>4. ASSUME TimerType', RoundInv', SpreadInv', UNCHANGED failures,
             pc' = "fetch" => age' <= FG + G + sinceStart',
             pc' \in {"report", "select"} => age' <= FG + sinceStart',
             pc' = "fetch" /\ asked' /\ waiting' /\ ~carried' => age' <= sinceStart'
      PROVE  TimerInv'
  BY <1>0, <1>1, <1>4 DEF TimerInv, AgeInv
<1> HIDE DEF G, FG
<1>5. CASE AgentChanges
  <2> USE <1>0, <1>2, <1>3, <1>5 DEF AgentChanges, sinceStart, sinceSecond, sinceFire
  <2>1. TimerType'
    BY DEF TimerType
  <2>2. RoundInv' /\ SpreadInv'
    BY DEF TimerType, RoundInv, SpreadInv
  <2> QED
    BY <1>4, <2>1, <2>2 DEF TimerType
<1>6. CASE AgentReads
  <2> USE <1>0, <1>2, <1>3, <1>6 DEF AgentReads, sinceStart, sinceSecond, sinceFire
  <2>1. TimerType'
    BY DEF TimerType
  <2>2. RoundInv' /\ SpreadInv'
    BY DEF TimerType, RoundInv, SpreadInv
  <2> QED
    BY <1>4, <2>1, <2>2 DEF TimerType
<1>7. CASE FetchEnds
  <2>1. /\ pc = "fetch" /\ asked /\ pc' = "report" /\ busy' = 0 /\ failures' = 0
        /\ carried' = FALSE /\ waiting' \in BOOLEAN
        /\ UNCHANGED <<toTick, ticks, asked, sinceStart, sinceSecond, sinceFire>>
    BY <1>7 DEF FetchEnds, sinceStart, sinceSecond, sinceFire
  <2>2. age' = 0 \/ (age' = age /\ waiting /\ ~carried)
    BY <1>7 DEF FetchEnds
  <2>3. age' \in Nat /\ age' <= sinceStart
    BY <1>2, <1>3, <2>1, <2>2 DEF TimerType
  <2>4. asked' \in BOOLEAN /\ carried' \in BOOLEAN
    BY <1>3, <2>1 DEF TimerType
  <2>5. busy' \in 0..Timeout
    BY <1>0, <2>1
  <2>6. TimerType'
    BY <1>3, <2>1, <2>3, <2>4, <2>5 DEF TimerType
  <2>7. RoundInv' /\ SpreadInv'
    BY <1>0, <1>3, <2>1 DEF TimerType, RoundInv, SpreadInv
  <2>8. AgeInv'
    BY <1>1, <1>3, <2>1, <2>3 DEF AgeInv, TimerType
  <2> QED
    BY <2>6, <2>7, <2>8 DEF TimerInv
<1>8. CASE FetchFails
  <2>1. /\ pc = "fetch" /\ pc' = "report" /\ busy' = 0 /\ failures' = failures + 1
        /\ carried' = FALSE
        /\ UNCHANGED <<toTick, ticks, asked, waiting, age, sinceStart, sinceSecond, sinceFire>>
    BY <1>8 DEF FetchFails, sinceStart, sinceSecond, sinceFire
  <2>2. carried' \in BOOLEAN
    BY <2>1
  <2>3. busy' \in 0..Timeout /\ failures' \in Nat
    BY <1>0, <1>3, <2>1 DEF TimerType
  <2>4. TimerType'
    BY <1>3, <2>1, <2>2, <2>3 DEF TimerType
  <2>5. RoundInv' /\ SpreadInv'
    BY <1>0, <1>3, <2>1 DEF TimerType, RoundInv, SpreadInv
  <2>6. AgeInv'
    BY <1>1, <1>2, <2>1 DEF AgeInv
  <2> QED
    BY <2>4, <2>5, <2>6 DEF TimerInv
<1>9. CASE ReportEnds
  <2> USE <1>0, <1>2, <1>3, <1>9 DEF ReportEnds, sinceStart, sinceSecond, sinceFire
  <2>1. TimerType'
    BY DEF TimerType
  <2>2. RoundInv' /\ SpreadInv'
    BY DEF TimerType, RoundInv, SpreadInv, G
  <2> QED
    BY <1>4, <2>1, <2>2 DEF TimerType
<1>10. CASE TakeTick
  <2>1. /\ pc = "select" /\ pc' = "fetch" /\ ticks = 1 /\ ticks' = 0 /\ asked' = FALSE
        /\ sinceStart' = 0 /\ sinceSecond' = sinceStart
        /\ UNCHANGED <<busy, toTick, waiting, carried, age, failures, sinceFire>>
    BY <1>3, <1>10 DEF TakeTick, TimerType, sinceStart, sinceSecond, sinceFire
  <2>2. TimerType'
    BY <1>3, <2>1 DEF TimerType
  <2>3. sinceFire \in Nat
    BY <1>0, <1>3 DEF TimerType, sinceFire
  <2>4. RoundInv'
    BY <1>0, <1>3, <2>1, <2>3 DEF RoundInv
  <2>5. SpreadInv'
    BY <1>3, <2>1 DEF SpreadInv
  <2>6. age' <= FG + G + sinceStart'
    BY <1>0, <1>2, <1>3, <2>1 DEF TimerType, RoundInv, G
  <2> QED
    BY <1>4, <2>1, <2>2, <2>4, <2>5, <2>6
<1>11. CASE TimePasses
  <2> USE <1>0, <1>2, <1>3, <1>11 DEF TimePasses
  <2>1. sinceStart <= G
    BY DEF TimerType, RoundInv, G
  <2>2. sinceStart' = sinceStart + 1
    BY <2>1 DEF Older, TimerType, sinceStart
  <2>3. sinceSecond' = IF sinceSecond < Old THEN sinceSecond + 1 ELSE sinceSecond
    BY DEF Older, sinceSecond
  <2>4. age' <= age + 1 /\ age' \in Nat
    BY DEF Older, TimerType
  <2>5. TimerType'
    BY <2>2, <2>3, <2>4 DEF TimerType, Fire
  <2>6. \/ toTick = 1 /\ ticks' = 1 /\ sinceFire' = 0 /\ sinceFire = Interval - 1
        \/ UNCHANGED ticks /\ sinceFire' = sinceFire + 1 /\ sinceFire' < Interval
    BY DEF TimerType, Fire, sinceFire
  <2>7. /\ UNCHANGED pc
        /\ busy' = IF pc = "select" THEN 0 ELSE busy + 1
        /\ pc \in {"fetch", "report"} => busy < Timeout
        /\ pc = "select" => ticks = 0
        /\ sinceFire \in 0..(Interval - 1)
    BY DEF TimerType, sinceFire
  <2> HIDE <1>2, <1>11 DEF TimePasses
  <2>8. RoundInv'
    <3>1. sinceFire \in 0..(Interval - 1) /\ sinceFire' \in 0..(Interval - 1)
      BY <2>6, <2>7
    <3>2. pc = "select" => sinceStart' <= G
      BY <2>2, <2>7, <3>1 DEF TimerType, RoundInv
    <3>3. ticks' = 0 => sinceStart' <= sinceFire'
      BY <2>2, <2>6, <2>7, <3>1 DEF TimerType, RoundInv
    <3> QED
      BY <2>2, <2>7, <3>2, <3>3 DEF TimerType, RoundInv, G
  <2>9. SpreadInv'
    <3>1. sinceSecond \in Nat /\ sinceStart \in Nat /\ ticks \in {0, 1}
      BY DEF TimerType
    <3>2. sinceSecond' >= sinceFire'
      BY <2>3, <2>6, <2>7, <3>1 DEF SpreadInv
    <3>3. ticks' = 1 => sinceStart' >= sinceFire'
      BY <2>2, <2>6, <2>7, <3>1 DEF SpreadInv
    <3>4. ticks' = 1 => sinceSecond' >= Interval
      BY <2>3, <2>6, <2>7, <3>1 DEF SpreadInv
    <3> QED
      BY <3>2, <3>3, <3>4 DEF SpreadInv
  <2>10. UNCHANGED failures /\ (waiting' => waiting) /\ (asked' => asked) /\ (carried => carried')
    BY <1>11 DEF TimePasses
  <2>11. pc' = "fetch" => age' <= FG + G + sinceStart'
    BY <1>0, <1>2, <1>3, <2>2, <2>4, <2>7 DEF TimerType
  <2>12. pc' \in {"report", "select"} => age' <= FG + sinceStart'
    BY <1>0, <1>2, <1>3, <2>2, <2>4, <2>7 DEF TimerType
  <2>13. ASSUME pc' = "fetch", asked', waiting', ~carried' PROVE age' <= sinceStart'
    <3>1. age <= sinceStart
      BY <1>2, <2>7, <2>10, <2>13
    <3> QED
      BY <3>1, <1>3, <2>2, <2>4 DEF TimerType
  <2> QED
    BY <1>4, <2>5, <2>8, <2>9, <2>10, <2>11, <2>12, <2>13
<1>12. CASE UNCHANGED vars
  BY <1>12 DEF vars, TimerInv, TimerType, RoundInv, AgeInv, SpreadInv, sinceStart, sinceSecond,
     sinceFire
<1> QED
  BY <1>5, <1>6, <1>7, <1>8, <1>9, <1>10, <1>11, <1>12 DEF Next

(* The bounds hold in every reachable state.                               *)
THEOREM TimerInvariance == Spec => []TimerInv
BY InitTimer, NextTimer, PTL DEF Spec

(* News is no later than one round per failed fetch, one more, and the     *)
(* call that brings it.                                                    *)
THEOREM NewsIsInTime == Spec => []NewsInTime
<1>1. TimerInv => NewsInTime
  <2> SUFFICES ASSUME TimerInv PROVE age <= (failures + 1) * Gap + Timeout
    BY DEF NewsInTime
  <2>1. failures * Gap \in Nat /\ (failures + 1) * Gap = failures * Gap + Gap /\ Gap \in Nat
    BY Rounds DEF TimerInv, TimerType
  <2>2. pc = "fetch" => sinceStart <= Timeout
    BY TimerAssumption DEF TimerInv, TimerType, RoundInv
  <2>3. pc # "fetch" => sinceStart <= Gap
    BY Rounds, TimerAssumption DEF TimerInv, TimerType, RoundInv
  <2> QED
    BY <2>1, <2>2, <2>3, TimerAssumption DEF TimerInv, TimerType, AgeInv
<1> QED
  BY <1>1, TimerInvariance, PTL

(* Any three fetches are spread over at least one interval.                *)
THEOREM NoBurstEver == Spec => NoBurst
<1>1. TimerInv => (TakeTick => starts[2] >= Interval)
  BY DEF TimerInv, TimerType, SpreadInv, sinceSecond, TakeTick
<1> QED
  BY <1>1, TimerInvariance, PTL DEF NoBurst

================================================================================
