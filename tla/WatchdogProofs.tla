--------------------------- MODULE WatchdogProofs ---------------------------
(***************************************************************************)
(* What the watchdog promises for every budget: it never overlooks a       *)
(* silence, and with a budget that is Enough it never raises a false       *)
(* alarm.                                                                  *)
(***************************************************************************)
EXTENDS Watchdog, TLAPS

USE DEF Activity

LEMMA BudgetIsNat == \A a \in Activity : Budget[a] \in Nat
BY WatchdogAssumption DEF Budget, Pushing

\* Every reachable state is well typed; no activity outlasts its budget.
THEOREM TypeCorrect == Spec => []TypeOK
<1>1. Init => TypeOK
  BY WatchdogAssumption, BudgetIsNat DEF Init, TypeOK, SilenceCap
<1>2. TypeOK /\ [Next]_vars => TypeOK'
  <2> SUFFICES ASSUME TypeOK, [Next]_vars PROVE TypeOK'
    OBVIOUS
  <2> USE WatchdogAssumption DEF TypeOK, SilenceCap, loopVars, dogVars, Beat, NoBeat, Runs
  <2>1. ASSUME NEW a \in Activity, Begin(a), Beat \/ NoBeat PROVE TypeOK'
    BY <2>1, BudgetIsNat DEF Begin
  <2>2. ASSUME NextSubGame PROVE TypeOK'
    BY <2>2, BudgetIsNat DEF NextSubGame, IsLast
  <2>3. CASE Greeted \/ Opens \/ EntersLoop \/ Sent \/ SentLast \/ Answers
             \/ EndsGame \/ Revealed
    BY <2>1, <2>3 DEF Greeted, Opens, EntersLoop, Sent, SentLast, Answers,
       EndsGame, Revealed
  <2>4. CASE Collected \/ GivesUp
    BY <2>2, <2>4 DEF Collected, GivesUp
  <2>5. CASE Freeze
    BY <2>5 DEF Freeze
  <2>6. CASE Tick
    BY <2>6, BudgetIsNat DEF Tick, Beating
  <2>7. CASE Wake
    BY <2>7 DEF Wake, Persisted
  <2>8. CASE Over \/ UNCHANGED vars
    BY <2>8 DEF Over, vars
  <2> QED
    BY <2>3, <2>4, <2>5, <2>6, <2>7, <2>8 DEF Next
<1> QED
  BY <1>1, <1>2, PTL DEF Spec

-----------------------------------------------------------------------------
(* At its last poll the watchdog found the silence within its budget; since *)
(* then it has slept for as long as the silence can have grown.             *)

SeenAtLastPoll == wd = "watching" => silent <= Watch + slept

\* A freeze is noticed within the budget and one poll, whatever the budget.
THEOREM FreezeNoticed == Spec => []NoticedInTime
<1>1. Init => SeenAtLastPoll
  BY WatchdogAssumption DEF Init, SeenAtLastPoll
<1>2. TypeOK /\ SeenAtLastPoll /\ [Next]_vars => SeenAtLastPoll'
  <2> SUFFICES ASSUME TypeOK, SeenAtLastPoll, [Next]_vars PROVE SeenAtLastPoll'
    OBVIOUS
  <2> USE WatchdogAssumption DEF TypeOK, SeenAtLastPoll, loopVars, dogVars, Beat, NoBeat
  <2>1. CASE Greeted \/ Opens \/ EntersLoop \/ Sent \/ SentLast \/ Answers
             \/ EndsGame \/ Revealed
    BY <2>1 DEF Greeted, Opens, EntersLoop, Sent, SentLast, Answers, EndsGame,
       Revealed, Begin
  <2>2. CASE Collected \/ GivesUp
    BY <2>2 DEF Collected, GivesUp, NextSubGame
  <2>3. CASE Freeze
    BY <2>3 DEF Freeze
  <2>4. CASE Tick
    BY <2>4 DEF Tick, SilenceCap
  <2>5. CASE Wake
    BY <2>5 DEF Wake, Expired, SilenceCap
  <2>6. CASE Over \/ UNCHANGED vars
    BY <2>6 DEF Over, vars
  <2> QED
    BY <2>1, <2>2, <2>3, <2>4, <2>5, <2>6 DEF Next
<1>3. TypeOK /\ SeenAtLastPoll => NoticedInTime
  BY WatchdogAssumption DEF TypeOK, SeenAtLastPoll, NoticedInTime
<1> QED
  BY <1>1, <1>2, <1>3, TypeCorrect, PTL DEF Spec

-----------------------------------------------------------------------------
(* Without a false alarm: what a sub-game can have gone without a beat when *)
(* an activity begins, and what all the sub-games before it can have.       *)

Before ==
    [greet   |-> 0,
     hello   |-> Budget["greet"],
     act     |-> Budget["greet"] + Budget["hello"],
     wait    |-> 0,
     reveal  |-> Budget["greet"] + Budget["hello"] + Budget["act"],
     collect |-> Budget["greet"] + Budget["hello"] + Budget["act"] + Budget["reveal"]]

Accounted ==
    loop = "live" /\ pc # "done" =>
        silent <= (game - 1) * LongestSilence + Before[pc] + spent

AlarmInv ==
    /\ Accounted
    /\ pc = "wait" /\ loop = "live" => silent = 0
    /\ pc = "done" => wd # "watching"
    /\ NoFalseAlarm

LEMMA Sums ==
    /\ LongestSilence \in Nat
    /\ \A a \in Activity : Before[a] \in Nat
    /\ \A a \in Activity : a # "wait" => Before[a] + Budget[a] <= LongestSilence
BY WatchdogAssumption DEF Before, Budget, Pushing, LongestSilence

LEMMA OneMoreGame ==
    ASSUME NEW g \in 1..NumGames
    PROVE  /\ (g - 1) * LongestSilence \in Nat
           /\ ((g + 1) - 1) * LongestSilence = (g - 1) * LongestSilence + LongestSilence
           /\ (g - 1) * LongestSilence + LongestSilence <= NumGames * LongestSilence
<1> DEFINE L == LongestSilence
           h == g - 1
           k == NumGames - g
<1>1. L \in Nat /\ h \in Nat /\ k \in Nat
  BY Sums, WatchdogAssumption
<1>2. (g + 1) - 1 = h + 1 /\ NumGames = (h + 1) + k
  BY WatchdogAssumption
<1> HIDE DEF L, h, k
<1>3. h * L \in Nat /\ k * L \in Nat /\ (h + 1) * L = h * L + L
  BY <1>1
<1>4. ((h + 1) + k) * L = (h + 1) * L + k * L
  BY <1>1
<1>5. h * L + L <= NumGames * L
  BY <1>1, <1>2, <1>3, <1>4
<1> QED
  BY <1>2, <1>3, <1>5 DEF L, h

\* A step into the next activity, with a beat or with enough set aside for it.
LEMMA BeginsWithin ==
    ASSUME TypeOK, AlarmInv, loop = "live", pc # "done",
           NEW a \in Activity, Begin(a),
           \/ Beat
           \/ NoBeat /\ a # "wait" /\ pc = "wait"
           \/ NoBeat /\ a # "wait" /\ Before[pc] + Budget[pc] <= Before[a]
    PROVE  AlarmInv'
<1> DEFINE past == (game - 1) * LongestSilence
<1>1. past \in Nat /\ Before[a] \in Nat /\ Before[pc] \in Nat /\ Budget[pc] \in Nat
  BY OneMoreGame, Sums, BudgetIsNat DEF TypeOK
<1>2. silent <= past + Before[pc] + spent /\ spent <= Budget[pc]
      /\ silent \in Nat /\ spent \in Nat
  BY WatchdogAssumption DEF AlarmInv, Accounted, TypeOK, SilenceCap
<1>3. pc' = a /\ spent' = 0 /\ game' = game /\ loop' = loop /\ wd' = wd
  BY DEF Begin, dogVars
<1> HIDE DEF past
<1>4. silent' <= past + Before[a] + 0
  BY <1>1, <1>2 DEF Beat, NoBeat, AlarmInv
<1>5. Accounted'
  BY <1>3, <1>4 DEF Accounted, past
<1>6. pc' = "wait" => silent' = 0
  BY <1>3 DEF Beat
<1> QED
  BY <1>3, <1>5, <1>6 DEF AlarmInv, NoFalseAlarm

LEMMA NextGameWithin ==
    ASSUME TypeOK, AlarmInv, loop = "live", pc \in Activity \ {"wait"}, NextSubGame
    PROVE  AlarmInv'
<1> DEFINE past == (game - 1) * LongestSilence
<1>1. past \in Nat /\ Before[pc] \in Nat /\ Budget[pc] \in Nat
      /\ Before[pc] + Budget[pc] <= LongestSilence /\ LongestSilence \in Nat
  BY OneMoreGame, Sums, BudgetIsNat DEF TypeOK
<1>2. silent <= past + Before[pc] + spent /\ spent <= Budget[pc]
      /\ silent \in Nat /\ spent \in Nat
  BY WatchdogAssumption DEF AlarmInv, Accounted, TypeOK, SilenceCap
<1>3. CASE IsLast
  BY <1>3 DEF NextSubGame, AlarmInv, Accounted, NoFalseAlarm
<1>4. CASE ~IsLast
  <2>1. pc' = "greet" /\ spent' = 0 /\ game' = game + 1 /\ silent' = silent
        /\ wd' = wd /\ loop' = loop
    BY <1>4 DEF NextSubGame, NoBeat
  <2>2. ((game + 1) - 1) * LongestSilence = past + LongestSilence
    BY OneMoreGame DEF TypeOK
  <2> HIDE DEF past
  <2>3. silent <= past + LongestSilence + 0 + 0
    BY <1>1, <1>2
  <2>4. Before["greet"] = 0
    BY DEF Before
  <2>5. Accounted'
    BY <2>1, <2>2, <2>3, <2>4, <1>1 DEF Accounted
  <2> QED
    BY <2>1, <2>5 DEF AlarmInv, NoFalseAlarm
<1> QED
  BY <1>3, <1>4

LEMMA TickWithin ==
    ASSUME TypeOK, AlarmInv, Tick
    PROVE  AlarmInv'
<1> DEFINE past == (game - 1) * LongestSilence
<1>1. UNCHANGED <<game, pc, loop, wd>>
  BY DEF Tick
<1>2. ASSUME loop = "live", pc # "done" PROVE silent' <= past + Before[pc] + spent'
  <2>1. past \in Nat /\ Before[pc] \in Nat
    BY <1>2, OneMoreGame, Sums DEF TypeOK
  <2>2. silent <= past + Before[pc] + spent /\ silent \in Nat /\ spent \in Nat
    BY <1>2, WatchdogAssumption DEF AlarmInv, Accounted, TypeOK, SilenceCap
  <2>3. spent' = spent + 1 /\ silent' <= silent + 1 /\ silent' \in Nat
    BY <1>2, <2>2 DEF Tick
  <2> HIDE DEF past
  <2> QED
    BY <2>1, <2>2, <2>3
<1>3. Accounted'
  BY <1>1, <1>2 DEF Accounted
<1>4. pc = "wait" /\ loop = "live" => silent' = 0
  BY DEF Tick, Beating, Runs
<1> QED
  BY <1>1, <1>3, <1>4 DEF AlarmInv, NoFalseAlarm

\* With a watchdog budget of NumGames times the longest silence of a sub-game
\* no working loop is taken for a frozen one, whatever the network does.
THEOREM NoAlarmWithinBudget == Enough => (Spec => []NoFalseAlarm)
<1> SUFFICES ASSUME Enough PROVE Spec => []NoFalseAlarm
  OBVIOUS
<1>1. Init => AlarmInv
  <2> SUFFICES ASSUME Init PROVE AlarmInv
    OBVIOUS
  <2>1. Before["greet"] = 0 /\ (1 - 1) * LongestSilence \in Nat
    BY WatchdogAssumption, OneMoreGame DEF Before
  <2> QED
    BY <2>1 DEF Init, AlarmInv, Accounted, NoFalseAlarm
<1>2. TypeOK /\ AlarmInv /\ [Next]_vars => AlarmInv'
  <2> SUFFICES ASSUME TypeOK, AlarmInv, [Next]_vars PROVE AlarmInv'
    OBVIOUS
  <2>1. CASE EntersLoop \/ Sent
    BY <2>1, BeginsWithin DEF EntersLoop, Sent, Runs
  <2>2. CASE Greeted \/ Opens \/ SentLast \/ Revealed
    <3>1. \A s, t \in Activity :
             <<s, t>> \in {<<"greet", "hello">>, <<"hello", "act">>,
                           <<"act", "reveal">>, <<"reveal", "collect">>}
                => Before[s] + Budget[s] <= Before[t]
      BY WatchdogAssumption DEF Before, Budget, Pushing
    <3> QED
      BY <2>2, <3>1, BeginsWithin DEF Greeted, Opens, SentLast, Revealed, Runs
  <2>3. CASE Answers \/ EndsGame
    BY <2>3, BeginsWithin DEF Answers, EndsGame, Runs
  <2>4. CASE Collected \/ GivesUp
    BY <2>4, NextGameWithin DEF Collected, GivesUp, Runs
  <2>5. CASE Freeze
    BY <2>5 DEF Freeze, AlarmInv, Accounted, NoFalseAlarm, dogVars
  <2>6. CASE Tick
    BY <2>6, TickWithin
  <2>7. CASE Wake
    <3>1. ASSUME loop = "live" PROVE ~Expired
      <4> DEFINE past == (game - 1) * LongestSilence
      <4>1. pc # "done"
        BY <2>7 DEF Wake, AlarmInv
      <4>2. CASE pc = "wait"
        BY <3>1, <4>2, WatchdogAssumption DEF AlarmInv, Expired
      <4>3. CASE pc # "wait"
        <5>1. past + LongestSilence <= NumGames * LongestSilence /\ past \in Nat
          BY OneMoreGame DEF TypeOK
        <5>2. silent <= past + Before[pc] + spent /\ spent <= Budget[pc]
              /\ silent \in Nat /\ spent \in Nat
          BY <3>1, <4>1, WatchdogAssumption DEF AlarmInv, Accounted, TypeOK, SilenceCap
        <5>3. Before[pc] + Budget[pc] <= LongestSilence /\ Before[pc] \in Nat
              /\ Budget[pc] \in Nat /\ LongestSilence \in Nat
          BY <4>1, <4>3, Sums, BudgetIsNat DEF TypeOK
        <5>4. NumGames * LongestSilence \in Nat
          BY <5>3, WatchdogAssumption
        <5> HIDE DEF past
        <5>5. silent <= NumGames * LongestSilence
          BY <5>1, <5>2, <5>3, <5>4
        <5> QED
          BY <5>4, <5>5, <5>2, WatchdogAssumption DEF Enough, Expired
      <4> QED
        BY <4>2, <4>3
    <3>2. UNCHANGED <<game, pc, spent, loop, silent>>
      BY <2>7 DEF Wake, loopVars
    <3>3. wd' = wd \/ (wd' = "triggered" /\ loop # "live")
      BY <2>7, <3>1 DEF Wake
    <3>4. Accounted'
      BY <3>2 DEF AlarmInv, Accounted
    <3>5. NoFalseAlarm'
      BY <3>2, <3>3 DEF AlarmInv, NoFalseAlarm, TypeOK
    <3> QED
      BY <3>2, <3>3, <3>4, <3>5 DEF AlarmInv
  <2>8. CASE Over \/ UNCHANGED vars
    BY <2>8 DEF Over, vars, AlarmInv, Accounted, NoFalseAlarm
  <2> QED
    BY <2>1, <2>2, <2>3, <2>4, <2>5, <2>6, <2>7, <2>8 DEF Next
<1> QED
  BY <1>1, <1>2, TypeCorrect, PTL DEF Spec, AlarmInv
=============================================================================
