------------------------------ MODULE Watchdog ------------------------------
(***************************************************************************)
(* The watchdog thread beside the main loop of a series.  The main loop    *)
(* goes from one blocking activity to the next; it beats only while it     *)
(* waits for a turn.  The watchdog wakes up every poll, compares the       *)
(* silence with its budget, and fires once.                                *)
(*                                                                         *)
(* Time is counted in ticks.  What an activity does is the business of     *)
(* Series; here it only takes time, at most its budget unless the loop     *)
(* freezes in it.                                                          *)
(***************************************************************************)
EXTENDS Naturals

CONSTANTS
    NumGames,   \* league.num_games
    Connect,    \* network.connect_timeout_seconds
    Call,       \* network.call_timeout_seconds
    Retry,      \* network.retry_interval_seconds
    Session,    \* the longest it takes to close a session and open the next
    Turn,       \* network.turn_timeout_seconds
    Audit,      \* network.audit_send_timeout_seconds
    Think,      \* the longest a brain takes to decide
    Watch,      \* network.watchdog_timeout_seconds
    Poll        \* the watchdog's poll_seconds

ASSUME WatchdogAssumption ==
    /\ NumGames \in Nat \ {0}
    /\ Poll \in Nat \ {0}
    /\ Connect \in Nat /\ Call \in Nat /\ Turn \in Nat /\ Audit \in Nat
    /\ Retry \in Nat /\ Session \in Nat
    /\ Think \in Nat /\ Watch \in Nat

VARIABLES
    game,       \* the sub-game the main loop plays
    pc,         \* what it is doing
    spent,      \* for how long
    loop,       \* "live", or "frozen": it will never do anything again
    silent,     \* time since the last beat
    slept,      \* time since the watchdog last woke up
    wd,         \* the watchdog thread: "watching", "triggered" (and gone) or "stopped"
    saved       \* the loop whose state the file holds: "none", "live", "frozen"

loopVars == <<game, pc, spent, loop>>
dogVars == <<slept, wd, saved>>
vars == <<game, pc, spent, loop, silent, slept, wd, saved>>

(* Bugs that the properties are there to find.                             *)
IsOnePastLast == game > NumGames
BeatingOnEntry == FALSE
ExpiredLate == silent > Watch + Poll
ExpiredInTheLoop == pc = "wait" /\ silent > Watch

\* The longest _call_with_retry takes: a try that fails just before the
\* deadline is followed by a pause and one more, on a session of its own.
Pushing(timeout) == timeout + Retry + Session + Call

Budget ==
    [greet   |-> Session + Pushing(Connect),    \* the old session, the agreement
     hello   |-> Connect,                       \* waiting for the opponent's
     act     |-> Think + Pushing(Connect),      \* deciding, then the turn
     wait    |-> Turn,                          \* waiting for the opponent's
     reveal  |-> Pushing(Audit),                \* the log
     collect |-> Audit]                         \* waiting for the opponent's

Activity == {"greet", "hello", "act", "wait", "reveal", "collect"}

\* Bound: silence is not counted beyond what the watchdog can tell apart.
SilenceCap == Watch + Poll + 1

TypeOK ==
    /\ game \in 1..NumGames
    /\ pc \in Activity \cup {"done"}
    /\ spent \in Nat
    /\ pc # "done" => spent <= Budget[pc]
    /\ loop \in {"live", "frozen"}
    /\ silent \in 0..SilenceCap
    /\ slept \in 0..Poll
    /\ wd \in {"watching", "triggered", "stopped"}
    /\ saved \in {"none", "live", "frozen"}

Init ==
    /\ game = 1
    /\ pc = "greet"
    /\ spent = 0
    /\ loop = "live"
    /\ silent = 0
    /\ slept = 0
    /\ wd = "watching"
    /\ saved = "none"

-----------------------------------------------------------------------------
(* The main loop.                                                          *)

Runs(a) == pc = a /\ loop = "live"

Begin(a) ==
    /\ pc' = a
    /\ spent' = 0
    /\ UNCHANGED <<game, loop>>
    /\ UNCHANGED dogVars

\* An activity that beats on its way into the next.
Beat == silent' = 0
NoBeat == UNCHANGED silent

IsLast == game = NumGames

\* The next sub-game, or the end of the series, which stops the watchdog.
NextSubGame ==
    /\ spent' = 0
    /\ IF IsLast
       THEN /\ pc' = "done"
            /\ wd' = IF wd = "watching" THEN "stopped" ELSE wd
            /\ UNCHANGED game
       ELSE pc' = "greet" /\ game' = game + 1 /\ UNCHANGED wd
    /\ UNCHANGED <<loop, slept, saved>>
    /\ NoBeat

Greeted == Runs("greet") /\ Begin("hello") /\ NoBeat

\* The agreement is there: the thief opens, the police enter the loop.
Opens == Runs("hello") /\ Begin("act") /\ NoBeat
EntersLoop == Runs("hello") /\ Begin("wait") /\ Beat

\* A turn is out: the loop goes on, or the sub-game is over.
Sent == Runs("act") /\ Begin("wait") /\ Beat
SentLast == Runs("act") /\ Begin("reveal") /\ NoBeat

\* The opponent's turn has to be answered, or ends the sub-game, or is late.
Answers == Runs("wait") /\ Begin("act") /\ NoBeat
EndsGame == Runs("wait") /\ Begin("reveal") /\ NoBeat

Revealed == Runs("reveal") /\ Begin("collect") /\ NoBeat
Collected == Runs("collect") /\ NextSubGame

\* TransportError: the opponent could not be reached, or did not greet.
GivesUp ==
    /\ \E a \in {"greet", "hello", "act"} : Runs(a)
    /\ spent >= Connect
    /\ NextSubGame

\* The loop is gone: a provider that never returns, a lock, a connection
\* that is opened for ever.
Freeze ==
    /\ pc # "done" /\ loop = "live"
    /\ loop' = "frozen"
    /\ UNCHANGED <<game, pc, spent, silent>> /\ UNCHANGED dogVars

-----------------------------------------------------------------------------
(* Time, and the watchdog.                                                 *)

\* While the loop waits for a turn it beats at every poll of the inbox, which
\* is much more often than the clock ticks.
Beating == Runs("wait")

Tick ==
    /\ pc # "done"
    /\ loop = "frozen" \/ spent < Budget[pc]
    /\ wd = "watching" => slept < Poll
    /\ spent' = IF loop = "live" THEN spent + 1 ELSE spent
    /\ silent' = IF Beating THEN 0 ELSE IF silent < SilenceCap THEN silent + 1 ELSE silent
    /\ slept' = IF wd = "watching" THEN slept + 1 ELSE slept
    /\ UNCHANGED <<game, pc, loop, wd, saved>>

\* check()
Expired == silent > Watch

\* persist(): the snapshot of a loop that is still running may fail, because
\* it reads what that loop is changing.
Persisted == IF loop = "live" THEN {saved, loop} ELSE {loop}

\* _run(): on to the next poll, or fire and end the thread.  The Orchestrator
\* gives the watchdog no on_freeze.
Wake ==
    /\ wd = "watching"
    /\ slept = Poll
    /\ slept' = 0
    /\ IF Expired
       THEN wd' = "triggered" /\ saved' \in Persisted
       ELSE UNCHANGED <<wd, saved>>
    /\ UNCHANGED loopVars /\ UNCHANGED silent

Over == pc = "done" /\ UNCHANGED vars

Next ==
    \/ Greeted \/ Opens \/ EntersLoop \/ Sent \/ SentLast
    \/ Answers \/ EndsGame \/ Revealed \/ Collected \/ GivesUp
    \/ Freeze \/ Tick \/ Wake \/ Over

Spec == Init /\ [][Next]_vars

\* Time goes on, and the watchdog's thread is scheduled.
FairSpec == Spec /\ WF_vars(Tick) /\ WF_vars(Wake)

-----------------------------------------------------------------------------
\* While the watchdog watches, no silence gets past the budget and one poll
\* (_run, check): a freeze is noticed that soon wherever it strikes.
NoticedInTime == wd = "watching" => silent <= Watch + Poll

\* The watchdog takes no working main loop for a frozen one, as long as its
\* budget covers what the loop does between two beats (see Enough): handshake,
\* opening turn and audit, of every sub-game that fails before its first wait.
NoFalseAlarm == wd = "triggered" => loop = "frozen"

\* The longest a sub-game can go without a beat.
LongestSilence ==
    Budget["greet"] + Budget["hello"] + Budget["act"]
        + Budget["reveal"] + Budget["collect"]

Enough == Watch >= NumGames * LongestSilence

\* A freeze ends with the state of the frozen loop in the file that the match
\* is reported from (persist).
FreezeIsSaved == loop = "frozen" ~> saved = "frozen"
=============================================================================
