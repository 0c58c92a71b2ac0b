----------------------------- MODULE Gatekeeper -----------------------------
(***************************************************************************)
(* The gate in front of an external service: a daily quota, a latching     *)
(* breaker against bursts, a token bucket, a limit on concurrent calls and *)
(* retries with a growing pause.  Callers are threads inside execute();    *)
(* the service itself answers or fails within the caller's deadline.       *)
(*                                                                         *)
(* Time is counted in ticks, tokens in fractions: a call costs Cost and a  *)
(* tick brings Rate.                                                       *)
(***************************************************************************)
EXTENDS Integers, Sequences, FiniteSets

CONSTANTS
    Caller,         \* the threads that may call
    DailyQuota,     \* daily_quota
    Window,         \* dos_window_seconds
    MaxInWindow,    \* dos_max_in_window
    Capacity,       \* tokens of a full bucket: concurrent_max * 2 calls
    Rate,           \* tokens per tick: requests_per_minute
    Cost,           \* tokens per call
    QueueDepth,     \* queue_depth
    ConcurrentMax,  \* concurrent_max
    MaxRetries,     \* max_retries
    RetryAfter,     \* retry_after_seconds
    Deadline,       \* llm.step_deadline_seconds, handed to the service
    NumGames,       \* sub-games; each builds a gatekeeper of its own
    MaxTime,        \* bound: the clock stops here
    MaxDays         \* bound: midnight comes at most this often, minus one

ASSUME GatekeeperAssumption ==
    /\ DailyQuota \in Nat /\ Window \in Nat /\ MaxInWindow \in Nat
    /\ Rate \in Nat \ {0} /\ Cost \in Nat \ {0}
    /\ Capacity \in Nat /\ Cost <= Capacity     \* a full bucket holds a call
    /\ QueueDepth \in Nat /\ ConcurrentMax \in Nat \ {0}
    /\ MaxRetries \in Nat \ {0} /\ RetryAfter \in Nat /\ Deadline \in Nat
    /\ NumGames \in Nat \ {0} /\ MaxTime \in Nat /\ MaxDays \in Nat \ {0}

VARIABLES
    clock,      \* time.monotonic
    day,        \* the date
    game,       \* the sub-game whose gatekeeper this is
    quota,      \* [day, used]
    bucket,     \* [tokens, last]
    dos,        \* [events, locked]
    pc,         \* where each caller stands
    due,        \* when it goes on, if it sleeps; by when, if the service has it
    attempt,    \* its attempts so far
    since,      \* when it called execute()
    users,      \* the callers that ever did
    passed,     \* when calls passed the breaker
    granted     \* when calls got their token

gates == <<quota, bucket, dos>>
ghosts == <<users, passed, granted>>
vars == <<clock, day, game, quota, bucket, dos, pc, due, attempt, since,
          users, passed, granted>>

Place == {"idle",
          "breaker",    \* the quota let it pass
          "queue",      \* the breaker did
          "token",      \* it is counted as waiting, and asks for a token
          "sleep",      \* until there should be one
          "slot",       \* for the semaphore
          "call",       \* the service has it
          "backoff"}    \* until the next attempt

TypeOK ==
    /\ clock \in 0..MaxTime
    /\ day \in 1..MaxDays
    /\ game \in 1..NumGames
    /\ quota \in [day : 1..MaxDays, used : 0..DailyQuota]
    /\ bucket \in [tokens : 0..Capacity, last : 0..clock]
    /\ Len(dos.events) <= MaxInWindow + 1
    /\ dos.locked \in BOOLEAN
    /\ pc \in [Caller -> Place]
    /\ attempt \in [Caller -> 0..MaxRetries]
    /\ due \in [Caller -> Nat]
    /\ since \in [Caller -> 0..clock]
    /\ users \subseteq Caller

\* __init__: a fresh gatekeeper may act at once.
FullBucket(now) == [tokens |-> Capacity, last |-> now]
FreshQuota(today) == [day |-> today, used |-> 0]
FreshDos == [events |-> <<>>, locked |-> FALSE]

Init ==
    /\ clock = 0 /\ day = 1 /\ game = 1
    /\ quota = FreshQuota(1)
    /\ bucket = FullBucket(0)
    /\ dos = FreshDos
    /\ pc = [c \in Caller |-> "idle"]
    /\ due = [c \in Caller |-> 0]
    /\ attempt = [c \in Caller |-> 0]
    /\ since = [c \in Caller |-> 0]
    /\ users = {} /\ passed = <<>> /\ granted = <<>>

(* Bugs that the properties are there to find.                             *)
RefilledForgetful(b) ==
    LET full == b.tokens + (clock - b.last) * Rate
    IN [tokens |-> IF full < Capacity THEN full ELSE Capacity, last |-> b.last]
AffordsAny(b) == b.tokens > 0
RememberedShort(events) ==
    LET all == Append(events, clock)
        live == {i \in 1..Len(all) : all[i] + Window > clock}
        first == CHOOSE i \in live : \A j \in live : i <= j
    IN SubSeq(all, first, Len(all))
RetriesOnceMore(n) == n <= MaxRetries

-----------------------------------------------------------------------------
(* The three gates, each under its own lock.                               *)

\* QuotaManager._roll
Rolled(q) == IF q.day = day THEN q ELSE FreshQuota(day)

\* TokenBucket._refill
Refilled(b) ==
    LET full == b.tokens + (clock - b.last) * Rate
    IN [tokens |-> IF full < Capacity THEN full ELSE Capacity, last |-> clock]

Affords(b) == b.tokens >= Cost

\* TokenBucket.wait_time, rounded up to ticks; the sleep is never nothing.
WaitTime(b) ==
    LET ticks == (Cost - b.tokens + Rate - 1) \div Rate
    IN IF ticks > 0 THEN ticks ELSE 1

\* DosDetector.allow: what it remembers with this call, from the first event
\* that is not older than the window, and when that is too much.
Live(e) == e + Window >= clock
Remembered(events) ==
    LET all == Append(events, clock)
        live == {i \in 1..Len(all) : Live(all[i])}
        first == CHOOSE i \in live : \A j \in live : i <= j
    IN SubSeq(all, first, Len(all))
TooMany(events) == Len(events) > MaxInWindow

Waiting == Cardinality({c \in Caller : pc[c] \in {"token", "sleep"}})
Running == Cardinality({c \in Caller : pc[c] \in {"call", "backoff"}})

-----------------------------------------------------------------------------
(* A call, step by step.                                                   *)

Goto(c, p) == pc' = [pc EXCEPT ![c] = p]

\* execute() returns or raises; nothing of the call is left.
Leave(c) ==
    /\ Goto(c, "idle")
    /\ due' = [due EXCEPT ![c] = 0]
    /\ attempt' = [attempt EXCEPT ![c] = 0]
    /\ since' = [since EXCEPT ![c] = 0]

Stay(c, p) == Goto(c, p) /\ UNCHANGED <<due, attempt, since>>

\* _admit: the quota.
Ask(c) ==
    /\ pc[c] = "idle"
    /\ users' = users \cup {c}
    /\ LET q == Rolled(quota)
       IN IF q.used >= DailyQuota
          THEN quota' = q /\ UNCHANGED <<pc, since>>
          ELSE /\ quota' = [q EXCEPT !.used = @ + 1]
               /\ Goto(c, "breaker")
               /\ since' = [since EXCEPT ![c] = clock]
    /\ UNCHANGED <<clock, day, game, bucket, dos, due, attempt, passed, granted>>

\* _admit: the breaker.  A refused call has spent its share of the quota.
Breaker(c) ==
    /\ pc[c] = "breaker"
    /\ LET events == Remembered(dos.events)
       IN IF dos.locked \/ TooMany(events)
          THEN /\ dos' = IF dos.locked THEN dos ELSE [events |-> events, locked |-> TRUE]
               /\ Leave(c) /\ UNCHANGED passed
          ELSE /\ dos' = [dos EXCEPT !.events = events]
               /\ Stay(c, "queue") /\ passed' = Append(passed, clock)
    /\ UNCHANGED <<clock, day, game, quota, bucket, users, granted>>

\* _queue_for_token: backpressure, or a place in the queue.
Enqueue(c) ==
    /\ pc[c] = "queue"
    /\ IF Waiting >= QueueDepth THEN Leave(c) ELSE Stay(c, "token")
    /\ UNCHANGED <<clock, day, game>>
    /\ UNCHANGED gates /\ UNCHANGED ghosts

\* A round of the loop around bucket.allow(): a token, or some sleep.
TakeToken(c) ==
    /\ pc[c] = "token" \/ (pc[c] = "sleep" /\ due[c] = clock)
    /\ LET b == Refilled(bucket)
       IN IF Affords(b)
          THEN /\ bucket' = [b EXCEPT !.tokens = @ - Cost]
               /\ granted' = Append(granted, clock)
               /\ Goto(c, "slot") /\ UNCHANGED due
          ELSE /\ bucket' = b
               /\ due' = [due EXCEPT ![c] = clock + WaitTime(b)]
               /\ Goto(c, "sleep") /\ UNCHANGED granted
    /\ UNCHANGED <<clock, day, game, quota, dos, attempt, since, users, passed>>

\* An attempt: the first once the semaphore has a slot, the others after a pause.
Try(c) ==
    /\ \/ pc[c] = "slot" /\ Running < ConcurrentMax
       \/ pc[c] = "backoff" /\ due[c] = clock
    /\ Goto(c, "call")
    /\ attempt' = [attempt EXCEPT ![c] = IF pc[c] = "slot" THEN 1 ELSE @ + 1]
    /\ due' = [due EXCEPT ![c] = clock + Deadline]
    /\ UNCHANGED <<clock, day, game, since, users, passed, granted>>
    /\ UNCHANGED gates

Return(c) ==
    /\ Leave(c)
    /\ UNCHANGED <<clock, day, game>>
    /\ UNCHANGED gates /\ UNCHANGED ghosts

Succeed(c) == pc[c] = "call" /\ Return(c)

\* A failed attempt: another one later, or RateLimited.
Retries(n) == n < MaxRetries
Pause(n) == RetryAfter * n

Fail(c) ==
    /\ pc[c] = "call"
    /\ IF Retries(attempt[c])
       THEN /\ Goto(c, "backoff")
            /\ due' = [due EXCEPT ![c] = clock + Pause(attempt[c])]
            /\ UNCHANGED <<clock, day, game, attempt, since>>
            /\ UNCHANGED gates /\ UNCHANGED ghosts
       ELSE Return(c)

-----------------------------------------------------------------------------
(* Time and the sub-games.                                                 *)

\* A caller that is at a step of its own takes it before time goes on.
Ready(c) ==
    \/ pc[c] \in {"breaker", "queue", "token"}
    \/ pc[c] = "slot" /\ Running < ConcurrentMax
    \/ pc[c] \in {"sleep", "backoff", "call"} /\ due[c] = clock

Tick ==
    /\ clock < MaxTime
    /\ \A c \in Caller : ~Ready(c)
    /\ clock' = clock + 1
    /\ UNCHANGED <<day, game, pc, due, attempt, since>>
    /\ UNCHANGED gates /\ UNCHANGED ghosts

Midnight ==
    /\ day < MaxDays
    /\ day' = day + 1
    /\ UNCHANGED <<clock, game, pc, due, attempt, since, users, passed, granted>>
    /\ UNCHANGED gates

\* The next sub-game builds its world, and resolve_talker a new gatekeeper.
Rebuild ==
    /\ game < NumGames
    /\ \A c \in Caller : pc[c] = "idle"
    /\ game' = game + 1
    /\ quota' = FreshQuota(day)
    /\ bucket' = FullBucket(clock)
    /\ dos' = FreshDos
    /\ passed' = <<>> /\ granted' = <<>>
    /\ UNCHANGED <<clock, day, pc, due, attempt, since, users>>

Over == clock = MaxTime /\ UNCHANGED vars

Next ==
    \/ \E c \in Caller :
          \/ Ask(c) \/ Breaker(c) \/ Enqueue(c) \/ TakeToken(c)
          \/ Try(c) \/ Succeed(c) \/ Fail(c)
    \/ Tick \/ Midnight \/ Rebuild \/ Over

Spec == Init /\ [][Next]_vars

-----------------------------------------------------------------------------
\* Between any two grants of one bucket, the tokens handed out are at most a
\* full bucket and what flowed in meanwhile (TokenBucket): a caller may burst
\* after silence, and is then held to the rate.
RateHolds ==
    \A i, j \in 1..Len(granted) :
        i <= j => (j - i + 1) * Cost <= Capacity + Rate * (granted[j] - granted[i])

\* No window of dos_window_seconds sees more than dos_max_in_window calls pass
\* the breaker, at whatever ticks it begins (DosDetector).
BurstHolds ==
    \A i \in 1..Len(passed) :
        i + MaxInWindow <= Len(passed) => passed[i + MaxInWindow] - passed[i] > Window

\* What a call may take at most: a token's wait, every attempt at its full
\* deadline, and the pauses between them.
Stall ==
    (Cost + Rate - 1) \div Rate + MaxRetries * Deadline
        + RetryAfter * ((MaxRetries * (MaxRetries - 1)) \div 2)

Lone == Cardinality(users) <= 1

\* A lone caller's turn is never held up longer than that (execute), so the
\* opponent's turn deadline can be chosen to cover it.
StallBounded ==
    Lone => \A c \in Caller : pc[c] # "idle" => clock - since[c] <= Stall

\* A lone caller never trips the breaker however it behaves: the bucket lets it
\* come back too slowly (execute is synchronous).
BreakerStaysShut == Lone => ~dos.locked
=============================================================================
