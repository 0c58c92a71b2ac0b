\* Two threads, tight limits, two sub-games, a midnight.  MaxInWindow is the
\* least that a lone caller never reaches; two callers do.
SPECIFICATION Spec
CONSTANTS
    t1 = t1
    t2 = t2
    Caller <- Two
    DailyQuota = 4
    Window = 2
    MaxInWindow = 3
    Capacity = 2
    Rate = 1
    Cost = 2
    QueueDepth = 1
    ConcurrentMax = 1
    MaxRetries = 2
    RetryAfter = 1
    Deadline = 1
    NumGames = 2
    MaxTime = 6
    MaxDays = 2
SYMMETRY Threads
INVARIANTS
    TypeOK
    RateHolds
    BurstHolds
    StallBounded
    BreakerStaysShut
