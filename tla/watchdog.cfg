\* One tick is 5 s.  Watch is the least budget that is Enough (530 s).
SPECIFICATION FairSpec
CONSTANTS
    NumGames = 2
    Connect = 12
    Call = 2
    Retry = 1
    Session = 1
    Turn = 36
    Audit = 2
    Think = 0
    Watch = 106
    Poll = 1
INVARIANTS
    TypeOK
    NoticedInTime
    NoFalseAlarm
PROPERTIES
    FreezeIsSaved
