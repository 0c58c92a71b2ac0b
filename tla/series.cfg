SPECIFICATION FairSpec
CONSTANTS
    NumGames = 2
    SurvivalThreshold = 2
    Numbered <- Both
    MaxFaults = 2
INVARIANTS
    TypeOK
    SamePlay
    CleanSeries
PROPERTIES
    SeriesEnds
