SPECIFICATION Spec
CONSTANTS
    NumGames = 2
    SurvivalThreshold = 2
    Numbered <- Both
    MaxFaults = 1
INVARIANT
    TurnAppliedOnce
