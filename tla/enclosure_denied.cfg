SPECIFICATION Spec
CONSTANTS
    Size = 2
    MoveSet = {"N", "S", "E", "W", "STAY"}
    BarriersMax = 2
    SurvivalThreshold = 3
    Start <- Corners
    MaxFaults = 0
INVARIANT
    EnclosureAdmitted
