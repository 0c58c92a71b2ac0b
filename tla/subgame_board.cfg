SPECIFICATION Spec
CONSTANTS
    Size = 3
    MoveSet = {"N", "S", "E", "W", "STAY"}
    BarriersMax = 3
    SurvivalThreshold = 5
    Start <- Corners
    MaxFaults = 0
INVARIANTS
    SeenEndsAgree
PROPERTIES
    StepAlwaysAdvances
    ImplementsChase
