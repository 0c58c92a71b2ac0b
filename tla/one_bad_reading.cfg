SPECIFICATION Spec
CONSTANTS
    Size = 3
    MoveSet = {"N", "S", "E", "W", "STAY"}
    BarriersMax = 1
    SurvivalThreshold = 3
    Half = 1
    Slope = 2
    Decay = 1
    Landmarks <- Park
    Start <- Starts
    Doctors = {"thief"}
    MaxBad = 1
    Hints <- Silent
CHECK_DEADLOCK FALSE
INVARIANT
    OneBadReadingForgiven
