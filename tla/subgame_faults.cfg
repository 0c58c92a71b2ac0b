SPECIFICATION FairSpec
CONSTANTS
    Size = 2
    MoveSet = {"N", "S", "E", "W", "STAY"}
    BarriersMax = 2
    SurvivalThreshold = 3
    Start <- Corners
    MaxFaults = 2
INVARIANTS
    TypeOK
    NoPhaseError
    ExactlyOnceInOrder
    OneToken
    NoMutualWait
    ThiefKnowsEveryWall
    CaptureIsReal
    SurvivalIsReal
PROPERTIES
    EverySubGameEnds
    ImplementsChase
