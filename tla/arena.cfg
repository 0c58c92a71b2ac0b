SPECIFICATION Spec
CONSTANTS
    Size = 4
    MoveSet = {"N", "S", "E", "W", "STAY"}
    BarriersMax = 2
    SurvivalThreshold = 5
    BarrierReserve = 1
    SafetyHorizon = 4
    Brain <- AllBrains
    Starts <- Openings
CHECK_DEADLOCK FALSE
INVARIANTS
    TypeOK
    BrainsActLegally
    GuaranteeHolds
    PromiseKept
    NeverWalledApart
PROPERTIES
    NoNeedlessRisk
    PlaysTheChase
