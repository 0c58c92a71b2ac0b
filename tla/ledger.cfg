SPECIFICATION Spec
CONSTANTS
    NumGames = 2
    Steps = {0, 1}
    Points <- Table
    Settles = {"home", "away"}
    Counted = {"home", "away"}
    FirstMeeting = {"home", "away"}
    Played <- Counts
    MaxFaults = 2
CHECK_DEADLOCK FALSE
INVARIANTS
    FilingsReconcile
    AuditIsFair
