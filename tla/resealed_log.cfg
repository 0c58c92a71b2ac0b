SPECIFICATION Spec
CONSTANTS
    NumGames = 2
    Steps = {0, 1}
    Points <- Table
    Settles = {"home", "away"}
    Counted = {"home", "away"}
    FirstMeeting = {"home", "away"}
    Played <- Counts
    MaxFaults = 1
CHECK_DEADLOCK FALSE
INVARIANT
    DeclaredCommitsHold
