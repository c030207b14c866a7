SPECIFICATION TraceSpec
CONSTANTS
    CAPACITY = 4
    MAX_JUMPS = 2
    MAX_LOOPS = 4
    MAX_DO_LOOPS = 4
    MIS_RESTART = FALSE
    LooksAhead = TRUE
    Parachute = TRUE
    Missions <- PlannedMissions
    NewCommands = {}
INVARIANT DosOfTheLeg
PROPERTY FollowsThePlan
