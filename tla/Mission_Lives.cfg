SPECIFICATION CruiseSpec
CONSTANTS
    CAPACITY = 5
    MAX_JUMPS = 2
    MAX_LOOPS = 3
    MAX_DO_LOOPS = 1
    MIS_RESTART = FALSE
    LooksAhead = TRUE
    Parachute = TRUE
    Missions <- LoopMissions
    NewCommands = {}
INVARIANTS FliesTheMission JumpsBounded
PROPERTIES SearchReturns MissionCompletes
