SPECIFICATION Spec
CONSTANTS
    CAPACITY = 3
    MAX_JUMPS = 2
    MAX_LOOPS = 3
    MAX_DO_LOOPS = 1
    MIS_RESTART = FALSE
    LooksAhead = TRUE
    Parachute = FALSE
    Missions <- EmptyMission
    NewCommands <- EditCommands
INVARIANTS TypeOK FlagsAgree
