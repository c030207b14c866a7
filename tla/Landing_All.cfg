\* Counters of two or three passes: a stale count shows at the first pass it is one too high.
CONSTANTS
    LAND_TRIGGER = 1
    MAYBE_TRIGGER = 1
    CRASH_TRIGGER = 2
    CHUTE_TRIGGER = 2
    RELEASE_DELAY = 1
    RELEASE_DURATION = 1
    STICK_DELAY = 2
    AUTO_TRIM_DELAY = 3
    DISARM_DELAY = 2
    TEST_TIMEOUT = 1
    Fittings <- MCFittings
SPECIFICATION Spec
CHECK_DEADLOCK FALSE
INVARIANTS
    TypeOK
    FlightIsGuarded
PROPERTIES
    ActsOnEvidence
    LandingEnds
