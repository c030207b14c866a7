SPECIFICATION Spec
CONSTANTS
    RP_MAX = 2
    RD_MAX = 2
    SP_MAX = 2
    SUCCESS_COUNT = 2
    Enabled = {0, 2}
    Starts <- SomeStarts
    Origins <- SomeOrigins
    Plants <- SomePlants
INVARIANTS TypeOK NoTestedGainsInHand
PROPERTIES SavesWholeTunes TuningEnds
