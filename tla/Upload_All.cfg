SPECIFICATION Spec
CONSTANTS
    Links = {1, 2}
    Plans <- MCPlans
    Length <- MCLength
    Broken <- MCBroken
    MAX = 2
    PATIENCE = 2
    ROOM = 1
    Partial <- MCPartial
    Sends <- MCSends
    NoPlan = "none"
INVARIANTS
    TypeOK
    UploadIsWhole
    AcceptedIsStored
PROPERTY UploadEnds
