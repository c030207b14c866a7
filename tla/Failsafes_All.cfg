SPECIFICATION FairSpec
CONSTANTS
    FS_COUNTER = 2
    TIMEOUT = 2
    OVERRIDE_TIMEOUT = 3
    ITERATIONS_MAX = 2
    Parameters <- SettingsTried
INVARIANTS TypeOK EkfFailsafeUsesNoGps LostRadioIsFlown EkfFailsafeCanEnd
PROPERTY LostRadioIsNoticed
CHECK_DEADLOCK FALSE
