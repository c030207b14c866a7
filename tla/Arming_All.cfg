SPECIFICATION Spec
CONSTANTS
    LOCKUP = 2
    RETRY = 1
    CLOCKMOD = 5
    COUNTMOD = 3
    MAXPASSES = 2
INVARIANTS TypeOK LockupDisarms SwitchlessIsGuarded EstimatorSeesSticks
PROPERTIES TripsOnlyWhenStalled
