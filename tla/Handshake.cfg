CONSTANTS
    Retry = 2
    Timeout = 5
    MaxClock = 9
    MaxInbox = 2
SPECIFICATION Spec
INVARIANTS
    TypeOK
    OpenMeansAnswered
    OpenersAreSpaced
    SilenceIsBounded
CHECK_DEADLOCK FALSE
