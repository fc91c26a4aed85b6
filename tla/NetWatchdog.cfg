CONSTANTS
    VideoQuiet = 2
    SessionQuiet = 4
    MaxWrite = 2
    MaxInbox = 2
SPECIFICATION Spec
INVARIANTS
    TypeOK
    DeadMeansSilence
    SilenceIsNoticed
    HintFollowsVideo
PROPERTIES
    QuietVideoIsNotFatal
    DeadLinkEndsRun
CHECK_DEADLOCK FALSE
