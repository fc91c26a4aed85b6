CONSTANTS
    VideoQuiet = 2
    SessionQuiet = 3
    MaxWrite = 1
    MaxInbox = 1
SPECIFICATION Spec
PROPERTY StopEndsRun
CHECK_DEADLOCK FALSE
