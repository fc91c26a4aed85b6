CONSTANTS
    MaxFailures = 2
    MaxQueue = 2
    MaxFrames = 1
SPECIFICATION Spec
INVARIANTS
    TypeOK
    DescriptorsOutliveWorkers
    ClosedOutputIsAnError
PROPERTIES
    ClosedOutputIsFinal
    KeepsContract
    StopIsHonoured
    PlugInIsServed
    UnplugEndsSession
CHECK_DEADLOCK FALSE
