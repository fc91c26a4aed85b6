CONSTANTS
    Confs <- MCConfs
    MaxFaults = 2
    MaxOps = 2
SPECIFICATION Spec
INVARIANT TypeOK
PROPERTIES
    AppliedAsSourced
    BootsReachable
CHECK_DEADLOCK FALSE
