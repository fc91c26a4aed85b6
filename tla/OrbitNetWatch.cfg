CONSTANTS
    Confs <- MCTwoConfs
    MaxFaults = 0
    MaxOps = 1
SPECIFICATION Spec
PROPERTY ChangeIsApplied
CHECK_DEADLOCK FALSE
