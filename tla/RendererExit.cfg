CONSTANTS
    Environments <- MCEnvironments
    Files <- MCFiles
    Installed = {"orbit-kms"}
    Burst = 5
    MaxFaults = 1
    MaxOps = 0
SPECIFICATION Spec
PROPERTY RendererExitRespawnsPair
CHECK_DEADLOCK FALSE
