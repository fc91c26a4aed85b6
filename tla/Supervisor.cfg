CONSTANTS
    Environments <- MCEnvironments
    Files <- MCFiles
    Installed = {"orbit-kms"}
    Burst = 5
    MaxFaults = 2
    MaxOps = 2
SPECIFICATION Spec
INVARIANTS
    TypeOK
    SettingsAreWritten
    TakenOnce
PROPERTIES
    EndIsRespawned
    PluggedIsServed
CHECK_DEADLOCK FALSE
