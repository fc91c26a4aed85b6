CONSTANTS
    LastUnit = 3
    Parts <- MCParts
    Links <- MCLinks
    IdMod = 2
    TotalMod = 4
    IndexMod = 2
    Flight = 3
    Span = 2
SPECIFICATION Spec
INVARIANTS
    TypeOK
    EmittedUnitsAreWhole
    ArrivedUnitsAreEmitted
    DropMeansLoss
PROPERTY StreamKept
CHECK_DEADLOCK FALSE
