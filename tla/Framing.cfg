CONSTANTS
    Streams <- MCStreams
    MaxRead = 64
SPECIFICATION Spec
INVARIANTS
    TypeOK
    CutsDoNotMatter
    HeldIsOneFrame
    StreamIsClean
