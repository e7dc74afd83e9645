SPECIFICATION Spec
CONSTANTS
    Sizes <- MCSizes
    Cap = 3
    MaxBytes = 4
    BatchMax = 2
    ExportBytes = 2
    MaxPushes = 5
INVARIANTS
    TypeOK
    BytesBounded
    Accounted
    BatchesWithinBounds
PROPERTIES
    KeepsPromise
    DrainsAfterClose
CHECK_DEADLOCK FALSE
