SPECIFICATION Spec
CONSTANTS
    Keys <- MCKeys
    Source <- MCSource
    Sizes = {0, 1, 2}
    Bounds <- MCBounds
    MaxRecords = 4
INVARIANT SnapshotExact
PROPERTY SeriesMonotone
