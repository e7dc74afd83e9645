SPECIFICATION Spec
CONSTANTS
    Cap = 2
    BatchMax = 2
    Pollers = {p1}
    Receivers = {r1}
    SelfLogs = {self}
    FlowLogs = {flow}
    ResKey <- MCKey
    MaxAttempts = 0
    MinChunk = 1
    PaceStart = 1
    MaxOffers = 2
INVARIANTS
    NoPushSwallowed
    CleanStop
PROPERTIES
    StopReturns
    EmitterExits
    BatchEnds
CHECK_DEADLOCK FALSE
