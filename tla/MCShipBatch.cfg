SPECIFICATION Spec
CONSTANTS
    Cap = 4
    BatchMax = 4
    Pollers = {}
    Receivers = {r1}
    SelfLogs = {}
    FlowLogs = {}
    ResKey <- MCKey
    MaxAttempts = 3
    MinChunk = 2
    PaceStart = 2
    MaxOffers = 4
INVARIANTS
    TypeOK
    Ledger
    PartitionOrder
PROPERTIES
    OneLateAttempt
    DropReasons
    KeepsLedger
CHECK_DEADLOCK FALSE
