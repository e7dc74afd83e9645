\* Two calls of Emit; keys 1, 1, 2, 3 under a cap of two resources.
SPECIFICATION Spec
CONSTANTS
    Records = {1, 2, 3, 4}
    KeyOf <- MCKeyOf
    Concurrency = 2
    MaxLogResources = 2
    MaxEmits = 2
    BuildMayFail = TRUE
    DrainMayTimeOut = FALSE
INVARIANTS TypeOK ResultPartitions ResultShape AckedConfirmed PoolConserved ExportIsPartition
PROPERTIES NoResend
CHECK_DEADLOCK FALSE
