SPECIFICATION Spec
CONSTANTS
    Records = {2, 3}
    KeyOf <- MCKeyOf
    Concurrency = 1
    MaxLogResources = 3
    MaxEmits = 1
    BuildMayFail = FALSE
    DrainMayTimeOut = TRUE
INVARIANTS
    AckedConfirmed
CHECK_DEADLOCK FALSE
