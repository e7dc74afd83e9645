\* An instant may pass between NewTicker and time.Now().
SPECIFICATION Spec
CONSTANTS
    Interval = 3
    MaxTime = 8
INVARIANT NotBeforeNextFire
CHECK_DEADLOCK FALSE
