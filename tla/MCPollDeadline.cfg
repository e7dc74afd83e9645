\* Up to four cadences, so that a poll can overrun two of them, after any lag.
SPECIFICATION Spec
CONSTANTS
    Interval = 3
    MaxTime = 13
INVARIANTS DeadlineTracksTicker DeadlinesAgree
CHECK_DEADLOCK FALSE
