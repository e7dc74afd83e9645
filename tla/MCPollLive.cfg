\* Two general collectors wait for the one slot the reservation leaves them.
SPECIFICATION FairSpec
CONSTANTS
    f1 = f1  g1 = g1  g2 = g2
    Collectors = {g1, g2}
    Fast = {}
    PollCap = 2
    MaxPolls = 2
    Results <- CleanOrFailed
PROPERTIES StopPollingReturns BecomesWarm
CHECK_DEADLOCK FALSE
