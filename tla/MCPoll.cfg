\* Two general collectors contend for the one slot the reservation leaves them.
SPECIFICATION Spec
CONSTANTS
    f1 = f1  g1 = g1  g2 = g2
    Collectors = {g1, g2}
    Fast = {}
    PollCap = 2
    MaxPolls = 2
    Results <- EveryResult
INVARIANTS TypeOK SlotsAccounted FastSlotReserved SnapshotIsNewestData TrackerMirrorsStore
PROPERTIES NoNewDials
CHECK_DEADLOCK FALSE
