SPECIFICATION Spec
CONSTANTS
    Fragments <- MCFragments
    ConnDocs <- MCConnDocs
    d1 = d1
    d2 = d2
    h1 = h1
    ticker = ticker
    owner = owner
    None = None
    Decoders = {d1, d2}
    Handlers = {h1}
    Expirer = ticker
    Stopper = owner
    MaxEntries = 2
    MaxPerWindow = 1
INVARIANTS
    TypeOK
    FragmentsOnce
    VolumeByDirection
    FlowStopClean
