SPECIFICATION FairSpec
CONSTANTS
    f1 = f1
    f2 = f2
    s1 = s1
    s2 = s2
    a1 = a1
    Files = {f1, f2}
    Collectors = {a1}
    Slots = {s1}
    ChanCap = 1
    RetryTicks = 1
    Drops = {}
    Flushes = FALSE
    PanicModes = {}
    MaxFaults = 1
    Endpoints = {TRUE}
    NoFile = NoFile
PROPERTIES
    EntriesAttempted
    ErrorsRetried
