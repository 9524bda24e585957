SPECIFICATION FairSpec
CONSTANTS
    f1 = f1
    f2 = f2
    s1 = s1
    s2 = s2
    a1 = a1
    Files = {f1}
    Collectors = {a1}
    Slots = {s1}
    ChanCap = 1
    RetryTicks = 0
    Drops = {}
    Flushes = TRUE
    PanicModes = {"unwind"}
    MaxFaults = 0
    Endpoints = {TRUE}
    NoFile = NoFile
PROPERTIES
    EntriesAttempted
