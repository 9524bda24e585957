SPECIFICATION Spec
CONSTANTS
    f1 = f1
    f2 = f2
    s1 = s1
    s2 = s2
    a1 = a1
    Files = {f1, f2}
    Collectors = {a1}
    Slots = {s1, s2}
    ChanCap = 1
    RetryTicks = 0
    Drops = {f1}
    Flushes = TRUE
    PanicModes = {"unwind", "abort"}
    MaxFaults = 0
    Endpoints = {TRUE, FALSE}
    NoFile = NoFile
SYMMETRY SlotSymmetry
INVARIANTS
    OneFetchPerFile
    ActiveExact
    CompleteHasSymbols
