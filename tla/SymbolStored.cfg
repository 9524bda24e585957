SPECIFICATION SystemSpec
CONSTANTS
    f1 = f1
    s1 = s1
    s2 = s2
    r1 = r1
    a1 = a1
    Files = {f1}
    Collectors = {a1}
    Slots = {s1, s2}
    ChanCap = 1
    RetryTicks = 0
    Drops = {}
    Flushes = TRUE
    PanicModes = {"unwind", "abort"}
    MaxFaults = 1
    Endpoints = {TRUE}
    NoFile = NoFile
    Readers = {r1}
    Trees = {t1}
    Inodes = {i1, i2, i3, i4}
    Partial = Partial
    None = None
    Absent = Absent
SYMMETRY StoreSymmetry
INVARIANTS
    OneInserter
    SystemTreesWhole
    CompleteStored
PROPERTIES
    SystemMappedStable
