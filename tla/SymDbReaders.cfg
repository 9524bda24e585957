SPECIFICATION FairSpec
CONSTANTS
    c1 = c1
    c2 = c2
    f1 = f1
    i1 = i1
    i2 = i2
    i3 = i3
    i4 = i4
    i5 = i5
    Clients = {c1, c2}
    Files = {f1}
    Trees = {t1}
    Inodes = {i1, i2, i3, i4, i5}
    Partial = Partial
    None = None
    Absent = Absent
    MayInsert <- OneInserter
INVARIANTS
    TreesWhole
PROPERTIES
    MappedStable
    CacheStable
    CallsReturn
