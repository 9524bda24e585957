SPECIFICATION Spec
CONSTANTS
    c1 = c1
    c2 = c2
    f1 = f1
    i1 = i1
    i2 = i2
    i3 = i3
    i4 = i4
    i5 = i5
    Clients = {c1, c2}
    Files = {f1}
    Trees = {t1, t2}
    Inodes = {i1, i2, i3, i4, i5}
    Partial = Partial
    None = None
    Absent = Absent
    MayInsert <- TwoInserters
SYMMETRY DataSymmetry
PROPERTIES
    MappedStable
