SPECIFICATION Spec
CONSTANTS
    c1 = c1
    c2 = c2
    c3 = c3
    k1 = k1
    k2 = k2
    k3 = k3
    v1 = v1
    v2 = v2
    Clients = {c1, c2, c3}
    Keys = {k1, k2}
    Values = {v1, v2}
    NoVal = NoVal
    Capacity = 1
    Writable <- OneValue
    Ops = {"insert", "get", "commit"}
SYMMETRY ClientSymmetry
INVARIANTS
    CoherentAtRest
