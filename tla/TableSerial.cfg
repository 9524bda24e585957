SPECIFICATION Spec
CONSTANTS
    c1 = c1
    c2 = c2
    c3 = c3
    k1 = k1
    k2 = k2
    k3 = k3
    v1 = v1
    v2 = v2
    Clients = {c1}
    Keys = {k1, k2, k3}
    Values = {v1, v2}
    NoVal = NoVal
    Capacity = 2
    Writable <- AnyValue
    Ops = {"insert", "get", "remove", "commit", "flush"}
INVARIANTS
    SerialCoherent
PROPERTIES
    IsMap
