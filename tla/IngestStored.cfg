SPECIFICATION Spec
CONSTANTS
    e1 = e1
    e2 = e2
    newId = newId
    oldId = oldId
    Exports = {e1, e2}
    NoString = NoString
    Dangling = Dangling
    NoText = NoText
    AbortFile = AbortFile
    Dummy = Dummy
    BadFrame = BadFrame
    Epoch = 4
    Nano = 100
    Milli = 10
    Nows = {55}
    Dropped = {newId}
    MaxRestarts = 1
    FileIdOf <- SomeFiles
    Requests = {1, 2, 3, 4}
    Carried <- Contents
SYMMETRY ExportSymmetry
INVARIANTS
    RecordsLinked
    UnflushedAggregated
    NoHoles
    EventsExact
PROPERTIES
    FlushForgets
