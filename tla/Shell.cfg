SPECIFICATION ShellSpec
CONSTANTS
    view = view
    t1 = t1
    t2 = t2
    Caches = {view}
    View = view
    Inputs <- SomeRanges
    Key <- WholeKey
    Lookbacks = {1}
    Default = 1
    Times = {1, 2}
    Threads = {t1, t2}
    NoInput = NoInput
    NoKey = NoKey
    NoCache = NoCache
    NoRange = NoRange
    Panics = TRUE
INVARIANTS
    OneConstruction
    ViewCurrent
PROPERTIES
    KeyShown
    RangeKept
