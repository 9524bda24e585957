SPECIFICATION ViewsSpec
CONSTANTS
    main = main
    work = work
    raw = raw
    Main = Main
    Work = Work
    Util = Util
    EventKeys <- SomeEvents
    Bounds <- FewBounds
    Counts = {0, 2, 3}
    Cells = 2
    Byte = 2
    Word = 16
    Builds = {"check", "wrap"}
    Frames = {main, work, raw}
    NoFunc = NoFunc
    Chains <- SomeChains
    Sample <- SomeSamples
    Ranges <- SomeRanges
    Filters <- SomeFilters
    ChanSize = 1
    MaxLocations = 2
    Trees <- SomeTrees
    CalleesOf <- SomeCallees
    TextsWith <- SomeTexts
    NoFilter = NoFilter
    NoSandwich = NoSandwich
    Unit = 256
    MinWidth = 400
    Moves <- SomeMoves
    RingCapacity = 4
    LogCapacity = 3
    TailLimit = 3
    MaxLogged = 5
    MaxDrops = 4
    NoTask = NoTask
INVARIANTS
    QueryGoesOn
    PlotsExact
    FlameExact
    SandwichExact
    TopExact
    FreqExact
    SearchExact
    RingsKeepNewest
    DropsKept
PROPERTIES
    RangeExact
    FocusShown
    WorkShrinks
