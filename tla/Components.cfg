SPECIFICATION MCSpec
CONSTANTS
    Depth = 4
    MCSenders = {1, 2}
    MCNumbers = {1, 2}
    Messages <- MCMessages
    None = None
    LogSize = 3
    a = a
    Texts = {a}
    Hello = Hello
    MaxLogged = 5
    HeapSize = 30
    Header = 5
    Align = 2
    MapMax = 3
    PermMax = 1
    t1 = t1
    t2 = t2
    MemThreads = {t1, t2}
    Requests = {1, 3}
    Null = Null
    RWX = RWX
    Perms = {ReadOnly}
    MaxAllocs = 5
    RegionMax = 2
    Blocks = {1, 2, 3}
    StackSize = 4
    CallDepth = 1
    GpRegs = 2
    CodeLen = 2
    Programs <- MCPrograms
    CycleLimit = 3
    Width = 8
    Seconds = {0, 1, 3, 4, 127, 128, 129, 255}
    BlockMax = 2
    ValueMax = 4
    MoreRounds = 1
    MaxValues = 4
    Ops = {"CONST", "LOAD", "ADD", "MUL", "DIV", "NEG", "STORE", "RETURN", "JUMP"}
    Numbers = {0, 1}
    Levels = {2}
    Inputs = {2, 5}
    PageCount = 7
    PageSize = 2
    d1 = d1
    d2 = d2
    d3 = d3
    Drivers = {d1, d2, d3}
    Sizes = {2, 3, 5}
    screen = screen
    disk = disk
    DeviceNames = {screen, disk}
    DeviceMax = 3
    NoNode = NoNode
CHECK_DEADLOCK FALSE
INVARIANTS
    RecentKept
    HeapTiled
    
    
    WordsRight
    MeaningKept
    PagesApart
    ListSound
PROPERTIES
    Implements
    Allocates
    
    RunReturns
    OptimizeReturns
