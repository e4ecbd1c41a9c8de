CONSTANTS
    c1 = c1
    c2 = c2
    v1 = v1
    None = None
    Clients <- MCClients
    ViewNames <- MCViewNames
    Tasks <- MCTasks
    Paths = {"a", "a/x"}
    Top <- MCTop
    Under <- MCUnder
    Queries = {"in", "by", "nat"}
    Cached = {"in", "nat"}
    Native = {"nat"}
    SizeOf <- MCSizeOf
    LargestEntry = 3
    MaxBytes = 4
    MaxWrites = 3
    MaxFaults = 1
    MaxCalls = 2
    Strategies <- MCStrategies
    Sources <- MCSources
SPECIFICATION MCSpec
INVARIANTS TypeOK CacheFollowsData CapIsNearlyKept OneRefreshPerView WriterSeesItsWrite
PROPERTIES CallsReturn
CHECK_DEADLOCK FALSE
