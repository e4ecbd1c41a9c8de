CONSTANTS
    c1 = c1
    c2 = c2
    k1 = k1
    k2 = k2
    a1 = a1
    a2 = a2
    Calls <- MCCalls
    Keys <- MCKeys
    FlatKeys <- MCFlatKeys
    Adapters <- MCAdapters
    AdapterSeq <- MCAdapterSeq
    Default = a1
    Routes <- MCRoutes
    Starts <- MCFresh
    Old = Old
    IndexLock = IndexLock
    Free = Free
    None = None
SPECIFICATION Spec
PROPERTIES IndexEntriesKept
