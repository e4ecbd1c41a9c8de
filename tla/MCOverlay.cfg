CONSTANTS
    t1 = t1
    t2 = t2
    t3 = t3
    k1 = k1
    k2 = k2
    v1 = v1
    v2 = v2
    Tasks <- MCTasks
    Keys <- MCKeys
    Values <- MCValues
    None = None
    Unknown = Unknown
SPECIFICATION MCSpec
INVARIANTS TypeOK GetIsRegular WritesKept CommitIsComplete SnapshotIsView
PROPERTIES ImplementsCopyOnWrite
SYMMETRY Symmetry
