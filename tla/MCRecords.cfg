SPECIFICATION MCSpec
CONSTANTS
    t1 = t1
    t2 = t2
    n1 = n1
    n2 = n2
    e0 = e0
    e1 = e1
    e2 = e2
    Tasks = {t1, t2}
    Nodes = {n1, n2}
    Edges = {e0, e1, e2}
    Ids = {d1, d2}
    Seqs = {s1}
    MaxRecalls = 2
    i1 = i1
    i2 = i2
    i3 = i3
    Items = {i1, i2, i3}
    r1 = r1
    r2 = r2
    r3 = r3
    g1 = g1
    x1 = x1
    Slugs = {g1}
    Others = {x1}
    None = None
INVARIANTS
    TypeOK
    EdgesAnchored
    ListsMatchEdges
    BoostsCounted
    SequencesStand
    SweepsAreComplete
    ReadStaysRead
    MirrorFollowsInbox
PROPERTIES
    LocksAreReleased
CHECK_DEADLOCK FALSE
