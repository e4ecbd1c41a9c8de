CONSTANTS
    k1 = k1
    k2 = k2
    plain = plain
    nested = nested
    other = other
    Keys = {k1, k2}
    Values <- MCNested
    Hash <- MCHash
    None = None
    Options <- MCPush
    Starts <- MCStarts
    MaxEdits = 1
    MaxRuns = 1
SPECIFICATION Spec
INVARIANTS PushCopies
CHECK_DEADLOCK FALSE
