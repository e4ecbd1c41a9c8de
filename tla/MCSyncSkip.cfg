CONSTANTS
    k1 = k1
    k2 = k2
    plain = plain
    nested = nested
    other = other
    Keys = {k1, k2}
    Values <- MCValues
    Hash <- MCHash
    None = None
    Options <- MCSkip
    Starts <- MCStarts
    MaxEdits = 2
    MaxRuns = 3
SPECIFICATION Spec
PROPERTIES SkipPreserves
CHECK_DEADLOCK FALSE
