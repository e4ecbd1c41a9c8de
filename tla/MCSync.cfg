CONSTANTS
    k1 = k1
    k2 = k2
    plain = plain
    nested = nested
    other = other
    Keys <- MCKeys
    Values <- MCValues
    Hash <- MCHash
    None = None
    Options <- MCOptions
    Starts <- MCStarts
    MaxEdits = 2
    MaxRuns = 2
SPECIFICATION Spec
INVARIANTS TypeOK UntouchedKeysMerge BaselineDescribes
SYMMETRY KeySymmetry
CHECK_DEADLOCK FALSE
