CONSTANTS
    Names = {n1, n2}
    Callers = {c1, c2, c3}
    Free = Free
SPECIFICATION Spec
INVARIANTS TypeOK MutualExclusion NoLostWakeup
PROPERTIES ImplementsMutex WaitersResume
