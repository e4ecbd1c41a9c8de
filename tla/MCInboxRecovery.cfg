CONSTANTS
    Tasks = {t1, t2, t3}
    Ids = {i1, i2}
    Ops = {"ingest", "recover"}
SPECIFICATION Spec
INVARIANTS RecoverySafe
