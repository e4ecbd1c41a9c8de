CONSTANTS
    Tasks = {t1, t2, t3}
    Ids = {i1, i2}
    Ops = {"ingest", "force", "fields", "delete", "recover"}
SPECIFICATION Spec
INVARIANTS TypeOK ChainSerializes Recoverable AckedKept ListedIsStored
PROPERTIES InboxBecomesIdle
