------------------------- MODULE SmartRouterProofs -------------------------
(* The router for any number of calls, keys and adapters: type correctness, *)
(* the discipline of the two locks, that no update of the key index erases  *)
(* another one, that what a key holds is what its own calls left there, and *)
(* that a get returns it.                                                   *)
EXTENDS SmartRouter, TLAPS

LEMMA Constants ==
    /\ SomeKey \in Keys
    /\ FreshLocals \in Locals
    /\ NoPaths \in Paths
    /\ NoRequest \in [op : OpNames, key : Keys, to : Adapters]
    /\ 1 \in 1..Len(AdapterSeq)
    /\ {} \in Data /\ \A c \in Calls : {c} \in Data
    /\ {"route", "locate", "savePaths", "added", "dropped", "cleaned",
        "validated"} \subseteq Returns
<1>1. SomeKey \in Keys
    BY RouterAssumption DEF SomeKey
<1>2. NoPaths \in Paths
    BY DEF NoPaths, Paths, Location
<1>3. 1 \in 1..Len(AdapterSeq)
    BY RouterAssumption
<1>4. FreshLocals \in Locals
    BY <1>1, <1>2, <1>3, RouterAssumption DEF FreshLocals, Locals, Data, Returns
<1>5. NoRequest \in [op : OpNames, key : Keys, to : Adapters]
    BY <1>1, RouterAssumption DEF NoRequest, OpNames
<1> QED  BY <1>1, <1>2, <1>3, <1>4, <1>5 DEF Data, Returns

LEMMA InitTyped == Init => TypeOK
<1> SUFFICES ASSUME Init PROVE TypeOK
    OBVIOUS
<1> USE RouterAssumption, Constants
<1>1. PICK s \in Starts :
        LET listed == [k \in Keys |-> IF k \in s.keys THEN s.home[k] ELSE None]
            held == [k \in Keys |-> IF k \in s.keys THEN {Old} ELSE {}]
        IN
        /\ store = [a \in Adapters |-> [k \in Keys |->
                        IF s.home[k] = a THEN held[k] ELSE {}]]
        /\ schema = [exists |-> s.schema,
                     paths |-> IF s.schema THEN listed ELSE NoPaths]
        /\ index = listed
        /\ expect = held
        /\ home = s.home
    BY DEF Init
<1> DEFINE listed == [k \in Keys |-> IF k \in s.keys THEN s.home[k] ELSE None]
           held == [k \in Keys |-> IF k \in s.keys THEN {Old} ELSE {}]
<1>0. s.home \in [Keys -> Adapters]
    OBVIOUS
<1>2. listed \in Paths
    BY <1>0 DEF Paths, Location
<1>3. held \in [Keys -> Data]
    BY DEF Data
<1>4. store \in [Adapters -> [Keys -> Data]]
  <2>1. store = [a \in Adapters |-> [k \in Keys |->
                    IF s.home[k] = a THEN held[k] ELSE {}]]
      BY <1>1
  <2>2. ASSUME NEW a \in Adapters
        PROVE  [k \in Keys |-> IF s.home[k] = a THEN held[k] ELSE {}]
                   \in [Keys -> Data]
      BY <1>3 DEF Data
  <2> HIDE DEF held
  <2> QED  BY <2>1, <2>2
<1>5. schema \in [exists : BOOLEAN, paths : Paths]
    BY <1>1, <1>2
<1>6. index \in Paths /\ expect \in [Keys -> Data]
    BY <1>1, <1>2, <1>3
<1>7. locks \in [LockNames -> Calls \cup {Free}]
    BY DEF Init
<1>8. pc \in [Calls -> PCs]
    BY DEF Init, PCs
<1>9. req \in [Calls -> [op : OpNames, key : Keys, to : Adapters]] /\ loc \in [Calls -> Locals]
    BY DEF Init
<1>10. known \in SUBSET Keys /\ swept \in SUBSET Keys /\ alone \in SUBSET Calls
    BY DEF Init
<1>11. home \in [Keys -> Adapters] /\ strays \in SUBSET Keys
    BY <1>0, <1>1 DEF Init
<1> QED  BY <1>4, <1>5, <1>6, <1>7, <1>8, <1>9, <1>10, <1>11 DEF TypeOK

-----------------------------------------------------------------------------
(* Type correctness.                                                       *)

CallTyped == pc' \in [Calls -> PCs] /\ loc' \in [Calls -> Locals]

LEMMA FoundTyped ==
    ASSUME TypeOK, NEW c \in Calls, NEW a \in Adapters, Found(c, a)
    PROVE  CallTyped
<1>1. loc \in [Calls -> Locals]
    BY DEF TypeOK
<1>2. loc' \in [Calls -> Locals]
    BY <1>1, Constants DEF Found, Locals
<1>3. pc' \in [Calls -> PCs]
    BY DEF Found, TypeOK, Goto, PCs
<1> QED  BY <1>2, <1>3 DEF CallTyped

LEMMA GotSchemaTyped ==
    ASSUME TypeOK, NEW c \in Calls, NEW paths \in Paths, GotSchema(c, paths)
    PROVE  CallTyped
<1>1. loc \in [Calls -> Locals]
    BY DEF TypeOK
<1>2. CASE loc[c].ret = "route"
  <2>1. loc' \in [Calls -> Locals]
      BY <1>1, <1>2, Constants DEF GotSchema, Locals
  <2>2. pc' \in [Calls -> PCs]
      BY <1>2 DEF GotSchema, TypeOK, Goto, PCs
  <2> QED  BY <2>1, <2>2 DEF CallTyped
<1>3. CASE loc[c].ret = "locate"
  <2>1. CASE PathEntry(c, paths) # None
    <3>1. PathEntry(c, paths) \in Adapters
        BY <2>1 DEF TypeOK, Key, Paths, Location, PathEntry
    <3> QED  BY <1>3, <2>1, <3>1, FoundTyped DEF GotSchema
  <2>2. CASE PathEntry(c, paths) = None
    <3>1. loc' = [loc EXCEPT ![c].snap = NoPaths, ![c].pos = 1]
        BY <1>3, <2>2 DEF GotSchema
    <3>2. loc' \in [Calls -> Locals]
        BY <1>1, <3>1, Constants DEF Locals
    <3>3. pc' \in [Calls -> PCs]
        BY <1>3, <2>2 DEF GotSchema, TypeOK, Goto, PCs
    <3> QED  BY <3>2, <3>3 DEF CallTyped
  <2> QED  BY <2>1, <2>2
<1>4. CASE loc[c].ret = "savePaths"
  <2>1. loc' = [loc EXCEPT ![c].snap = paths, ![c].pos = 1]
      BY <1>4 DEF GotSchema
  <2>2. loc' \in [Calls -> Locals]
      BY <1>1, <2>1, Constants DEF Locals
  <2>3. pc' \in [Calls -> PCs]
      BY <1>4 DEF GotSchema, TypeOK, Goto, PCs
  <2> QED  BY <2>2, <2>3 DEF CallTyped
<1> QED  BY <1>2, <1>3, <1>4 DEF GotSchema

LEMMA CallGetSchemaTyped ==
    ASSUME TypeOK, NEW c \in Calls, NEW from \in Returns, CallGetSchema(c, from)
    PROVE  CallTyped
<1>1. loc \in [Calls -> Locals]
    BY DEF TypeOK
<1> DEFINE v == IF from = "route" THEN loc[c].val ELSE {}
<1>2. v \in Data
    BY <1>1, Constants DEF Locals
<1>3. [FreshLocals EXCEPT !.ret = from, !.val = v] \in Locals
    BY <1>2, Constants DEF Locals
<1>4. loc' \in [Calls -> Locals]
    BY <1>1, <1>3 DEF CallGetSchema
<1>5. pc' \in [Calls -> PCs]
    BY DEF CallGetSchema, TypeOK, Goto, PCs
<1> QED  BY <1>4, <1>5 DEF CallTyped

LEMMA GotDataTyped ==
    ASSUME TypeOK, NEW c \in Calls, NEW v \in Data, GotData(c, v)
    PROVE  CallTyped
<1>1. loc \in [Calls -> Locals]
    BY DEF TypeOK
<1>2. [FreshLocals EXCEPT !.val = v] \in Locals
    BY Constants DEF Locals
<1>3. v \cup {c} \in Data
    BY DEF Data
<1>4. [FreshLocals EXCEPT !.val = v \cup {c}, !.ret = "route"] \in Locals
    BY <1>3, Constants DEF Locals
<1>5. loc' \in [Calls -> Locals]
    BY <1>1, <1>2, <1>4 DEF GotData
<1>6. pc' \in [Calls -> PCs]
    BY DEF GotData, TypeOK, Goto, PCs
<1> QED  BY <1>5, <1>6 DEF CallTyped

LEMMA LeaveTyped ==
    ASSUME TypeOK, NEW c \in Calls, Leave(c)
    PROVE  /\ CallTyped
           /\ locks' \in [LockNames -> Calls \cup {Free}]
           /\ req' \in [Calls -> [op : OpNames, key : Keys, to : Adapters]]
<1> USE RouterAssumption, Constants
<1>1. CallTyped
    BY DEF Leave, CallTyped, TypeOK, Goto, PCs
<1>2. locks' \in [LockNames -> Calls \cup {Free}]
    BY DEF Leave, TypeOK
<1>3. req' \in [Calls -> [op : OpNames, key : Keys, to : Adapters]]
    BY DEF Leave, TypeOK
<1> QED  BY <1>1, <1>2, <1>3

LEMMA ForgetTyped ==
    ASSUME TypeOK, Forget  PROVE expect' \in [Keys -> Data]
BY DEF TypeOK, Forget, Data

FilesTyped ==
    /\ store' \in [Adapters -> [Keys -> Data]]
    /\ schema' \in [exists : BOOLEAN, paths : Paths]
    /\ index' \in Paths

LocksTyped == locks' \in [LockNames -> Calls \cup {Free}]

RequestsTyped == req' \in [Calls -> [op : OpNames, key : Keys, to : Adapters]]

HistoryTyped ==
    /\ expect' \in [Keys -> Data]
    /\ known' \in SUBSET Keys
    /\ swept' \in SUBSET Keys
    /\ alone' \in SUBSET Calls
    /\ home' \in [Keys -> Adapters]
    /\ strays' \in SUBSET Keys

LEMMA AllTyped ==
    ASSUME CallTyped, FilesTyped, LocksTyped, RequestsTyped, HistoryTyped
    PROVE  TypeOK'
BY DEF TypeOK, CallTyped, FilesTyped, LocksTyped, RequestsTyped, HistoryTyped,
       Data, LockNames, Paths, Location, PCs, OpNames, Locals, Returns

LEMMA UnchangedTyped ==
    ASSUME TypeOK
    PROVE  /\ UNCHANGED files => FilesTyped
           /\ UNCHANGED locks => LocksTyped
           /\ UNCHANGED req => RequestsTyped
           /\ UNCHANGED history => HistoryTyped
           /\ UNCHANGED <<pc, loc>> => CallTyped
BY DEF TypeOK, CallTyped, FilesTyped, LocksTyped, RequestsTyped, HistoryTyped,
       files, history

LEMMA TargetsTyped ==
    ASSUME NEW op \in OpNames, NEW k \in Keys  PROVE Targets(op, k) \subseteq Adapters
BY RouterAssumption DEF Targets

LEMMA StartTyped ==
    ASSUME TypeOK, NEW c \in Calls, NEW op \in OpNames, NEW k \in Keys,
           NEW to \in Targets(op, k), Start(c, op, k, to)
    PROVE  TypeOK'
<1>1. RequestsTyped
    BY TargetsTyped DEF TypeOK, Start, RequestsTyped
<1>2. HistoryTyped
  <2>1. expect' \in [Keys -> Data]
      BY ForgetTyped DEF Start
  <2>2. known' \in SUBSET Keys /\ swept' \in SUBSET Keys /\ alone' \in SUBSET Calls
      BY DEF TypeOK, Start
  <2>3. home' \in [Keys -> Adapters] /\ strays' \in SUBSET Keys
      BY DEF TypeOK, Start
  <2> QED  BY <2>1, <2>2, <2>3 DEF HistoryTyped
<1>3. FilesTyped /\ LocksTyped
    BY UnchangedTyped DEF Start
<1>4. ASSUME Routed(c, op)
      PROVE  CallTyped
  <2>1. loc \in [Calls -> Locals]
      BY DEF TypeOK
  <2>2. loc' \in [Calls -> Locals]
    <3>1. CASE UNCHANGED loc
        BY <2>1, <3>1
    <3>2. CASE loc' = [loc EXCEPT ![c].val = IF op = "overwrite" THEN {c} ELSE @]
        BY <2>1, <3>2, Constants DEF Locals
    <3> QED  BY <1>4, <3>1, <3>2 DEF Routed
  <2>3. pc' \in [Calls -> PCs]
      BY <1>4 DEF Routed, TypeOK, Goto, PCs
  <2> QED  BY <2>2, <2>3 DEF CallTyped
<1>5. ASSUME Goto(c, "takeKeyLock"), UNCHANGED loc
      PROVE  CallTyped
    BY <1>5 DEF CallTyped, TypeOK, Goto, PCs
<1>6. CallTyped
    BY <1>4, <1>5, CallGetSchemaTyped, Constants DEF Start
<1> QED  BY <1>1, <1>2, <1>3, <1>6, AllTyped

LEMMA TakeKeyLockTyped ==
    ASSUME TypeOK, NEW c \in Calls, TakeKeyLock(c)
    PROVE  TypeOK'
<1>1. LocksTyped
    BY DEF TypeOK, TakeKeyLock, LocksTyped
<1>2. CASE Op(c) = "append"
  <2>1. CallTyped
      BY <1>2 DEF CallTyped, TypeOK, TakeKeyLock, Goto, PCs
  <2> QED  BY <1>1, <2>1, AllTyped, UnchangedTyped DEF TakeKeyLock
<1>3. CASE Op(c) # "append"
  <2>1. CallTyped
      BY <1>3, CallGetSchemaTyped, Constants DEF TakeKeyLock
  <2> QED  BY <1>1, <2>1, AllTyped, UnchangedTyped DEF TakeKeyLock
<1> QED  BY <1>2, <1>3

LEMMA PosTyped ==
    ASSUME TypeOK, NEW c \in Calls, loc[c].pos # Len(AdapterSeq)
    PROVE  loc[c].pos + 1 \in 1..Len(AdapterSeq)
<1>1. loc[c].pos \in 1..Len(AdapterSeq)
    BY DEF TypeOK, Locals
<1>2. Len(AdapterSeq) \in Nat
    BY RouterAssumption
<1> QED  BY <1>1, <1>2

LEMMA AdapterTyped ==
    ASSUME TypeOK, NEW c \in Calls
    PROVE  AdapterSeq[loc[c].pos] \in Adapters
<1>1. loc[c].pos \in 1..Len(AdapterSeq)
    BY DEF TypeOK, Locals
<1> QED  BY <1>1, RouterAssumption

LEMMA ScanTyped ==
    ASSUME TypeOK, NEW c \in Calls, Scan(c)
    PROVE  TypeOK'
<1> DEFINE a == AdapterSeq[loc[c].pos]
<1>1. a \in Adapters /\ Default \in Adapters
    BY AdapterTyped, RouterAssumption
<1>2. CASE Found(c, a) \/ Found(c, Default)
    BY <1>1, <1>2, FoundTyped, AllTyped, UnchangedTyped DEF Scan
<1>3. CASE /\ loc[c].pos # Len(AdapterSeq)
           /\ loc' = [loc EXCEPT ![c].pos = @ + 1]
           /\ UNCHANGED pc
  <2>1. loc[c].pos + 1 \in 1..Len(AdapterSeq)
      BY <1>3, PosTyped
  <2>2. loc \in [Calls -> Locals]
      BY DEF TypeOK
  <2>3. loc' \in [Calls -> Locals]
      BY <1>3, <2>1, <2>2 DEF Locals
  <2>4. CallTyped
      BY <1>3, <2>3 DEF CallTyped, TypeOK
  <2> QED  BY <2>4, AllTyped, UnchangedTyped DEF Scan
<1> QED  BY <1>2, <1>3 DEF Scan

LEMMA ReadSchemaTyped ==
    ASSUME TypeOK, NEW c \in Calls, ReadSchema(c)
    PROVE  TypeOK'
<1>1. schema.paths \in Paths
    BY DEF TypeOK
<1>2. CallTyped
    BY <1>1, GotSchemaTyped DEF ReadSchema
<1> QED  BY <1>2, AllTyped, UnchangedTyped DEF ReadSchema

LEMMA MissSchemaTyped ==
    ASSUME TypeOK, NEW c \in Calls, MissSchema(c)
    PROVE  TypeOK'
<1>1. loc \in [Calls -> Locals]
    BY DEF TypeOK
<1>2. loc' \in [Calls -> Locals]
    BY <1>1, Constants DEF MissSchema, Locals
<1>3. pc' \in [Calls -> PCs]
    BY DEF MissSchema, TypeOK, Goto, PCs
<1>4. \A d \in Calls : Key(d) \in Keys
    BY DEF TypeOK, Key
<1>5. HistoryTyped
    BY <1>4 DEF MissSchema, HistoryTyped, TypeOK
<1> QED  BY <1>2, <1>3, <1>5, AllTyped, UnchangedTyped DEF MissSchema, CallTyped

LEMMA RebuildScanTyped ==
    ASSUME TypeOK, NEW c \in Calls, RebuildScan(c)
    PROVE  TypeOK'
<1> DEFINE a == AdapterSeq[loc[c].pos]
           held == {k \in Keys : store[a][k] # {}}
           last == loc[c].pos = Len(AdapterSeq)
<1>1. PICK missed \in SUBSET held :
        /\ loc' = [loc EXCEPT
                 ![c].pos = IF last THEN 1 ELSE @ + 1,
                 ![c].snap = [k \in Keys |->
                                IF k \in held \ missed THEN a ELSE @[k]]]
        /\ swept' = swept \cup missed
    BY DEF RebuildScan
<1>2. loc \in [Calls -> Locals]
    BY DEF TypeOK
<1> DEFINE pos == IF last THEN 1 ELSE loc[c].pos + 1
           snap == [k \in Keys |-> IF k \in held \ missed THEN a
                                   ELSE loc[c].snap[k]]
<1>3. pos \in 1..Len(AdapterSeq)
    BY PosTyped, Constants
<1>4. snap \in Paths
  <2>1. a \in Location
      BY AdapterTyped DEF Location
  <2>2. loc[c].snap \in Paths
      BY <1>2 DEF Locals
  <2> QED  BY <2>1, <2>2 DEF Paths
<1>5. loc' = [loc EXCEPT ![c].pos = pos, ![c].snap = snap]
    BY <1>1, <1>2 DEF Locals
<1> HIDE DEF pos, snap
<1>6. loc' \in [Calls -> Locals]
    BY <1>2, <1>3, <1>4, <1>5 DEF Locals
<1>7. pc' \in [Calls -> PCs]
    BY DEF RebuildScan, TypeOK, Goto, PCs
<1>8. HistoryTyped
    BY <1>1 DEF RebuildScan, HistoryTyped, TypeOK
<1> QED  BY <1>6, <1>7, <1>8, AllTyped, UnchangedTyped DEF RebuildScan, CallTyped

LEMMA RebuildSchemaTyped ==
    ASSUME TypeOK, NEW c \in Calls, RebuildSchema(c)
    PROVE  TypeOK'
<1>1. FilesTyped
    BY Constants DEF RebuildSchema, FilesTyped, TypeOK
<1>2. CallTyped
    BY DEF RebuildSchema, CallTyped, TypeOK, Goto, PCs
<1> QED  BY <1>1, <1>2, AllTyped, UnchangedTyped DEF RebuildSchema

LEMMA RebuildIndexTyped ==
    ASSUME TypeOK, NEW c \in Calls, RebuildIndex(c)
    PROVE  TypeOK'
<1>1. FilesTyped
    BY DEF RebuildIndex, FilesTyped, TypeOK, Locals
<1>2. CallTyped
    BY Constants, GotSchemaTyped DEF RebuildIndex
<1> QED  BY <1>1, <1>2, AllTyped, UnchangedTyped DEF RebuildIndex

LEMMA RebuildFailsTyped ==
    ASSUME TypeOK, NEW c \in Calls, RebuildFails(c)
    PROVE  TypeOK'
<1>1. CallTyped
    BY Constants, GotSchemaTyped DEF RebuildFails
<1> QED  BY <1>1, AllTyped, UnchangedTyped DEF RebuildFails

LEMMA ReadLocatedTyped ==
    ASSUME TypeOK, NEW c \in Calls, ReadLocated(c)
    PROVE  TypeOK'
<1>1. store[loc[c].at][Key(c)] \in Data
    BY DEF TypeOK, Key, Locals
<1>2. CASE Goto(c, "checkIndex") /\ UNCHANGED loc
  <2>1. CallTyped
      BY <1>2 DEF CallTyped, TypeOK, Goto, PCs
  <2> QED  BY <2>1, AllTyped, UnchangedTyped DEF ReadLocated
<1>3. CASE GotData(c, store[loc[c].at][Key(c)])
    BY <1>1, <1>3, GotDataTyped, AllTyped, UnchangedTyped DEF ReadLocated
<1> QED  BY <1>2, <1>3 DEF ReadLocated

LEMMA CheckIndexTyped ==
    ASSUME TypeOK, NEW c \in Calls, CheckIndex(c)
    PROVE  TypeOK'
<1>1. loc \in [Calls -> Locals]
    BY DEF TypeOK
<1>2. CASE loc' = [loc EXCEPT ![c].ret = "cleaned"] /\ Goto(c, "takeIndexLock")
  <2>1. loc' \in [Calls -> Locals]
      BY <1>1, <1>2, Constants DEF Locals
  <2>2. pc' \in [Calls -> PCs]
      BY <1>2 DEF TypeOK, Goto, PCs
  <2> QED  BY <2>1, <2>2, AllTyped, UnchangedTyped DEF CheckIndex, CallTyped
<1>3. CASE GotData(c, {})
    BY <1>3, Constants, GotDataTyped, AllTyped, UnchangedTyped DEF CheckIndex
<1> QED  BY <1>2, <1>3 DEF CheckIndex

LEMMA ReadTargetTyped ==
    ASSUME TypeOK, NEW c \in Calls, ReadTarget(c)
    PROVE  TypeOK'
<1>1. loc \in [Calls -> Locals]
    BY DEF TypeOK
<1>2. store[Target(c)][Key(c)] \cup {c} \in Data
    BY RouterAssumption DEF TypeOK, Target, Key, Data
<1>3. loc' \in [Calls -> Locals]
    BY <1>1, <1>2 DEF ReadTarget, Locals
<1>4. pc' \in [Calls -> PCs]
    BY DEF ReadTarget, TypeOK, Goto, PCs
<1> QED  BY <1>3, <1>4, AllTyped, UnchangedTyped DEF ReadTarget, CallTyped

LEMMA StoreTyped ==
    ASSUME TypeOK, NEW c \in Calls, Store(c)
    PROVE  TypeOK'
<1>1. loc[c].val \in Data
    BY DEF TypeOK, Locals
<1>2. store' \in [Adapters -> [Keys -> Data]]
    BY <1>1 DEF Store, TypeOK
<1>3. FilesTyped
    BY <1>2 DEF Store, FilesTyped, TypeOK
<1>4. CallTyped
    BY CallGetSchemaTyped, Constants, UnchangedTyped DEF Store
<1> QED  BY <1>3, <1>4, AllTyped, UnchangedTyped DEF Store

LEMMA RemoveTyped ==
    ASSUME TypeOK, NEW c \in Calls, Remove(c)
    PROVE  TypeOK'
<1>1. store' \in [Adapters -> [Keys -> Data]]
    BY Constants DEF Remove, TypeOK
<1>2. FilesTyped
    BY <1>1 DEF Remove, FilesTyped, TypeOK
<1>3. CallTyped
    BY CallGetSchemaTyped, Constants, UnchangedTyped DEF Remove
<1> QED  BY <1>2, <1>3, AllTyped, UnchangedTyped DEF Remove

LEMMA SavePathsTyped ==
    ASSUME TypeOK, NEW c \in Calls, SavePaths(c)
    PROVE  TypeOK'
<1>1. loc \in [Calls -> Locals]
    BY DEF TypeOK
<1>2. (IF Op(c) = "delete" THEN None ELSE Target(c)) \in Location
    BY RouterAssumption DEF TypeOK, Target, Key, Location
<1>3. schema' \in [exists : BOOLEAN, paths : Paths]
    BY <1>1, <1>2 DEF SavePaths, Locals, Paths
<1>4. FilesTyped
    BY <1>3 DEF SavePaths, FilesTyped, TypeOK
<1>5. loc' \in [Calls -> Locals]
    BY <1>1, Constants DEF SavePaths, Locals
<1>6. pc' \in [Calls -> PCs]
    BY DEF SavePaths, TypeOK, Goto, PCs
<1>7. expect' \in [Keys -> Data]
    BY ForgetTyped DEF SavePaths
<1>8. HistoryTyped
    BY <1>7 DEF SavePaths, HistoryTyped, TypeOK
<1> QED  BY <1>4, <1>5, <1>6, <1>8, AllTyped, UnchangedTyped DEF SavePaths, CallTyped

LEMMA TakeIndexLockTyped ==
    ASSUME TypeOK, NEW c \in Calls, TakeIndexLock(c)
    PROVE  TypeOK'
<1>1. LocksTyped
    BY DEF TypeOK, TakeIndexLock, LocksTyped
<1>2. CallTyped
    BY DEF TypeOK, TakeIndexLock, CallTyped, Goto, PCs
<1> QED  BY <1>1, <1>2, AllTyped, UnchangedTyped DEF TakeIndexLock

LEMMA LoadIndexTyped ==
    ASSUME TypeOK, NEW c \in Calls, LoadIndex(c)
    PROVE  TypeOK'
<1>1. loc \in [Calls -> Locals] /\ index \in Paths
    BY DEF TypeOK
<1>2. loc' \in [Calls -> Locals]
    BY <1>1 DEF LoadIndex, Locals
<1>3. pc' \in [Calls -> PCs]
    BY DEF LoadIndex, TypeOK, Goto, PCs
<1> QED  BY <1>2, <1>3, AllTyped, UnchangedTyped DEF LoadIndex, CallTyped

LEMMA SnapClearedTyped ==
    ASSUME TypeOK, NEW c \in Calls, NEW l \in PCs,
           loc' = [loc EXCEPT ![c].snap = NoPaths], Goto(c, l)
    PROVE  CallTyped
<1>1. loc \in [Calls -> Locals]
    BY DEF TypeOK
<1>2. loc' \in [Calls -> Locals]
    BY <1>1, Constants DEF Locals
<1>3. pc' \in [Calls -> PCs]
    BY DEF TypeOK, Goto
<1> QED  BY <1>2, <1>3 DEF CallTyped

LEMMA SaveIndexTyped ==
    ASSUME TypeOK, NEW c \in Calls, SaveIndex(c)
    PROVE  TypeOK'
<1>1. loc \in [Calls -> Locals]
    BY DEF TypeOK
<1>2. (IF loc[c].ret = "added" THEN Target(c) ELSE None) \in Location
    BY RouterAssumption DEF TypeOK, Target, Key, Location
<1>3. index' \in Paths
    BY <1>1, <1>2 DEF SaveIndex, Locals, Paths
<1>4. FilesTyped
    BY <1>3 DEF SaveIndex, FilesTyped, TypeOK
<1>5. LocksTyped
    BY DEF SaveIndex, LocksTyped, TypeOK
<1>6. CallTyped
    BY Constants, GotDataTyped, SnapClearedTyped DEF SaveIndex, PCs
<1> QED  BY <1>4, <1>5, <1>6, AllTyped, UnchangedTyped DEF SaveIndex

LEMMA IndexLockReleasedTyped ==
    ASSUME TypeOK, NEW c \in Calls, locks' = IndexLockReleased(c)
    PROVE  LocksTyped
BY DEF TypeOK, LocksTyped, IndexLockReleased

LEMMA GoOnTyped ==
    ASSUME TypeOK, NEW c \in Calls, GoOn(c)
    PROVE  TypeOK'
<1>1. LocksTyped
    BY IndexLockReleasedTyped DEF GoOn
<1>2. CallTyped
    BY Constants, GotSchemaTyped, SnapClearedTyped DEF GoOn, PCs
<1> QED  BY <1>1, <1>2, AllTyped, UnchangedTyped DEF GoOn

LEMMA ThrowInSetTyped ==
    ASSUME TypeOK, NEW c \in Calls, ThrowInSet(c)
    PROVE  TypeOK'
<1>1. LocksTyped
    BY IndexLockReleasedTyped DEF ThrowInSet
<1>2. CallTyped
    BY SnapClearedTyped DEF ThrowInSet, PCs
<1>3. expect' \in [Keys -> Data]
    BY ForgetTyped DEF ThrowInSet
<1>4. HistoryTyped
    BY <1>3 DEF ThrowInSet, HistoryTyped, TypeOK
<1> QED  BY <1>1, <1>2, <1>4, AllTyped, UnchangedTyped DEF ThrowInSet

LEMMA LeavingTyped ==
    ASSUME TypeOK, NEW c \in Calls, Leave(c), HistoryTyped
    PROVE  TypeOK'
<1>1. LocksTyped /\ RequestsTyped /\ CallTyped
    BY LeaveTyped DEF LocksTyped, RequestsTyped
<1>2. FilesTyped
    BY UnchangedTyped DEF Leave
<1> QED  BY <1>1, <1>2, AllTyped

LEMMA ThrowToCallerTyped ==
    ASSUME TypeOK, NEW c \in Calls, ThrowToCaller(c)
    PROVE  TypeOK'
<1>1. expect' \in [Keys -> Data]
    BY ForgetTyped DEF ThrowToCaller
<1>2. HistoryTyped
    BY <1>1 DEF ThrowToCaller, HistoryTyped, TypeOK
<1> QED  BY <1>2, LeavingTyped DEF ThrowToCaller

LEMMA RethrowTyped ==
    ASSUME TypeOK, NEW c \in Calls, Rethrow(c)
    PROVE  TypeOK'
<1>1. HistoryTyped
    BY DEF Rethrow, HistoryTyped, TypeOK
<1> QED  BY <1>1, LeavingTyped DEF Rethrow

LEMMA LoadSeenTyped ==
    ASSUME TypeOK, NEW c \in Calls, LoadSeen(c)
    PROVE  TypeOK'
<1>1. CASE Rethrow(c)
    BY <1>1, RethrowTyped
<1>2. CASE /\ loc' = [loc EXCEPT ![c].seen = index]
           /\ Goto(c, "validate")
           /\ UNCHANGED <<files, locks, req, history>>
  <2>1. loc \in [Calls -> Locals] /\ index \in Paths
      BY DEF TypeOK
  <2>2. loc' \in [Calls -> Locals]
      BY <1>2, <2>1 DEF Locals
  <2>3. pc' \in [Calls -> PCs]
      BY <1>2 DEF TypeOK, Goto, PCs
  <2> QED  BY <1>2, <2>2, <2>3, AllTyped, UnchangedTyped DEF CallTyped
<1> QED  BY <1>1, <1>2 DEF LoadSeen

LEMMA ValidateTyped ==
    ASSUME TypeOK, NEW c \in Calls, Validate(c)
    PROVE  TypeOK'
<1>1. loc \in [Calls -> Locals]
    BY DEF TypeOK
<1>2. PICK k \in Keys :
        \/ loc' = [loc EXCEPT ![c].seen[k] = None] /\ UNCHANGED pc
        \/ /\ loc' = [loc EXCEPT ![c].seen[k] = None, ![c].cur = k,
                                 ![c].ret = "validated"]
           /\ Goto(c, "takeIndexLock")
    BY DEF Validate
<1> DEFINE seen == [loc[c].seen EXCEPT ![k] = None]
<1>3. seen \in Paths
    BY <1>1 DEF Locals, Paths, Location
<1>4. ASSUME loc' = [loc EXCEPT ![c].seen[k] = None], UNCHANGED pc
      PROVE  CallTyped
  <2>1. loc' = [loc EXCEPT ![c].seen = seen]
      BY <1>4
  <2> HIDE DEF seen
  <2>2. loc' \in [Calls -> Locals]
      BY <1>1, <1>3, <2>1 DEF Locals
  <2> QED  BY <1>4, <2>2 DEF CallTyped, TypeOK
<1>5. ASSUME loc' = [loc EXCEPT ![c].seen[k] = None, ![c].cur = k,
                                 ![c].ret = "validated"],
             Goto(c, "takeIndexLock")
      PROVE  CallTyped
  <2>1. loc' = [loc EXCEPT ![c].seen = seen, ![c].cur = k, ![c].ret = "validated"]
      BY <1>5
  <2> HIDE DEF seen
  <2>2. loc' \in [Calls -> Locals]
      BY <1>1, <1>3, <2>1, Constants DEF Locals
  <2>3. pc' \in [Calls -> PCs]
      BY <1>5 DEF TypeOK, Goto, PCs
  <2> QED  BY <2>2, <2>3 DEF CallTyped
<1>6. CallTyped
    BY <1>2, <1>4, <1>5
<1> QED  BY <1>6, AllTyped, UnchangedTyped DEF Validate

LEMMA ReturnTyped ==
    ASSUME TypeOK, NEW c \in Calls, Return(c)
    PROVE  TypeOK'
<1>1. known' \in SUBSET Keys /\ swept' \in SUBSET Keys /\ alone' \in SUBSET Calls
    BY DEF Return, TypeOK, Key
<1>2. expect[Key(c)] \in Data
    BY DEF TypeOK, Key
<1>3. After(c) \in Data
    BY <1>2, Constants DEF After, Data, Locked, OpNames, TypeOK, Op
<1>4. expect' \in [Keys -> Data]
    BY <1>3, Constants DEF Return, TypeOK
<1>5. home' \in [Keys -> Adapters] /\ strays' \in SUBSET Keys
    BY DEF Return, TypeOK, Target
<1>6. HistoryTyped
    BY <1>1, <1>4, <1>5 DEF HistoryTyped
<1> QED  BY <1>6, LeavingTyped DEF Return

LEMMA CrashTyped ==
    ASSUME TypeOK, Crash
    PROVE  TypeOK'
<1>1. CallTyped
    BY Constants DEF Crash, CallTyped, TypeOK, PCs
<1>2. LocksTyped /\ RequestsTyped
    BY Constants DEF Crash, LocksTyped, RequestsTyped
<1>3. expect' \in [Keys -> Data]
    BY ForgetTyped DEF Crash
<1>4. HistoryTyped
    BY <1>3 DEF Crash, HistoryTyped, TypeOK
<1> QED  BY <1>1, <1>2, <1>4, AllTyped, UnchangedTyped DEF Crash

LEMMA StepTyped ==
    ASSUME TypeOK, NEW c \in Calls, Step(c) \/ Failure(c)
    PROVE  TypeOK'
<1>1. CASE TakeKeyLock(c) \/ ReadSchema(c) \/ MissSchema(c) \/ Scan(c)
    BY <1>1, TakeKeyLockTyped, ReadSchemaTyped, MissSchemaTyped, ScanTyped
<1>2. CASE RebuildScan(c) \/ RebuildSchema(c) \/ RebuildIndex(c)
    BY <1>2, RebuildScanTyped, RebuildSchemaTyped, RebuildIndexTyped
<1>3. CASE ReadLocated(c) \/ CheckIndex(c) \/ ReadTarget(c)
    BY <1>3, ReadLocatedTyped, CheckIndexTyped, ReadTargetTyped
<1>4. CASE Store(c) \/ Remove(c) \/ SavePaths(c)
    BY <1>4, StoreTyped, RemoveTyped, SavePathsTyped
<1>5. CASE TakeIndexLock(c) \/ LoadIndex(c) \/ SaveIndex(c)
    BY <1>5, TakeIndexLockTyped, LoadIndexTyped, SaveIndexTyped
<1>6. CASE LoadSeen(c) \/ Validate(c) \/ Validated(c) \/ Return(c)
    BY <1>6, LoadSeenTyped, ValidateTyped, RethrowTyped, ReturnTyped DEF Validated
<1>7. CASE Failure(c)
    BY <1>7, RebuildFailsTyped, GoOnTyped, ThrowInSetTyped, ThrowToCallerTyped
       DEF Failure
<1> QED  BY <1>1, <1>2, <1>3, <1>4, <1>5, <1>6, <1>7 DEF Step

LEMMA StutterTyped ==
    ASSUME TypeOK, UNCHANGED vars  PROVE TypeOK'
BY AllTyped, UnchangedTyped DEF vars

\* Every variable keeps its type.
THEOREM TypeCorrect == Spec => []TypeOK
<1>1. TypeOK /\ [Next]_vars => TypeOK'
    BY StartTyped, StepTyped, CrashTyped, StutterTyped DEF Next, Finished
<1> QED  BY <1>1, InitTyped, PTL DEF Spec

-----------------------------------------------------------------------------
(* The locks.  A step of one call leaves the other calls alone.            *)

InIndexLock(c) == pc[c] \in {"loadIndex", "saveIndex"}

OthersStay(c) ==
    \A d \in Calls \ {c} : pc'[d] = pc[d] /\ loc'[d] = loc[d] /\ req'[d] = req[d]

OthersKeepLocks(c) ==
    \A d \in Calls \ {c}, n \in LockNames : locks'[n] = d <=> locks[n] = d

Disciplined(c) ==
    /\ InKeyLock(c) => locks[Key(c)] = c
    /\ InIndexLock(c) <=> locks[IndexLock] = c

LEMMA Names == IndexLock \in LockNames /\ Keys \subseteq LockNames
BY DEF LockNames

LEMMA DisciplineIsLocal ==
    ASSUME TypeOK, LockDiscipline, NEW c \in Calls, OthersStay(c),
           OthersKeepLocks(c), Disciplined(c)'
    PROVE  LockDiscipline'
<1> SUFFICES ASSUME NEW d \in Calls
             PROVE  Disciplined(d)'
    BY DEF LockDiscipline, Disciplined, InIndexLock
<1>1. CASE d = c
    BY <1>1
<1>2. CASE d # c
  <2>1. Disciplined(d) /\ Key(d) \in LockNames /\ IndexLock \in LockNames
      BY Names DEF LockDiscipline, Disciplined, InIndexLock, TypeOK, Key
  <2>2. Key(d)' = Key(d) /\ Op(d)' = Op(d) /\ pc'[d] = pc[d] /\ loc'[d] = loc[d]
      BY <1>2 DEF OthersStay, Key, Op
  <2>3. (InKeyLock(d)' <=> InKeyLock(d)) /\ (InIndexLock(d)' <=> InIndexLock(d))
      BY <2>2 DEF InKeyLock, InIndexLock, Running, Routing, Rebuilding
  <2>4. /\ locks'[Key(d)] = d <=> locks[Key(d)] = d
        /\ locks'[IndexLock] = d <=> locks[IndexLock] = d
      BY <1>2, <2>1 DEF OthersKeepLocks
  <2> QED  BY <2>1, <2>2, <2>3, <2>4 DEF Disciplined
<1> QED  BY <1>1, <1>2

\* A step that takes and releases no lock.
LEMMA NoLockTouched ==
    ASSUME TypeOK, LockDiscipline, NEW c \in Calls, OthersStay(c),
           UNCHANGED <<locks, req>>,
           InKeyLock(c)' => InKeyLock(c), InIndexLock(c)' <=> InIndexLock(c)
    PROVE  LockDiscipline'
<1>1. OthersKeepLocks(c)
    BY DEF OthersKeepLocks
<1>2. Disciplined(c)
    BY DEF LockDiscipline, Disciplined, InIndexLock
<1>3. Disciplined(c)'
    BY <1>2 DEF Disciplined, Key
<1> QED  BY <1>1, <1>3, DisciplineIsLocal

LEMMA GotoStays ==
    ASSUME TypeOK, NEW c \in Calls, NEW l, Goto(c, l)
    PROVE  pc'[c] = l /\ \A d \in Calls \ {c} : pc'[d] = pc[d]
BY DEF TypeOK, Goto

LEMMA GotSchemaLocks ==
    ASSUME TypeOK, NEW c \in Calls, NEW paths, Routing(c), GotSchema(c, paths),
           UNCHANGED req
    PROVE  /\ OthersStay(c)
           /\ InKeyLock(c)' => InKeyLock(c)
           /\ ~InIndexLock(c)'
<1>1. OthersStay(c)
    BY DEF TypeOK, GotSchema, Found, Goto, OthersStay
<1>2. CASE loc[c].ret = "route"
  <2>1. pc'[c] \in {"takeKeyLock", "store"} /\ (Op(c) = "append" => pc'[c] = "takeKeyLock")
      BY <1>2, GotoStays DEF GotSchema
  <2> QED  BY <1>1, <2>1 DEF InKeyLock, InIndexLock, Routing, Rebuilding, Running, Op
<1>3. CASE loc[c].ret # "route"
  <2>1. pc'[c] \in {"scan", "remove", "readLocated", "savePaths"}
      BY <1>3, GotoStays DEF GotSchema, Found
  <2> QED  BY <1>1, <1>3, <2>1 DEF InKeyLock, InIndexLock, Routing, Rebuilding, Running, Op
<1> QED  BY <1>2, <1>3

LEMMA CallGetSchemaLocks ==
    ASSUME TypeOK, NEW c \in Calls, NEW from, CallGetSchema(c, from)
    PROVE  /\ pc'[c] = "getSchema"
           /\ loc'[c].ret = from
           /\ \A d \in Calls \ {c} : pc'[d] = pc[d] /\ loc'[d] = loc[d]
<1>1. loc'[c] = [FreshLocals EXCEPT !.ret = from,
                    !.val = IF from = "route" THEN loc[c].val ELSE {}]
    BY DEF TypeOK, CallGetSchema
<1>2. loc'[c].ret = from
    BY <1>1 DEF FreshLocals
<1> QED  BY <1>2 DEF TypeOK, CallGetSchema, Goto

LEMMA GotDataLocks ==
    ASSUME TypeOK, NEW c \in Calls, NEW v, GotData(c, v), UNCHANGED req
    PROVE  OthersStay(c) /\ pc'[c] \in {"return", "getSchema", "store"}
BY DEF TypeOK, GotData, Goto, OthersStay

LEMMA LeaveLocks ==
    ASSUME TypeOK, LockDiscipline, NEW c \in Calls, Leave(c)
    PROVE  OthersStay(c) /\ LockDiscipline'
<1>1. OthersStay(c)
    BY DEF TypeOK, Leave, Goto, OthersStay
<1>2. OthersKeepLocks(c)
    BY RouterAssumption DEF TypeOK, Leave, OthersKeepLocks
<1>3. pc'[c] = "done" /\ locks'[IndexLock] # c
    BY Names, RouterAssumption, GotoStays DEF Leave
<1>4. Disciplined(c)'
    BY <1>3 DEF Disciplined, InKeyLock, InIndexLock, Running
<1> QED  BY <1>1, <1>2, <1>4, DisciplineIsLocal

LEMMA TakeKeyLockLocks ==
    ASSUME TypeOK, LockDiscipline, NEW c \in Calls, TakeKeyLock(c)
    PROVE  OthersStay(c) /\ LockDiscipline'
<1>1. /\ OthersStay(c)
      /\ Op(c) = "append" => pc'[c] = "readTarget"
      /\ Op(c) # "append" => pc'[c] = "getSchema"
  <2>1. CASE Op(c) = "append"
      BY <2>1 DEF TypeOK, TakeKeyLock, Goto, OthersStay
  <2>2. CASE Op(c) # "append"
      BY <2>2, CallGetSchemaLocks DEF TakeKeyLock, OthersStay
  <2> QED  BY <2>1, <2>2
<1>2. Key(c) \in LockNames /\ Key(c) # IndexLock
    BY RouterAssumption, Names DEF TypeOK, Key
<1>3. OthersKeepLocks(c)
    BY RouterAssumption, <1>2 DEF TypeOK, TakeKeyLock, OthersKeepLocks
<1>4. Disciplined(c) /\ ~InIndexLock(c)
    BY DEF LockDiscipline, Disciplined, InIndexLock, TakeKeyLock
<1>5. locks'[Key(c)] = c /\ locks'[IndexLock] # c
    BY <1>2, <1>4, Names DEF TakeKeyLock, TypeOK, Disciplined
<1>6. Disciplined(c)'
    BY <1>1, <1>5 DEF Disciplined, InIndexLock, Key, TakeKeyLock
<1> QED  BY <1>1, <1>3, <1>6, DisciplineIsLocal

LEMMA StartLocks ==
    ASSUME TypeOK, LockDiscipline, NEW c \in Calls, NEW op \in OpNames,
           NEW k \in Keys, NEW to \in Targets(op, k), Start(c, op, k, to)
    PROVE  OthersStay(c) /\ LockDiscipline'
<1>1. req'[c] = [op |-> op, key |-> k, to |-> to] /\ \A d \in Calls \ {c} : req'[d] = req[d]
    BY DEF Start, TypeOK
<1>2. Op(c)' = op
    BY <1>1 DEF Op
<1>3. \/ CallGetSchema(c, "route")
      \/ op \in {"overwrite", "append"} /\ Routed(c, op)
      \/ op = "patch" /\ Goto(c, "takeKeyLock") /\ UNCHANGED loc
      \/ op \in {"get", "delete"} /\ CallGetSchema(c, "locate")
    BY DEF Start
<1>4. OthersStay(c) /\ ~InIndexLock(c)' /\ ~InKeyLock(c)'
  <2>1. CASE CallGetSchema(c, "route") /\ op # "patch"
      BY <1>1, <1>2, <2>1, CallGetSchemaLocks
         DEF OthersStay, InIndexLock, InKeyLock, Routing
  <2>2. CASE op \in {"overwrite", "append"} /\ Routed(c, op)
    <3>1. pc'[c] = IF op = "append" THEN "takeKeyLock" ELSE "store"
        BY <2>2, GotoStays DEF Routed
    <3>2. \A d \in Calls \ {c} : pc'[d] = pc[d] /\ loc'[d] = loc[d]
        BY <2>2 DEF Routed, Goto, TypeOK
    <3> QED  BY <1>1, <1>2, <2>2, <3>1, <3>2 DEF OthersStay, InIndexLock, InKeyLock
  <2>3. CASE op = "patch" /\ Goto(c, "takeKeyLock") /\ UNCHANGED loc
      BY <1>1, <2>3, GotoStays DEF OthersStay, InIndexLock, InKeyLock
  <2>4. CASE op \in {"get", "delete"} /\ CallGetSchema(c, "locate")
      BY <1>1, <1>2, <2>4, CallGetSchemaLocks
         DEF OthersStay, InIndexLock, InKeyLock
  <2> QED  BY <2>1, <2>2, <2>3, <2>4 DEF Start
<1>5. OthersKeepLocks(c)
    BY DEF OthersKeepLocks, Start
<1>6. ~InIndexLock(c)
    BY DEF Start, InIndexLock
<1>7. Disciplined(c)'
    BY <1>4, <1>6 DEF LockDiscipline, Disciplined, InIndexLock, Start
<1> QED  BY <1>4, <1>5, <1>7, DisciplineIsLocal

LEMMA ScanLocks ==
    ASSUME TypeOK, LockDiscipline, NEW c \in Calls, Scan(c)
    PROVE  OthersStay(c) /\ LockDiscipline'
<1>1. OthersStay(c)
    BY DEF TypeOK, Scan, Found, Goto, OthersStay
<1>2. pc'[c] \in {"scan", "remove", "readLocated"}
    BY GotoStays DEF Scan, Found
<1>3. InKeyLock(c)' => InKeyLock(c)
    BY <1>2 DEF Scan, InKeyLock, Routing, Rebuilding, Running, Op
<1> QED  BY <1>1, <1>2, <1>3, NoLockTouched DEF Scan, InIndexLock

LEMMA SchemaLocks ==
    ASSUME TypeOK, LockDiscipline, NEW c \in Calls,
           ReadSchema(c) \/ RebuildIndex(c) \/ RebuildFails(c)
    PROVE  OthersStay(c) /\ LockDiscipline'
<1>1. PICK paths : GotSchema(c, paths)
    BY DEF ReadSchema, RebuildIndex, RebuildFails
<1>2. Routing(c) /\ UNCHANGED <<locks, req>>
    BY DEF ReadSchema, RebuildIndex, RebuildFails, Routing, Rebuilding
<1>3. ~InIndexLock(c)
    BY <1>2 DEF Routing, Rebuilding, InIndexLock
<1> QED  BY <1>1, <1>2, <1>3, GotSchemaLocks, NoLockTouched

LEMMA RebuildScanLocals ==
    ASSUME TypeOK, NEW c \in Calls, RebuildScan(c)
    PROVE  \E pos, snap : loc' = [loc EXCEPT ![c].pos = pos, ![c].snap = snap]
<1> DEFINE a == AdapterSeq[loc[c].pos]
           held == {k \in Keys : store[a][k] # {}}
           last == loc[c].pos = Len(AdapterSeq)
<1>1. PICK missed \in SUBSET held :
         loc' = [loc EXCEPT
                 ![c].pos = IF last THEN 1 ELSE @ + 1,
                 ![c].snap = [k \in Keys |->
                                IF k \in held \ missed THEN a ELSE @[k]]]
    BY DEF RebuildScan
<1> DEFINE pos == IF last THEN 1 ELSE loc[c].pos + 1
           snap == [k \in Keys |-> IF k \in held \ missed THEN a
                                   ELSE loc[c].snap[k]]
<1>2. loc' = [loc EXCEPT ![c].pos = pos, ![c].snap = snap]
    BY <1>1 DEF TypeOK, Locals
<1> QED  BY <1>2

LEMMA RebuildLocks ==
    ASSUME TypeOK, LockDiscipline, NEW c \in Calls,
           MissSchema(c) \/ RebuildScan(c) \/ RebuildSchema(c)
    PROVE  OthersStay(c) /\ LockDiscipline'
<1>1. Routing(c) /\ UNCHANGED <<locks, req>>
    BY DEF MissSchema, RebuildScan, RebuildSchema, Routing, Rebuilding
<1>2. OthersStay(c) /\ loc'[c].ret = loc[c].ret
  <2>1. CASE MissSchema(c)
      BY <2>1 DEF TypeOK, MissSchema, Goto, OthersStay, Locals
  <2>2. CASE RebuildScan(c)
    <3>1. PICK pos, snap : loc' = [loc EXCEPT ![c].pos = pos, ![c].snap = snap]
        BY <2>2, RebuildScanLocals
    <3>2. loc'[c].ret = loc[c].ret /\ \A d \in Calls \ {c} : loc'[d] = loc[d]
        BY <3>1 DEF TypeOK, Locals
    <3> QED  BY <1>1, <2>2, <3>2 DEF TypeOK, RebuildScan, Goto, OthersStay
  <2>3. CASE RebuildSchema(c)
      BY <2>3 DEF TypeOK, RebuildSchema, Goto, OthersStay
  <2> QED  BY <2>1, <2>2, <2>3
<1>3. pc'[c] \in {"rebuild", "rebuildSchema", "rebuildIndex"}
    BY GotoStays DEF MissSchema, RebuildScan, RebuildSchema
<1>4. Routing(c)'
    BY <1>3 DEF Routing, Rebuilding
<1>5. InKeyLock(c)' => InKeyLock(c)
    BY <1>1, <1>2, <1>4 DEF InKeyLock, Routing, Rebuilding, Running, Op
<1>6. ~InIndexLock(c) /\ ~InIndexLock(c)'
    BY <1>1, <1>4 DEF Routing, Rebuilding, InIndexLock
<1> QED  BY <1>1, <1>2, <1>5, <1>6, NoLockTouched

LEMMA ReadLocks ==
    ASSUME TypeOK, LockDiscipline, NEW c \in Calls,
           ReadLocated(c) \/ CheckIndex(c) \/ ReadTarget(c)
    PROVE  OthersStay(c) /\ LockDiscipline'
<1>1. UNCHANGED <<locks, req>>
    BY DEF ReadLocated, CheckIndex, ReadTarget
<1>2. /\ OthersStay(c)
      /\ pc'[c] \in {"checkIndex", "takeIndexLock", "store", "return", "getSchema"}
  <2>1. CASE ReadLocated(c)
      BY <1>1, <2>1, GotoStays, GotDataLocks DEF ReadLocated, OthersStay
  <2>2. CASE CheckIndex(c)
    <3>1. CASE GotData(c, {})
        BY <1>1, <3>1, GotDataLocks
    <3>2. CASE loc' = [loc EXCEPT ![c].ret = "cleaned"] /\ Goto(c, "takeIndexLock")
        BY <1>1, <3>2 DEF OthersStay, TypeOK, Goto
    <3> QED  BY <2>2, <3>1, <3>2 DEF CheckIndex
  <2>3. CASE ReadTarget(c)
      BY <1>1, <2>3 DEF ReadTarget, OthersStay, TypeOK, Goto
  <2> QED  BY <2>1, <2>2, <2>3
<1>3. pc[c] \in {"readLocated", "checkIndex", "readTarget"}
    BY DEF ReadLocated, CheckIndex, ReadTarget
<1>4. InKeyLock(c)' => InKeyLock(c)
    BY <1>1, <1>3 DEF InKeyLock, Routing, Rebuilding, Running, Op
<1>5. ~InIndexLock(c) /\ ~InIndexLock(c)'
    BY <1>2, <1>3 DEF InIndexLock
<1> QED  BY <1>1, <1>2, <1>4, <1>5, NoLockTouched

LEMMA WriteLocks ==
    ASSUME TypeOK, LockDiscipline, NEW c \in Calls,
           Store(c) \/ Remove(c) \/ SavePaths(c)
    PROVE  OthersStay(c) /\ LockDiscipline'
<1>1. UNCHANGED <<locks, req>>
    BY DEF Store, Remove, SavePaths
<1>2. /\ OthersStay(c)
      /\ pc'[c] \in {"getSchema", "takeIndexLock", "store", "remove"}
  <2>1. CASE Store(c) \/ Remove(c)
    <3>1. pc[c] \in {"store", "remove"}
        BY <2>1 DEF Store, Remove
    <3> QED  BY <1>1, <2>1, <3>1, CallGetSchemaLocks DEF Store, Remove, OthersStay
  <2>2. CASE SavePaths(c)
      BY <1>1, <2>2 DEF SavePaths, OthersStay, TypeOK, Goto
  <2> QED  BY <2>1, <2>2
<1>3. pc[c] \in {"store", "remove", "savePaths"}
    BY DEF Store, Remove, SavePaths
<1>4. InKeyLock(c)' => InKeyLock(c)
    BY <1>1, <1>3 DEF InKeyLock, Routing, Rebuilding, Running, Op
<1>5. ~InIndexLock(c) /\ ~InIndexLock(c)'
    BY <1>2, <1>3 DEF InIndexLock
<1> QED  BY <1>1, <1>2, <1>4, <1>5, NoLockTouched

LEMMA IndexLocks ==
    ASSUME TypeOK, LockDiscipline, NEW c \in Calls,
           TakeIndexLock(c) \/ LoadIndex(c) \/ SaveIndex(c)
    PROVE  OthersStay(c) /\ LockDiscipline'
<1>1. Key(c) \in LockNames /\ Key(c) # IndexLock /\ IndexLock \in LockNames
    BY RouterAssumption, Names DEF TypeOK, Key
<1>2. /\ InKeyLock(c) => locks[Key(c)] = c
      /\ InIndexLock(c) <=> locks[IndexLock] = c
    BY DEF LockDiscipline, InIndexLock
<1>3. CASE TakeIndexLock(c)
  <2>1. OthersStay(c) /\ pc'[c] = "loadIndex"
      BY <1>3 DEF TypeOK, TakeIndexLock, Goto, OthersStay
  <2>2. OthersKeepLocks(c)
      BY RouterAssumption, <1>1, <1>3 DEF TypeOK, TakeIndexLock, OthersKeepLocks
  <2>3. InKeyLock(c)' => InKeyLock(c)
      BY <1>3 DEF TakeIndexLock, InKeyLock, Routing, Rebuilding, Running, Op
  <2>4. locks'[Key(c)] = locks[Key(c)] /\ locks'[IndexLock] = c
      BY <1>1, <1>3 DEF TypeOK, TakeIndexLock
  <2>5. Disciplined(c)'
      BY <1>2, <1>3, <2>1, <2>3, <2>4
         DEF Disciplined, InIndexLock, Key, TakeIndexLock
  <2> QED  BY <2>1, <2>2, <2>5, DisciplineIsLocal
<1>4. CASE LoadIndex(c)
  <2>1. OthersStay(c) /\ pc'[c] = "saveIndex"
      BY <1>4 DEF TypeOK, LoadIndex, Goto, OthersStay
  <2>2. InKeyLock(c)' => InKeyLock(c)
      BY <1>4 DEF LoadIndex, InKeyLock, Routing, Rebuilding, Running, Op
  <2> QED  BY <1>4, <2>1, <2>2, NoLockTouched DEF LoadIndex, InIndexLock
<1>5. CASE SaveIndex(c)
  <2>1. OthersStay(c) /\ ~InIndexLock(c)'
    <3>1. CASE GotData(c, {})
        BY <1>5, <3>1, GotDataLocks DEF SaveIndex, InIndexLock
    <3>2. CASE /\ loc' = [loc EXCEPT ![c].snap = NoPaths]
               /\ Goto(c, "validate") \/ Goto(c, "return")
        BY <1>5, <3>2 DEF TypeOK, SaveIndex, Goto, OthersStay, InIndexLock
    <3> QED  BY <1>5, <3>1, <3>2 DEF SaveIndex
  <2>2. locks' = [locks EXCEPT ![IndexLock] = Free] /\ locks[IndexLock] = c
      BY <1>2, <1>5 DEF SaveIndex, InIndexLock
  <2>3. OthersKeepLocks(c)
      BY RouterAssumption, <1>1, <2>2 DEF TypeOK, OthersKeepLocks
  <2>4. InKeyLock(c)' => InKeyLock(c)
      BY <1>5 DEF SaveIndex, InKeyLock, Routing, Rebuilding, Running, Op
  <2>5. locks'[Key(c)] = locks[Key(c)] /\ locks'[IndexLock] # c
      BY <1>1, <2>2, RouterAssumption DEF TypeOK
  <2>6. Disciplined(c)'
      BY <1>2, <1>5, <2>1, <2>4, <2>5 DEF Disciplined, InIndexLock, Key, SaveIndex
  <2> QED  BY <2>1, <2>3, <2>6, DisciplineIsLocal
<1> QED  BY <1>3, <1>4, <1>5

\* An error in the update of the index releases the index lock.
LEMMA ReleasedLocks ==
    ASSUME TypeOK, LockDiscipline, NEW c \in Calls, OthersStay(c),
           locks' = IndexLockReleased(c), UNCHANGED req,
           InKeyLock(c)' => InKeyLock(c), ~InIndexLock(c)'
    PROVE  LockDiscipline'
<1>1. Key(c) \in LockNames /\ Key(c) # IndexLock /\ IndexLock \in LockNames
    BY RouterAssumption, Names DEF TypeOK, Key
<1>2. OthersKeepLocks(c)
    BY RouterAssumption, <1>1 DEF TypeOK, IndexLockReleased, OthersKeepLocks
<1>3. locks'[Key(c)] = locks[Key(c)] /\ locks'[IndexLock] # c
    BY RouterAssumption, <1>1 DEF TypeOK, IndexLockReleased
<1>4. Disciplined(c)'
    BY <1>3 DEF LockDiscipline, Disciplined, InIndexLock, Key
<1> QED  BY <1>2, <1>4, DisciplineIsLocal

LEMMA ThrowLocks ==
    ASSUME TypeOK, LockDiscipline, NEW c \in Calls, GoOn(c) \/ ThrowInSet(c)
    PROVE  OthersStay(c) /\ LockDiscipline'
<1>1. locks' = IndexLockReleased(c) /\ UNCHANGED req
    BY DEF GoOn, ThrowInSet
<1>2. CASE GoOn(c) /\ pc[c] = "getSchema"
  <2>1. Routing(c) /\ GotSchema(c, NoPaths)
      BY <1>2 DEF GoOn, Routing
  <2> QED  BY <1>1, <2>1, GotSchemaLocks, ReleasedLocks
<1>3. CASE GoOn(c) /\ pc[c] # "getSchema"
  <2>1. OthersStay(c) /\ pc'[c] = "validate"
      BY <1>1, <1>3 DEF GoOn, TypeOK, Goto, OthersStay
  <2>2. pc[c] \in {"loadIndex", "saveIndex"}
      BY <1>3 DEF GoOn, Caught
  <2>3. InKeyLock(c)' => InKeyLock(c)
      BY <1>1, <2>2 DEF InKeyLock, Routing, Rebuilding, Running, Op
  <2> QED  BY <1>1, <2>1, <2>3, ReleasedLocks DEF InIndexLock
<1>4. CASE ThrowInSet(c)
  <2>1. OthersStay(c) /\ pc'[c] = "loadSeen"
      BY <1>1, <1>4 DEF ThrowInSet, TypeOK, Goto, OthersStay
  <2>2. InKeyLock(c)' => InKeyLock(c)
      BY <1>1, <1>4, <2>1 DEF ThrowInSet, InTry, InKeyLock, Routing, Rebuilding,
         Running, Op
  <2> QED  BY <1>1, <2>1, <2>2, ReleasedLocks DEF InIndexLock
<1> QED  BY <1>2, <1>3, <1>4

LEMMA EndLocks ==
    ASSUME TypeOK, LockDiscipline, NEW c \in Calls,
           ThrowToCaller(c) \/ Validated(c) \/ Return(c)
    PROVE  OthersStay(c) /\ LockDiscipline'
BY LeaveLocks DEF ThrowToCaller, Validated, Rethrow, Return

LEMMA ValidateLocks ==
    ASSUME TypeOK, LockDiscipline, NEW c \in Calls, LoadSeen(c) \/ Validate(c)
    PROVE  OthersStay(c) /\ LockDiscipline'
<1>1. CASE Rethrow(c)
    BY <1>1, LeaveLocks DEF Rethrow
<1>2. CASE ~Rethrow(c)
  <2>1. UNCHANGED <<locks, req>> /\ pc[c] \in {"loadSeen", "validate"}
      BY <1>2 DEF LoadSeen, Validate
  <2>2. OthersStay(c) /\ pc'[c] \in {"validate", "takeIndexLock"}
    <3>1. CASE LoadSeen(c)
        BY <1>2, <2>1, <3>1 DEF LoadSeen, TypeOK, Goto, OthersStay
    <3>2. CASE Validate(c)
        BY <2>1, <3>2 DEF Validate, TypeOK, Goto, OthersStay
    <3> QED  BY <3>1, <3>2
  <2>3. InKeyLock(c)' => InKeyLock(c)
      BY <2>1 DEF InKeyLock, Routing, Rebuilding, Running, Op
  <2> QED  BY <2>1, <2>2, <2>3, NoLockTouched DEF InIndexLock
<1> QED  BY <1>1, <1>2

LEMMA CrashLocks ==
    ASSUME TypeOK, LockDiscipline, Crash
    PROVE  LockDiscipline'
<1>1. \A c \in Calls : ~InIndexLock(c)' /\ ~InKeyLock(c)'
    BY DEF Crash, TypeOK, InIndexLock, InKeyLock, Running
<1>2. \A c \in Calls : locks'[IndexLock] # c
    BY Names, RouterAssumption DEF Crash
<1> QED  BY <1>1, <1>2 DEF LockDiscipline, InIndexLock

LEMMA StepLocks ==
    ASSUME TypeOK, LockDiscipline, NEW c \in Calls, Step(c) \/ Failure(c)
    PROVE  OthersStay(c) /\ LockDiscipline'
<1>1. CASE TakeKeyLock(c) \/ ReadSchema(c) \/ Scan(c) \/ RebuildIndex(c)
           \/ RebuildFails(c)
    BY <1>1, TakeKeyLockLocks, SchemaLocks, ScanLocks
<1>2. CASE MissSchema(c) \/ RebuildScan(c) \/ RebuildSchema(c)
    BY <1>2, RebuildLocks
<1>3. CASE ReadLocated(c) \/ CheckIndex(c) \/ ReadTarget(c)
    BY <1>3, ReadLocks
<1>4. CASE Store(c) \/ Remove(c) \/ SavePaths(c)
    BY <1>4, WriteLocks
<1>5. CASE TakeIndexLock(c) \/ LoadIndex(c) \/ SaveIndex(c)
    BY <1>5, IndexLocks
<1>6. CASE LoadSeen(c) \/ Validate(c) \/ Validated(c) \/ Return(c)
           \/ ThrowToCaller(c)
    BY <1>6, ValidateLocks, EndLocks
<1>7. CASE GoOn(c) \/ ThrowInSet(c)
    BY <1>7, ThrowLocks
<1> QED  BY <1>1, <1>2, <1>3, <1>4, <1>5, <1>6, <1>7 DEF Step, Failure

LEMMA InitLocks == Init => LockDiscipline
<1> SUFFICES ASSUME Init, NEW c \in Calls  PROVE Disciplined(c)
    BY DEF LockDiscipline, Disciplined, InIndexLock
<1>1. pc[c] = "idle" /\ locks[IndexLock] # c
    BY Names, RouterAssumption DEF Init
<1> QED  BY <1>1 DEF Disciplined, InIndexLock, InKeyLock, Running

\* Appends and patches work under their key lock, and every read-modify-write
\* of the key index under the index lock.
THEOREM LocksHeld == Spec => []LockDiscipline
<1>1. TypeOK /\ LockDiscipline /\ [Next]_vars => LockDiscipline'
  <2> SUFFICES ASSUME TypeOK, LockDiscipline, [Next]_vars
               PROVE  LockDiscipline'
      OBVIOUS
  <2>1. CASE UNCHANGED vars
      BY <2>1 DEF vars, LockDiscipline, InKeyLock, Running, Routing, Rebuilding,
         Key, Op
  <2> QED  BY <2>1, StartLocks, StepLocks, CrashLocks DEF Next, Finished
<1> QED  BY <1>1, InitLocks, TypeCorrect, PTL DEF Spec

-----------------------------------------------------------------------------
(* The copies of the index.                                                *)

\* Whoever runs beside a rebuild of the metadata has its key swept.
RebuildSwept ==
    \A c, d \in Calls :
        c # d /\ Rebuilding(d) /\ Running(c) => Key(c) \in swept

\* A call that is alone shares its key with no other.
AloneIsAlone ==
    \A c \in alone : Running(c) /\ \A d \in Calls \ {c} : ~Uses(d, Key(c))

CopyInv ==
    TypeOK /\ LockDiscipline /\ RebuildSwept /\ AloneIsAlone /\ IndexCopyCurrent

\* What a step of a running call may do to the index and to the history.
Effects(c) ==
    /\ index' # index => Rebuilding(c) \/ InIndexLock(c)
    /\ pc'[c] = "saveIndex" => loc'[c].snap = index'
    /\ Running(c)' => Running(c) /\ UNCHANGED req
    /\ alone' \subseteq alone /\ (c \in alone' => Running(c)')
    /\ swept \subseteq swept' \cup {Key(c)}
    /\ ~(swept \subseteq swept') => c \in alone /\ ~Running(c)'
    /\ Rebuilding(c)' =>
           \/ Rebuilding(c)
           \/ \A d \in Calls \ {c} : Running(d) => Key(d) \in swept'
    /\ Validating(c)' =>
           \/ Validating(c)
           \/ \A d \in Calls \ {c} : Running(d) => d \notin alone'

\* A step that leaves the index and the history alone.
LEMMA QuietEffects ==
    ASSUME TypeOK, NEW c \in Calls, Running(c),
           UNCHANGED <<index, req, swept, alone>>, Running(c)',
           pc'[c] # "saveIndex", ~Rebuilding(c)' \/ Rebuilding(c),
           ~Validating(c)' \/ Validating(c)
    PROVE  Effects(c)
BY DEF Effects

LEMMA GotSchemaEffects ==
    ASSUME TypeOK, NEW c \in Calls, NEW paths, GotSchema(c, paths)
    PROVE  pc'[c] \in {"takeKeyLock", "store", "scan", "remove", "readLocated",
                       "savePaths"}
<1>1. CASE loc[c].ret = "route"
    BY <1>1, GotoStays DEF GotSchema
<1>2. CASE loc[c].ret # "route"
    BY <1>2, GotoStays DEF GotSchema, Found
<1> QED  BY <1>1, <1>2

LEMMA SchemaEffects ==
    ASSUME TypeOK, NEW c \in Calls,
           ReadSchema(c) \/ RebuildIndex(c) \/ RebuildFails(c)
    PROVE  Effects(c)
<1>1. PICK paths : GotSchema(c, paths)
    BY DEF ReadSchema, RebuildIndex, RebuildFails
<1>2. pc'[c] \in {"takeKeyLock", "store", "scan", "remove", "readLocated",
                  "savePaths"}
    BY <1>1, GotSchemaEffects
<1>3. /\ UNCHANGED <<req, swept, alone>> /\ Running(c)
      /\ index' # index => Rebuilding(c)
    BY DEF ReadSchema, RebuildIndex, RebuildFails, files, history, Rebuilding, Running
<1>4. /\ Running(c)' /\ ~Rebuilding(c)' /\ ~Validating(c)'
      /\ pc'[c] # "saveIndex"
    BY <1>2 DEF Running, Rebuilding, Validating, InIndexUpdate
<1> QED  BY <1>3, <1>4 DEF Effects

LEMMA RebuildEffects ==
    ASSUME TypeOK, NEW c \in Calls,
           MissSchema(c) \/ RebuildScan(c) \/ RebuildSchema(c)
    PROVE  Effects(c)
<1>1. /\ UNCHANGED <<req, index>> /\ swept \subseteq swept' /\ alone' \subseteq alone
      /\ Running(c)
    BY DEF MissSchema, RebuildScan, RebuildSchema, files, history, Running
<1>2. pc'[c] \in {"rebuild", "rebuildSchema", "rebuildIndex"}
    BY GotoStays DEF MissSchema, RebuildScan, RebuildSchema
<1>3. Running(c)' /\ ~Validating(c)' /\ pc'[c] # "saveIndex"
    BY <1>2 DEF Running, Validating, InIndexUpdate
<1>4. Rebuilding(c) \/ \A d \in Calls \ {c} : Running(d) => Key(d) \in swept'
    BY DEF MissSchema, RebuildScan, RebuildSchema, Rebuilding
<1> QED  BY <1>1, <1>3, <1>4 DEF Effects

LEMMA ReadEffects ==
    ASSUME TypeOK, LockDiscipline, NEW c \in Calls,
           \/ TakeKeyLock(c) \/ Scan(c) \/ ReadLocated(c) \/ CheckIndex(c)
           \/ ReadTarget(c) \/ Store(c) \/ Remove(c) \/ SavePaths(c)
    PROVE  Effects(c)
<1>1. UNCHANGED <<index, req, swept, alone>> /\ Running(c)
    BY DEF TakeKeyLock, Scan, ReadLocated, CheckIndex, ReadTarget, Store, Remove,
       SavePaths, files, history, Running
<1>2. \/ pc'[c] \in {"scan", "remove", "readLocated", "readTarget", "getSchema",
                     "checkIndex", "store", "return"}
      \/ pc'[c] = "takeIndexLock" /\ loc'[c].ret # "validated"
  <2>1. CASE TakeKeyLock(c) \/ Scan(c) \/ ReadTarget(c)
      BY <2>1, GotoStays, CallGetSchemaLocks DEF TakeKeyLock, Scan, Found, ReadTarget
  <2>2. CASE ReadLocated(c)
      BY <2>2, GotoStays DEF ReadLocated, GotData
  <2>3. CASE CheckIndex(c)
    <3>1. CASE GotData(c, {})
        BY <3>1, GotoStays DEF GotData
    <3>2. CASE loc' = [loc EXCEPT ![c].ret = "cleaned"] /\ Goto(c, "takeIndexLock")
        BY <3>2, GotoStays DEF TypeOK, Locals
    <3> QED  BY <2>3, <3>1, <3>2 DEF CheckIndex
  <2>4. CASE Store(c) \/ Remove(c)
    <3>1. pc[c] \in {"store", "remove"}
        BY <2>4 DEF Store, Remove
    <3> QED  BY <2>4, <3>1, CallGetSchemaLocks DEF Store, Remove
  <2>5. CASE SavePaths(c)
      BY <2>5, GotoStays DEF SavePaths, TypeOK, Locals
  <2> QED  BY <2>1, <2>2, <2>3, <2>4, <2>5
<1>3. Running(c)' /\ ~Rebuilding(c)' /\ ~Validating(c)' /\ pc'[c] # "saveIndex"
    BY <1>2 DEF Running, Rebuilding, Validating, InIndexUpdate
<1> QED  BY <1>1, <1>3, QuietEffects

LEMMA IndexEffects ==
    ASSUME TypeOK, NEW c \in Calls,
           TakeIndexLock(c) \/ LoadIndex(c) \/ SaveIndex(c)
    PROVE  Effects(c)
<1>1. /\ UNCHANGED <<req, swept, alone>> /\ Running(c)
      /\ index' # index => InIndexLock(c)
    BY DEF TakeIndexLock, LoadIndex, SaveIndex, files, history, Running, InIndexLock
<1>2. CASE TakeIndexLock(c) \/ LoadIndex(c)
  <2>1. /\ pc'[c] \in {"loadIndex", "saveIndex"}
        /\ loc'[c].ret = loc[c].ret
        /\ pc'[c] = "saveIndex" => loc'[c].snap = index'
      BY <1>2, GotoStays DEF TakeIndexLock, LoadIndex, files, TypeOK, Locals
  <2>2. Running(c)' /\ ~Rebuilding(c)'
      BY <2>1 DEF Running, Rebuilding
  <2>3. Validating(c)' => Validating(c)
      BY <1>2, <2>1 DEF Validating, InIndexUpdate, TakeIndexLock, LoadIndex
  <2> QED  BY <1>1, <2>1, <2>2, <2>3 DEF Effects
<1>3. CASE SaveIndex(c)
  <2>1. CASE GotData(c, {})
    <3>1. pc'[c] \in {"return", "getSchema", "store"}
        BY <2>1, GotoStays DEF GotData
    <3>2. /\ Running(c)' /\ ~Rebuilding(c)' /\ ~Validating(c)'
          /\ pc'[c] # "saveIndex"
        BY <3>1 DEF Running, Rebuilding, Validating, InIndexUpdate
    <3> QED  BY <1>1, <3>2 DEF Effects
  <2>2. CASE ~GotData(c, {})
    <3>1. \/ pc'[c] = "return"
          \/ pc'[c] = "validate" /\ loc[c].ret = "validated"
        BY <1>3, <2>2, GotoStays DEF SaveIndex
    <3>2. Running(c)' /\ ~Rebuilding(c)' /\ pc'[c] # "saveIndex"
        BY <3>1 DEF Running, Rebuilding
    <3>3. Validating(c)' => Validating(c)
        BY <1>3, <3>1 DEF SaveIndex, Validating, InIndexUpdate
    <3> QED  BY <1>1, <3>2, <3>3 DEF Effects
  <2> QED  BY <2>1, <2>2
<1> QED  BY <1>2, <1>3

LEMMA ThrowEffects ==
    ASSUME TypeOK, NEW c \in Calls, GoOn(c) \/ ThrowInSet(c)
    PROVE  Effects(c)
<1>1. UNCHANGED <<index, req, swept>> /\ alone' \subseteq alone
    BY DEF GoOn, ThrowInSet, files, history
<1>2. Running(c)
    BY DEF GoOn, ThrowInSet, CanThrow, Running
<1>3. CASE GoOn(c) /\ pc[c] = "getSchema"
  <2>1. pc'[c] \in {"takeKeyLock", "store", "scan", "remove", "readLocated",
                    "savePaths"}
      BY <1>3, GotSchemaEffects DEF GoOn
  <2>2. /\ Running(c)' /\ ~Rebuilding(c)' /\ ~Validating(c)' /\ alone' = alone
        /\ pc'[c] # "saveIndex"
      BY <1>3, <2>1 DEF GoOn, Running, Rebuilding, Validating, InIndexUpdate, history
  <2> QED  BY <1>1, <1>2, <2>2, QuietEffects
<1>4. CASE GoOn(c) /\ pc[c] # "getSchema"
  <2>1. pc'[c] = "validate" /\ alone' = alone
      BY <1>4, GotoStays DEF GoOn, history
  <2>2. Validating(c)
      BY <1>4 DEF GoOn, Caught, Validating, InIndexUpdate
  <2>3. Running(c)' /\ ~Rebuilding(c)' /\ pc'[c] # "saveIndex"
      BY <2>1 DEF Running, Rebuilding
  <2> QED  BY <1>1, <1>2, <2>1, <2>2, <2>3, QuietEffects
<1>5. CASE ThrowInSet(c)
  <2>1. pc'[c] = "loadSeen"
      BY <1>5, GotoStays DEF ThrowInSet
  <2>2. Running(c)' /\ ~Rebuilding(c)' /\ pc'[c] # "saveIndex"
      BY <2>1 DEF Running, Rebuilding
  <2>3. \A d \in Calls \ {c} : Running(d) => d \notin alone'
      BY <1>5 DEF ThrowInSet
  <2> QED  BY <1>1, <1>2, <2>2, <2>3 DEF Effects
<1> QED  BY <1>3, <1>4, <1>5

LEMMA EndEffects ==
    ASSUME TypeOK, NEW c \in Calls,
           ThrowToCaller(c) \/ Rethrow(c) \/ Return(c)
    PROVE  Effects(c)
<1>1. Leave(c) /\ alone' = alone \ {c}
    BY DEF ThrowToCaller, Rethrow, Return
<1>2. pc'[c] = "done" /\ index' = index
    BY <1>1, GotoStays DEF Leave, files
<1>3. /\ ~Running(c)' /\ ~Rebuilding(c)' /\ ~Validating(c)' /\ pc'[c] # "saveIndex"
    BY <1>2 DEF Running, Rebuilding, Validating, InIndexUpdate
<1>4. \/ swept' = swept
      \/ c \in alone /\ swept' = swept \ {Key(c)}
    BY DEF ThrowToCaller, Rethrow, Return, Fixes
<1> QED  BY <1>1, <1>2, <1>3, <1>4 DEF Effects

LEMMA ValidateEffects ==
    ASSUME TypeOK, NEW c \in Calls, LoadSeen(c) \/ Validate(c)
    PROVE  Effects(c)
<1>1. CASE Rethrow(c)
    BY <1>1, EndEffects
<1>2. CASE ~Rethrow(c)
  <2>1. UNCHANGED <<index, req, swept, alone>> /\ Running(c) /\ Validating(c)
      BY <1>2 DEF LoadSeen, Validate, files, history, Running, Validating
  <2>2. pc'[c] \in {"validate", "takeIndexLock"}
      BY <1>2, GotoStays DEF LoadSeen, Validate
  <2>3. Running(c)' /\ ~Rebuilding(c)' /\ pc'[c] # "saveIndex"
      BY <2>2 DEF Running, Rebuilding
  <2> QED  BY <2>1, <2>3, QuietEffects
<1> QED  BY <1>1, <1>2

LEMMA StepEffects ==
    ASSUME TypeOK, LockDiscipline, NEW c \in Calls, Step(c) \/ Failure(c)
    PROVE  Effects(c)
<1>1. CASE ReadSchema(c) \/ RebuildIndex(c) \/ RebuildFails(c)
    BY <1>1, SchemaEffects
<1>2. CASE MissSchema(c) \/ RebuildScan(c) \/ RebuildSchema(c)
    BY <1>2, RebuildEffects
<1>3. CASE \/ TakeKeyLock(c) \/ Scan(c) \/ ReadLocated(c) \/ CheckIndex(c)
           \/ ReadTarget(c) \/ Store(c) \/ Remove(c) \/ SavePaths(c)
    BY <1>3, ReadEffects
<1>4. CASE TakeIndexLock(c) \/ LoadIndex(c) \/ SaveIndex(c)
    BY <1>4, IndexEffects
<1>5. CASE GoOn(c) \/ ThrowInSet(c)
    BY <1>5, ThrowEffects
<1>6. CASE ThrowToCaller(c) \/ Validated(c) \/ Return(c)
    BY <1>6, EndEffects DEF Validated
<1>7. CASE LoadSeen(c) \/ Validate(c)
    BY <1>7, ValidateEffects
<1> QED  BY <1>1, <1>2, <1>3, <1>4, <1>5, <1>6, <1>7 DEF Step, Failure

LEMMA OtherKept ==
    ASSUME NEW c \in Calls, OthersStay(c), NEW d \in Calls \ {c}
    PROVE  /\ Running(d)' <=> Running(d)
           /\ Rebuilding(d)' <=> Rebuilding(d)
           /\ Validating(d)' <=> Validating(d)
           /\ Key(d)' = Key(d)
BY DEF OthersStay, Running, Rebuilding, Validating, InIndexUpdate, Key

LEMMA SweptKept ==
    ASSUME CopyInv, NEW c \in Calls, Effects(c), OthersStay(c),
           NEW d \in Calls \ {c}, Running(d), Key(d) \in swept
    PROVE  Key(d) \in swept'
<1>1. CASE swept \subseteq swept'
    BY <1>1
<1>2. CASE ~(swept \subseteq swept')
  <2>1. ~Uses(d, Key(c))
      BY <1>2 DEF Effects, CopyInv, AloneIsAlone
  <2>2. Key(d) # Key(c)
      BY <2>1 DEF Uses
  <2> QED  BY <2>2 DEF Effects
<1> QED  BY <1>1, <1>2

LEMMA StepSwept ==
    ASSUME CopyInv, NEW c \in Calls, Effects(c), OthersStay(c)
    PROVE  RebuildSwept'
<1> SUFFICES ASSUME NEW x \in Calls, NEW d \in Calls, x # d,
                    Rebuilding(d)', Running(x)'
             PROVE  Key(x)' \in swept'
    BY DEF RebuildSwept
<1>1. CASE x # c
  <2>1. Running(x) /\ Key(x)' = Key(x)
      BY <1>1, OtherKept
  <2>2. CASE Rebuilding(d)
      BY <1>1, <2>1, <2>2, SweptKept DEF CopyInv, RebuildSwept
  <2>3. CASE ~Rebuilding(d)
      BY <1>1, <2>1, <2>3, OtherKept DEF Effects
  <2> QED  BY <2>2, <2>3
<1>2. CASE x = c
  <2>1. Running(c) /\ Key(c)' = Key(c) /\ swept \subseteq swept'
      BY <1>2 DEF Effects, Key
  <2>2. Rebuilding(d)
      BY <1>2, OtherKept
  <2> QED  BY <1>2, <2>1, <2>2 DEF CopyInv, RebuildSwept
<1> QED  BY <1>1, <1>2

LEMMA StepAlone ==
    ASSUME CopyInv, NEW c \in Calls, Effects(c), OthersStay(c)
    PROVE  AloneIsAlone'
<1> SUFFICES ASSUME NEW a \in alone'
             PROVE  Running(a)' /\ \A d \in Calls \ {a} : ~Uses(d, Key(a))'
    BY DEF AloneIsAlone
<1>1. a \in alone /\ a \in Calls
    BY DEF Effects, CopyInv, TypeOK
<1>2. Running(a) /\ \A d \in Calls \ {a} : ~Uses(d, Key(a))
    BY <1>1 DEF CopyInv, AloneIsAlone
<1>3. Running(a)' /\ Key(a)' = Key(a)
  <2>1. CASE a = c
      BY <2>1 DEF Effects, Key
  <2>2. CASE a # c
      BY <1>1, <1>2, <2>2, OtherKept
  <2> QED  BY <2>1, <2>2
<1>4. ASSUME NEW d \in Calls \ {a}
      PROVE  ~Uses(d, Key(a))'
  <2>1. CASE d # c
      BY <1>2, <1>3, <2>1, OtherKept DEF Uses
  <2>2. CASE d = c
    <3>1. Running(c)' => Running(c) /\ Key(c)' = Key(c)
        BY DEF Effects, Key
    <3>2. Validating(c)' => Validating(c)
        BY <1>1, <1>2, <2>2 DEF Effects
    <3> QED  BY <1>2, <1>3, <2>2, <3>1, <3>2 DEF Uses
  <2> QED  BY <2>1, <2>2
<1> QED  BY <1>3, <1>4

LEMMA StepCopies ==
    ASSUME CopyInv, NEW c \in Calls, Effects(c), OthersStay(c)
    PROVE  IndexCopyCurrent'
<1> SUFFICES ASSUME NEW d \in Calls, pc'[d] = "saveIndex", Key(d)' \notin swept'
             PROVE  loc'[d].snap = index'
    BY DEF IndexCopyCurrent
<1>1. CASE d = c
    BY <1>1 DEF Effects
<1>2. CASE d # c
  <2>1. pc[d] = "saveIndex" /\ loc'[d] = loc[d] /\ Key(d)' = Key(d)
      BY <1>2 DEF OthersStay, Key
  <2>2. Running(d)
      BY <2>1 DEF Running
  <2>3. Key(d) \notin swept
      BY <1>2, <2>1, <2>2, SweptKept
  <2>4. loc[d].snap = index
      BY <2>1, <2>3 DEF CopyInv, IndexCopyCurrent
  <2>5. ~Rebuilding(c)
      BY <1>2, <2>2, <2>3 DEF CopyInv, RebuildSwept
  <2>6. ~InIndexLock(c)
      BY <1>2, <2>1 DEF CopyInv, LockDiscipline, InIndexLock
  <2>7. index' = index
      BY <2>5, <2>6 DEF Effects
  <2> QED  BY <2>1, <2>4, <2>7
<1> QED  BY <1>1, <1>2

LEMMA StartFacts ==
    ASSUME TypeOK, NEW c \in Calls, NEW op \in OpNames, NEW k \in Keys,
           NEW to \in Targets(op, k), Start(c, op, k, to)
    PROVE  /\ pc[c] = "idle"
           /\ pc'[c] \in {"getSchema", "takeKeyLock", "store"}
           /\ Key(c)' = k
           /\ index' = index /\ swept \subseteq swept'
           /\ (\E d \in Calls : Rebuilding(d)) => k \in swept'
           /\ alone' \subseteq (alone \cup {c}) \ Users(k)
           /\ c \in alone' => c \in alone \/ Users(k) = {}
<1>1. pc'[c] \in {"getSchema", "takeKeyLock", "store"}
  <2>1. CASE \E from : CallGetSchema(c, from)
      BY <2>1, CallGetSchemaLocks
  <2>2. CASE Routed(c, op) \/ Goto(c, "takeKeyLock")
      BY <2>2, GotoStays DEF Routed
  <2> QED  BY <2>1, <2>2 DEF Start
<1> QED  BY <1>1 DEF Start, Key, TypeOK, files

LEMMA StartCopies ==
    ASSUME CopyInv, NEW c \in Calls, NEW op \in OpNames, NEW k \in Keys,
           NEW to \in Targets(op, k), Start(c, op, k, to)
    PROVE  RebuildSwept' /\ AloneIsAlone' /\ IndexCopyCurrent'
<1>1. TypeOK /\ LockDiscipline
    BY DEF CopyInv
<1>2. OthersStay(c)
    BY <1>1, StartLocks
<1>3. /\ pc[c] = "idle"
      /\ pc'[c] \in {"getSchema", "takeKeyLock", "store"}
      /\ Key(c)' = k
      /\ index' = index /\ swept \subseteq swept'
      /\ (\E d \in Calls : Rebuilding(d)) => k \in swept'
      /\ alone' \subseteq (alone \cup {c}) \ Users(k)
      /\ c \in alone' => c \in alone \/ Users(k) = {}
    BY <1>1, StartFacts
<1>4. ~Rebuilding(c)' /\ ~Validating(c)' /\ pc'[c] # "saveIndex" /\ Running(c)'
      /\ ~Running(c)
    BY <1>3 DEF Rebuilding, Validating, InIndexUpdate, Running
<1>5. c \notin alone
    BY <1>4 DEF CopyInv, AloneIsAlone
<1>6. RebuildSwept'
  <2> SUFFICES ASSUME NEW x \in Calls, NEW d \in Calls, x # d,
                      Rebuilding(d)', Running(x)'
               PROVE  Key(x)' \in swept'
      BY DEF RebuildSwept
  <2>1. d # c /\ Rebuilding(d)
      BY <1>2, <1>4, OtherKept
  <2>2. CASE x = c
      BY <1>3, <2>1, <2>2
  <2>3. CASE x # c
      BY <1>2, <1>3, <2>1, <2>3, OtherKept DEF CopyInv, RebuildSwept
  <2> QED  BY <2>2, <2>3
<1>7. AloneIsAlone'
  <2> SUFFICES ASSUME NEW a \in alone'
               PROVE  Running(a)' /\ \A d \in Calls \ {a} : ~Uses(d, Key(a))'
      BY DEF AloneIsAlone
  <2>1. CASE a = c
    <3>1. Users(k) = {}
        BY <1>3, <1>5, <2>1
    <3>2. ASSUME NEW d \in Calls \ {a}
          PROVE  ~Uses(d, Key(a))'
        BY <1>2, <1>3, <2>1, <3>1, OtherKept DEF Uses, Users
    <3> QED  BY <1>4, <2>1, <3>2
  <2>2. CASE a # c
    <3>1. a \in alone /\ a \in Calls /\ a \notin Users(k)
        BY <1>1, <1>3, <2>2 DEF TypeOK
    <3>2. Running(a) /\ \A d \in Calls \ {a} : ~Uses(d, Key(a))
        BY <3>1 DEF CopyInv, AloneIsAlone
    <3>3. Running(a)' /\ Key(a)' = Key(a) /\ Key(a) # k
        BY <1>2, <2>2, <3>1, <3>2, OtherKept DEF Users, Uses
    <3>4. ASSUME NEW d \in Calls \ {a}
          PROVE  ~Uses(d, Key(a))'
      <4>1. CASE d = c
          BY <1>3, <1>4, <3>3, <4>1 DEF Uses
      <4>2. CASE d # c
          BY <1>2, <3>2, <3>3, <4>2, OtherKept DEF Uses
      <4> QED  BY <4>1, <4>2
    <3> QED  BY <3>3, <3>4
  <2> QED  BY <2>1, <2>2
<1>8. IndexCopyCurrent'
  <2> SUFFICES ASSUME NEW d \in Calls, pc'[d] = "saveIndex", Key(d)' \notin swept'
               PROVE  loc'[d].snap = index'
      BY DEF IndexCopyCurrent
  <2>1. d # c
      BY <1>4
  <2>2. pc[d] = "saveIndex" /\ loc'[d] = loc[d] /\ Key(d)' = Key(d)
      BY <1>2, <2>1 DEF OthersStay, Key
  <2> QED  BY <1>3, <2>2 DEF CopyInv, IndexCopyCurrent
<1> QED  BY <1>6, <1>7, <1>8

LEMMA CrashCopies ==
    ASSUME TypeOK, Crash
    PROVE  RebuildSwept' /\ AloneIsAlone' /\ IndexCopyCurrent'
<1>1. \A c \in Calls : pc'[c] \in {"idle", "done"}
    BY DEF Crash, TypeOK, Running
<1>2. alone' = {}
    BY DEF Crash
<1>3. \A c \in Calls : ~Running(c)' /\ pc'[c] # "saveIndex"
    BY <1>1 DEF Running
<1> QED  BY <1>2, <1>3 DEF RebuildSwept, AloneIsAlone, IndexCopyCurrent

LEMMA InitCopies == Init => RebuildSwept /\ AloneIsAlone /\ IndexCopyCurrent
BY DEF Init, RebuildSwept, AloneIsAlone, IndexCopyCurrent, Running

LEMMA StutterCopies ==
    ASSUME CopyInv, UNCHANGED vars
    PROVE  RebuildSwept' /\ AloneIsAlone' /\ IndexCopyCurrent'
BY DEF CopyInv, RebuildSwept, AloneIsAlone, IndexCopyCurrent, vars, files, history,
   Running, Rebuilding, Validating, InIndexUpdate, Uses, Key

\* Unless a rebuild of the metadata intervenes, no update of the key index by one
\* call erases the update of another.
THEOREM CopiesAreCurrent == Spec => []IndexCopyCurrent
<1>1. Init => CopyInv
    BY InitTyped, InitLocks, InitCopies DEF CopyInv
<1>2. CopyInv /\ [Next]_vars => CopyInv'
  <2> SUFFICES ASSUME CopyInv, [Next]_vars
               PROVE  CopyInv'
      OBVIOUS
  <2>1. TypeOK /\ LockDiscipline
      BY DEF CopyInv
  <2>2. CASE \E c \in Calls, op \in OpNames, k \in Keys : \E to \in Targets(op, k) : Start(c, op, k, to)
      BY <2>1, <2>2, StartTyped, StartLocks, StartCopies DEF CopyInv
  <2>3. CASE \E c \in Calls : Step(c) \/ Failure(c)
    <3>1. PICK c \in Calls : Step(c) \/ Failure(c)
        BY <2>3
    <3>2. OthersStay(c) /\ LockDiscipline' /\ Effects(c) /\ TypeOK'
        BY <2>1, <3>1, StepTyped, StepLocks, StepEffects
    <3> QED  BY <3>2, StepSwept, StepAlone, StepCopies DEF CopyInv
  <2>4. CASE Crash
      BY <2>1, <2>4, CrashTyped, CrashLocks, CrashCopies DEF CopyInv
  <2>5. CASE UNCHANGED vars
    <3>1. LockDiscipline'
        BY <2>1, <2>5 DEF vars, LockDiscipline, InKeyLock, Running, Routing,
           Rebuilding, Key, Op
    <3> QED  BY <2>1, <2>5, <3>1, StutterTyped, StutterCopies DEF CopyInv
  <2> QED  BY <2>2, <2>3, <2>4, <2>5 DEF Next, Finished
<1>3. CopyInv => IndexCopyCurrent
    BY DEF CopyInv
<1> QED  BY <1>1, <1>2, <1>3, PTL DEF Spec

-----------------------------------------------------------------------------
(* Keys are isolated.                                                       *)

\* What a key's own adapter holds under it.
Here(k) == store[home[k]][k]

\* Unless a key strayed, whatever says where it is names its home, and nothing
\* is elsewhere.
Placed(paths) == \A k \in Keys \ strays : paths[k] \in {None, home[k]}

Places ==
    /\ Placed(schema.paths) /\ Placed(index)
    /\ \A c \in Calls : Placed(loc[c].snap) /\ Placed(loc[c].seen)
    /\ \A a \in Adapters, k \in Keys \ strays : a # home[k] => store[a][k] = {}

\* A set goes to the home of its key, unless it takes the key away.
Aims ==
    \A c \in Calls :
        Running(c) /\ Op(c) \in Setters /\ (Key(c) \in strays => Key(c) \in known) =>
            Target(c) = home[Key(c)]

\* The schema leads to a key that strayed and whose content is known again; nobody
\* rebuilds the schema or deletes the key.
Signposts ==
    \A k \in known \cap strays :
        /\ schema.exists /\ k \in FlatKeys /\ schema.paths[k] = home[k]
        /\ k \notin swept
        /\ \A c \in Calls : ~Rebuilding(c) /\ (Running(c) /\ Key(c) = k => Op(c) # "delete")

\* Which operations a label belongs to, by what its handler returns to.
OpOfLabel(c) ==
    /\ Routing(c) =>
         \/ loc[c].ret = "route" /\ Op(c) \in Setters
         \/ loc[c].ret = "locate" /\ Op(c) \in {"get", "patch", "delete"}
         \/ loc[c].ret = "savePaths" /\ Op(c) \in Setters \cup {"delete"}
    /\ InIndexUpdate(c) =>
         \/ loc[c].ret = "added" /\ Op(c) \in Setters
         \/ loc[c].ret = "dropped" /\ Op(c) = "delete"
         \/ loc[c].ret = "cleaned" /\ Op(c) \in {"get", "patch"}
         \/ loc[c].ret = "validated" /\ Op(c) \in Setters
    /\ pc[c] \in {"scan"} => Op(c) \in {"get", "patch", "delete"}
    /\ pc[c] \in {"readLocated", "checkIndex"} => Op(c) \in {"get", "patch"}
    /\ pc[c] = "takeKeyLock" => Op(c) \in Locked
    /\ pc[c] = "readTarget" => Op(c) = "append"
    /\ pc[c] \in {"store", "loadSeen", "validate"} => Op(c) \in Setters
    /\ pc[c] = "savePaths" => Op(c) \in Setters \cup {"delete"}
    /\ pc[c] = "remove" => Op(c) = "delete"

\* Calls on a key whose content is known do not disturb each other.
KnownCompatible ==
    \A k \in known, c \in Calls : Running(c) /\ Key(c) = k =>
        /\ \A d \in Calls : ~Validating(d)
        /\ \A d \in Calls \ {c} : Running(d) /\ Key(d) = k =>
             \/ Op(c) = "get" /\ Op(d) = "get"
             \/ Op(c) \in Locked /\ Op(d) \in Locked

\* A call that is alone runs beside no rebuild but its own.
NoRebuildBeside == \A c \in alone : \A d \in Calls \ {c} : ~Rebuilding(d)

\* The calls that are changing a key: at most one if the key is known.
Busy(c, k) == Running(c) /\ Key(c) = k /\ (Op(c) \in {"overwrite", "delete"} \/ InKeyLock(c))

\* The calls whose keys nobody else changes; if the key strayed and is not known, a
\* copy may be elsewhere.
Sure(c) == Key(c) \in known \/ c \in alone

Clean(c) == Key(c) \in known \/ (c \in alone /\ Key(c) \notin strays)

\* The call has written its data, or removed it.
Written(c) ==
    \/ Routing(c) /\ loc[c].ret = "savePaths"
    \/ pc[c] = "savePaths"
    \/ InIndexUpdate(c) /\ loc[c].ret \in {"added", "dropped"}
    \/ pc[c] = "return"

\* Where a get, a patch or a delete has looked for the key.
Located(c) ==
    Clean(c) =>
        /\ pc[c] = "scan" =>
             /\ Key(c) \notin strays
             /\ \A i \in 1..(loc[c].pos - 1) : AdapterSeq[i] # home[Key(c)] \/ Here(Key(c)) = {}
        /\ pc[c] \in {"readLocated", "remove"} =>
             \/ loc[c].at = home[Key(c)]
             \/ Key(c) \notin strays /\ Here(Key(c)) = {}
        /\ pc[c] = "checkIndex" \/ (InIndexUpdate(c) /\ loc[c].ret = "cleaned") =>
             Here(Key(c)) = {}

\* What a call has made of its key.
Progress(c) ==
    /\ Op(c) = "overwrite" =>
         /\ pc[c] = "store" => loc[c].val = {c}
         /\ Sure(c) /\ Written(c) => store[Target(c)][Key(c)] = {c}
    /\ Op(c) = "delete" /\ Clean(c) /\ Written(c) => Here(Key(c)) = {}
    /\ Op(c) \in Locked /\ Key(c) \in known /\ InKeyLock(c) =>
         /\ Written(c) => Here(Key(c)) = expect[Key(c)] \cup {c}
         /\ pc[c] = "store" => Here(Key(c)) \in {expect[Key(c)], expect[Key(c)] \cup {c}}
         /\ ~Written(c) /\ pc[c] # "store" => Here(Key(c)) = expect[Key(c)]
         /\ pc[c] = "store" \/ (Routing(c) /\ loc[c].ret = "route") =>
              loc[c].val = expect[Key(c)] \cup {c}
    /\ Op(c) = "get" /\ Key(c) \in known /\ pc[c] = "return" =>
         loc[c].val = expect[Key(c)]

OnTrack(c) == Located(c) /\ Progress(c)

\* A key nobody is changing holds what the calls that returned put there.
IdleKeys ==
    \A k \in known : (\A c \in Calls : ~Busy(c, k)) => Here(k) = expect[k]

\* A validation is about to drop the entry of a key that has no data.
ValidatesMissing ==
    \A c \in Calls, k \in known :
        InIndexUpdate(c) /\ loc[c].ret = "validated" /\ loc[c].cur = k => Here(k) = {}

\* The entries a validation has read lead to the keys whose content is known.
SeenHome ==
    \A c \in Calls, k \in known : Validating(c) /\ pc[c] # "loadSeen" =>
        loc[c].seen[k] \in {None, home[k]}

\* An entry for key k that is, or may become, the one of the index.
Entry(k, x) ==
    /\ k \in known \ swept /\ (\A c \in Calls : ~Busy(c, k)) =>
         x = IF expect[k] = {} THEN None ELSE home[k]
    /\ \A c \in Calls :
         Busy(c, k) /\ pc[c] = "return" /\ (c \in alone \/ k \in known \ swept) =>
             x = IF Op(c) = "delete" THEN None ELSE Target(c)

Entries ==
    /\ \A k \in Keys : Entry(k, index[k])
    /\ \A c \in Calls, k \in Keys : pc[c] = "saveIndex" /\ k # Edited(c) => Entry(k, loc[c].snap[k])

\* What a rebuild has found, but for the keys it may have missed.
Rebuilt(c) ==
    \A k \in Keys \ (swept \cup strays) :
        /\ pc[c] = "rebuild" =>
             loc[c].snap[k] = IF Here(k) # {} /\ \E i \in 1..(loc[c].pos - 1) : AdapterSeq[i] = home[k]
                              THEN home[k] ELSE None
        /\ pc[c] \in {"rebuildSchema", "rebuildIndex"} =>
             loc[c].snap[k] = IF Here(k) # {} THEN home[k] ELSE None

OrderInv ==
    /\ CopyInv
    /\ Places /\ Aims /\ Signposts
    /\ KnownCompatible
    /\ NoRebuildBeside
    /\ \A c \in Calls : OpOfLabel(c)

ContentInv ==
    /\ OrderInv
    /\ IdleKeys
    /\ ValidatesMissing
    /\ \A c \in Calls : OnTrack(c)

IsolationInv ==
    /\ ContentInv
    /\ Entries /\ SeenHome
    /\ \A c \in Calls : Rebuilt(c)

\* What the shared handlers make of the call they are run for.
LEMMA FoundMove ==
    ASSUME TypeOK, NEW c \in Calls, NEW a \in Adapters, Found(c, a)
    PROVE  /\ pc'[c] = IF Op(c) = "delete" THEN "remove" ELSE "readLocated"
           /\ loc'[c].at = a /\ loc'[c].val = loc[c].val
           /\ loc'[c].snap = NoPaths /\ loc'[c].seen = loc[c].seen
           /\ loc'[c].cur = loc[c].cur /\ loc'[c].ret = "locate"
BY DEF Found, TypeOK, Goto, Locals

LEMMA GotSchemaMove ==
    ASSUME TypeOK, NEW c \in Calls, NEW paths \in Paths, GotSchema(c, paths)
    PROVE  /\ loc'[c].seen = loc[c].seen /\ loc'[c].cur = loc[c].cur
           /\ loc'[c].ret = loc[c].ret
           /\ \/ /\ loc[c].ret = "route" /\ loc'[c].snap = NoPaths
                 /\ pc'[c] = IF Op(c) = "append" THEN "takeKeyLock" ELSE "store"
                 /\ loc'[c].val = IF Op(c) = "overwrite" THEN {c} ELSE loc[c].val
              \/ /\ loc[c].ret = "locate" /\ loc'[c].snap = NoPaths
                 /\ pc'[c] = IF Op(c) = "delete" THEN "remove" ELSE "readLocated"
                 /\ PathEntry(c, paths) # None /\ loc'[c].at = PathEntry(c, paths)
                 /\ loc'[c].val = loc[c].val
              \/ /\ loc[c].ret = "locate" /\ loc'[c].snap = NoPaths
                 /\ pc'[c] = "scan" /\ loc'[c].pos = 1 /\ PathEntry(c, paths) = None
                 /\ loc'[c].val = loc[c].val
              \/ /\ loc[c].ret = "savePaths" /\ loc'[c].snap = paths
                 /\ pc'[c] = "savePaths" /\ loc'[c].val = loc[c].val
<1>1. CASE loc[c].ret = "route"
  <2>1. /\ Goto(c, IF Op(c) = "append" THEN "takeKeyLock" ELSE "store")
        /\ loc' = [loc EXCEPT ![c].snap = NoPaths,
                              ![c].val = IF Op(c) = "overwrite" THEN {c} ELSE @]
      BY <1>1 DEF GotSchema
  <2>2. pc'[c] = IF Op(c) = "append" THEN "takeKeyLock" ELSE "store"
      BY <2>1 DEF TypeOK, Goto
  <2>3. loc'[c] = [loc[c] EXCEPT !.snap = NoPaths,
                                 !.val = IF Op(c) = "overwrite" THEN {c} ELSE @]
      BY <2>1 DEF TypeOK
  <2> QED  BY <1>1, <2>2, <2>3 DEF TypeOK, Locals
<1>2. CASE loc[c].ret = "savePaths"
    BY <1>2 DEF GotSchema, TypeOK, Goto, Locals
<1>3. CASE loc[c].ret = "locate" /\ PathEntry(c, paths) = None
  <2>1. Goto(c, "scan") /\ loc' = [loc EXCEPT ![c].snap = NoPaths, ![c].pos = 1]
      BY <1>3 DEF GotSchema
  <2> QED  BY <1>3, <2>1 DEF TypeOK, Goto, Locals
<1>4. CASE loc[c].ret = "locate" /\ PathEntry(c, paths) # None
  <2>1. Found(c, PathEntry(c, paths)) /\ PathEntry(c, paths) \in Adapters
      BY <1>4 DEF GotSchema, TypeOK, Key, Paths, Location, PathEntry
  <2> QED  BY <1>4, <2>1, FoundMove
<1>5. loc[c].ret \in {"route", "locate", "savePaths"}
    BY DEF GotSchema
<1> QED  BY <1>1, <1>2, <1>3, <1>4, <1>5

LEMMA CallGetSchemaMove ==
    ASSUME TypeOK, NEW c \in Calls, NEW from, CallGetSchema(c, from)
    PROVE  /\ pc'[c] = "getSchema" /\ loc'[c].ret = from
           /\ loc'[c].val = (IF from = "route" THEN loc[c].val ELSE {})
           /\ loc'[c].snap = NoPaths /\ loc'[c].seen = NoPaths
<1>1. loc'[c] = [FreshLocals EXCEPT !.ret = from,
                    !.val = IF from = "route" THEN loc[c].val ELSE {}]
    BY DEF TypeOK, CallGetSchema
<1> QED  BY <1>1 DEF FreshLocals, TypeOK, CallGetSchema, Goto

LEMMA GotDataMove ==
    ASSUME TypeOK, NEW c \in Calls, NEW v, GotData(c, v)
    PROVE  /\ loc'[c].snap = NoPaths /\ loc'[c].seen = NoPaths
           /\ Op(c) = "get" => pc'[c] = "return" /\ loc'[c].val = v
           /\ Op(c) # "get" => /\ pc'[c] \in {"getSchema", "store"}
                               /\ loc'[c].val = v \cup {c} /\ loc'[c].ret = "route"
<1>1. CASE Op(c) = "get"
  <2>1. loc'[c] = [FreshLocals EXCEPT !.val = v] /\ pc'[c] = "return"
      BY <1>1 DEF GotData, TypeOK, Goto
  <2> QED  BY <1>1, <2>1 DEF FreshLocals
<1>2. CASE Op(c) # "get"
  <2>1. /\ loc'[c] = [FreshLocals EXCEPT !.val = v \cup {c}, !.ret = "route"]
        /\ pc'[c] \in {"getSchema", "store"}
      BY <1>2 DEF GotData, TypeOK, Goto
  <2> QED  BY <1>2, <2>1 DEF FreshLocals
<1> QED  BY <1>1, <1>2

LEMMA NothingPlaced == Placed(NoPaths)
BY DEF Placed, NoPaths

\* Which steps of a call change the files and the history.
LEMMA Changes ==
    ASSUME NEW c \in Calls, Step(c) \/ Failure(c)
    PROVE  /\ store' # store => Store(c) \/ Remove(c)
           /\ schema' # schema => RebuildSchema(c) \/ SavePaths(c)
           /\ index' # index => RebuildIndex(c) \/ SaveIndex(c)
           /\ \/ UNCHANGED history
              \/ MissSchema(c) \/ RebuildScan(c) \/ SavePaths(c)
              \/ ThrowInSet(c) \/ ThrowToCaller(c) \/ Rethrow(c) \/ Return(c)
<1> USE DEF files, history
<1>1. CASE TakeKeyLock(c) \/ ReadSchema(c) \/ MissSchema(c) \/ RebuildScan(c)
    BY <1>1 DEF TakeKeyLock, ReadSchema, MissSchema, RebuildScan
<1>2. CASE RebuildSchema(c) \/ RebuildIndex(c) \/ RebuildFails(c) \/ Scan(c)
    BY <1>2 DEF RebuildSchema, RebuildIndex, RebuildFails, Scan
<1>3. CASE ReadLocated(c) \/ CheckIndex(c) \/ ReadTarget(c) \/ Store(c)
    BY <1>3 DEF ReadLocated, CheckIndex, ReadTarget, Store
<1>4. CASE Remove(c) \/ SavePaths(c) \/ TakeIndexLock(c) \/ LoadIndex(c)
    BY <1>4 DEF Remove, SavePaths, TakeIndexLock, LoadIndex
<1>5. CASE SaveIndex(c) \/ LoadSeen(c) \/ Validate(c) \/ Validated(c)
    BY <1>5 DEF SaveIndex, LoadSeen, Validate, Validated, Rethrow, Leave
<1>6. CASE Return(c) \/ GoOn(c) \/ ThrowInSet(c) \/ ThrowToCaller(c)
    BY <1>6 DEF Return, GoOn, ThrowInSet, ThrowToCaller, Leave
<1> QED  BY <1>1, <1>2, <1>3, <1>4, <1>5, <1>6 DEF Step, Failure

\* A key moves only when a call that overwrote it alone returns.
Moves(c) ==
    /\ strays' = strays
    /\ \/ home' = home
       \/ /\ Return(c) /\ c \in alone /\ Op(c) = "overwrite"
          /\ home' = [home EXCEPT ![Key(c)] = Target(c)]

LEMMA StepMoves ==
    ASSUME NEW c \in Calls, Step(c) \/ Failure(c)
    PROVE  Moves(c)
<1>1. CASE UNCHANGED history
    BY <1>1 DEF Moves, history
<1>2. CASE Return(c)
    BY <1>2 DEF Moves, Return, Fixes
<1>3. CASE MissSchema(c) \/ RebuildScan(c) \/ SavePaths(c)
    BY <1>3 DEF Moves, MissSchema, RebuildScan, SavePaths
<1>4. CASE ThrowInSet(c) \/ ThrowToCaller(c) \/ Rethrow(c)
    BY <1>4 DEF Moves, ThrowInSet, ThrowToCaller, Rethrow
<1> QED  BY <1>1, <1>2, <1>3, <1>4, Changes

LEMMA HomeStays ==
    ASSUME TypeOK, Aims, NEW c \in Calls, Moves(c), NEW k \in Keys, k \in strays => k \in known
    PROVE  home'[k] = home[k]
<1>1. CASE home' = home
    BY <1>1
<1>2. CASE /\ Return(c) /\ c \in alone /\ Op(c) = "overwrite"
           /\ home' = [home EXCEPT ![Key(c)] = Target(c)]
  <2>1. Running(c) /\ Op(c) \in Setters
      BY <1>2 DEF Return, Running, Setters
  <2>2. k = Key(c) => Target(c) = home[k]
      BY <2>1 DEF Aims
  <2> QED  BY <1>2, <2>2 DEF TypeOK
<1> QED  BY <1>1, <1>2 DEF Moves

LEMMA Aimed ==
    ASSUME TypeOK, Aims, NEW c \in Calls, Running(c), Op(c) \in Setters, Key(c) \notin strays
    PROVE  Target(c) = home[Key(c)]
BY DEF Aims

LEMMA FilesPlaced ==
    ASSUME TypeOK, Places, Aims, NEW c \in Calls, OpOfLabel(c), Step(c) \/ Failure(c)
    PROVE  /\ Placed(schema'.paths) /\ Placed(index')
           /\ \A a \in Adapters, k \in Keys \ strays : a # home[k] => store'[a][k] = {}
<1>1. Placed(schema'.paths)
  <2>1. CASE RebuildSchema(c)
      BY <2>1, NothingPlaced DEF RebuildSchema
  <2>2. CASE SavePaths(c)
    <3>1. schema'.paths = [loc[c].snap EXCEPT
              ![Key(c)] = IF Op(c) = "delete" THEN None ELSE Target(c)]
        BY <2>2 DEF SavePaths
    <3>2. loc[c].snap \in Paths /\ Placed(loc[c].snap)
        BY DEF Places, TypeOK, Locals
    <3>3. Key(c) \notin strays => Op(c) = "delete" \/ Target(c) = home[Key(c)]
        BY <2>2, Aimed DEF SavePaths, OpOfLabel, Running
    <3> QED  BY <3>1, <3>2, <3>3 DEF Placed, Paths
  <2> QED  BY <2>1, <2>2, Changes DEF Places
<1>2. Placed(index')
  <2>1. Placed(loc[c].snap) /\ loc[c].snap \in Paths
      BY DEF Places, TypeOK, Locals
  <2>2. CASE RebuildIndex(c)
      BY <2>1, <2>2 DEF RebuildIndex
  <2>3. CASE SaveIndex(c)
    <3>1. index' = [loc[c].snap EXCEPT
              ![Edited(c)] = IF loc[c].ret = "added" THEN Target(c) ELSE None]
        BY <2>3 DEF SaveIndex
    <3>2. loc[c].ret = "added" /\ Edited(c) \notin strays => Target(c) = home[Edited(c)]
        BY <2>3, Aimed DEF Edited, SaveIndex, OpOfLabel, InIndexUpdate, Running, Setters
    <3> QED  BY <2>1, <3>1, <3>2 DEF Placed, Paths
  <2> QED  BY <2>2, <2>3, Changes DEF Places
<1>3. ASSUME NEW a \in Adapters, NEW k \in Keys \ strays, a # home[k]
      PROVE  store'[a][k] = {}
  <2>1. store[a][k] = {} /\ store \in [Adapters -> [Keys -> Data]]
      BY <1>3 DEF Places, TypeOK
  <2>2. CASE Store(c)
    <3>1. store' = [store EXCEPT ![Target(c)][Key(c)] = loc[c].val]
        BY <2>2 DEF Store
    <3>2. Key(c) = k => Target(c) = home[k]
        BY <2>2, Aimed DEF Store, OpOfLabel, Running
    <3> QED  BY <1>3, <2>1, <3>1, <3>2
  <2>3. CASE Remove(c)
      BY <2>1, <2>3 DEF Remove
  <2> QED  BY <2>1, <2>2, <2>3, Changes
<1> QED  BY <1>1, <1>2, <1>3

LEMMA SchemaPlaced ==
    ASSUME TypeOK, Places, NEW c \in Calls, NEW paths \in Paths, Placed(paths),
           GotSchema(c, paths)
    PROVE  Placed(loc'[c].snap) /\ Placed(loc'[c].seen)
BY GotSchemaMove, NothingPlaced DEF Places

LEMMA LocalsPlaced ==
    ASSUME TypeOK, Places, NEW c \in Calls, Step(c) \/ Failure(c)
    PROVE  Placed(loc'[c].snap) /\ Placed(loc'[c].seen)
<1>1. /\ Placed(loc[c].snap) /\ Placed(loc[c].seen) /\ Placed(index)
      /\ Placed(schema.paths) /\ schema.paths \in Paths
      /\ NoPaths \in Paths /\ Placed(NoPaths) /\ loc \in [Calls -> Locals]
    BY Constants, NothingPlaced DEF Places, TypeOK
<1>2. CASE UNCHANGED loc
    BY <1>1, <1>2
<1>3. CASE \E from : CallGetSchema(c, from)
    BY <1>1, <1>3, CallGetSchemaMove
<1>4. CASE \E a \in Adapters : Found(c, a)
    BY <1>1, <1>4, FoundMove
<1>5. CASE \E v : GotData(c, v)
    BY <1>1, <1>5, GotDataMove
<1>6. CASE GotSchema(c, schema.paths) \/ GotSchema(c, NoPaths)
    BY <1>1, <1>6, SchemaPlaced
<1>7. CASE Leave(c)
  <2>1. loc'[c] = FreshLocals
      BY <1>1, <1>7 DEF Leave
  <2> QED  BY <1>1, <2>1 DEF FreshLocals
<1>8. CASE loc' = [loc EXCEPT ![c].snap = NoPaths]
    BY <1>1, <1>8 DEF Locals
<1>9. CASE TakeKeyLock(c) \/ ReadSchema(c) \/ RebuildSchema(c) \/ RebuildIndex(c)
           \/ RebuildFails(c) \/ ReadLocated(c) \/ Store(c) \/ Remove(c)
           \/ TakeIndexLock(c) \/ SaveIndex(c)
    BY <1>2, <1>3, <1>5, <1>6, <1>8, <1>9 DEF TakeKeyLock, ReadSchema, RebuildSchema,
       RebuildIndex, RebuildFails, ReadLocated, Store, Remove, TakeIndexLock, SaveIndex
<1>10. CASE MissSchema(c)
    BY <1>1, <1>10 DEF MissSchema, Locals
<1>11. CASE RebuildScan(c)
  <2> DEFINE a == AdapterSeq[loc[c].pos]
             held == {k \in Keys : store[a][k] # {}}
             found(missed) == [k \in Keys |-> IF k \in held \ missed THEN a
                                              ELSE loc[c].snap[k]]
  <2>1. PICK missed \in SUBSET held :
          loc' = [loc EXCEPT
             ![c].pos = IF loc[c].pos = Len(AdapterSeq) THEN 1 ELSE @ + 1,
             ![c].snap = [k \in Keys |-> IF k \in held \ missed THEN a ELSE @[k]]]
      BY <1>11 DEF RebuildScan
  <2>2. loc'[c].snap = found(missed) /\ loc'[c].seen = loc[c].seen
      BY <1>1, <2>1 DEF Locals
  <2>3. ASSUME NEW k \in Keys \ strays
        PROVE  found(missed)[k] \in {None, home[k]}
    <3>1. k \in held => a = home[k]
        BY AdapterTyped DEF Places
    <3> QED  BY <1>1, <3>1 DEF Placed
  <2> QED  BY <1>1, <2>2, <2>3 DEF Placed
<1>12. CASE Scan(c)
  <2>1. CASE loc' = [loc EXCEPT ![c].pos = @ + 1]
      BY <1>1, <2>1 DEF Locals
  <2> QED  BY <1>4, <1>12, <2>1, AdapterTyped, RouterAssumption DEF Scan
<1>13. CASE CheckIndex(c)
  <2>1. CASE loc' = [loc EXCEPT ![c].ret = "cleaned"]
      BY <1>1, <2>1 DEF Locals
  <2> QED  BY <1>5, <1>13, <2>1 DEF CheckIndex
<1>14. CASE ReadTarget(c) \/ SavePaths(c) \/ LoadIndex(c)
  <2>1. CASE ReadTarget(c)
      BY <1>1, <2>1 DEF ReadTarget, Locals
  <2>2. CASE SavePaths(c)
    <3>1. loc' = [loc EXCEPT ![c].snap = NoPaths,
                    ![c].ret = IF Op(c) = "delete" THEN "dropped" ELSE "added"]
        BY <2>2 DEF SavePaths
    <3> QED  BY <1>1, <3>1 DEF Locals
  <2>3. CASE LoadIndex(c)
      BY <1>1, <2>3 DEF LoadIndex, Locals
  <2> QED  BY <1>14, <2>1, <2>2, <2>3
<1>15. CASE LoadSeen(c)
  <2>1. CASE loc' = [loc EXCEPT ![c].seen = index]
      BY <1>1, <2>1 DEF Locals
  <2> QED  BY <1>7, <1>15, <2>1 DEF LoadSeen, Rethrow
<1>16. CASE Validate(c)
  <2>1. PICK k \in Keys :
          \/ loc' = [loc EXCEPT ![c].seen[k] = None]
          \/ loc' = [loc EXCEPT ![c].seen[k] = None, ![c].cur = k,
                                ![c].ret = "validated"]
      BY <1>16 DEF Validate
  <2>2. /\ loc'[c].snap = loc[c].snap
        /\ loc'[c].seen = [loc[c].seen EXCEPT ![k] = None]
      BY <1>1, <2>1 DEF Locals
  <2> QED  BY <1>1, <2>2 DEF Placed, Locals, Paths
<1>17. CASE Validated(c) \/ Return(c) \/ ThrowToCaller(c)
    BY <1>7, <1>17 DEF Validated, Rethrow, Return, ThrowToCaller
<1>18. CASE GoOn(c) \/ ThrowInSet(c)
    BY <1>6, <1>8, <1>18 DEF GoOn, ThrowInSet
<1> QED  BY <1>9, <1>10, <1>11, <1>12, <1>13, <1>14, <1>15, <1>16, <1>17, <1>18
    DEF Step, Failure

LEMMA StepPlaces ==
    ASSUME TypeOK, Places, Aims, NEW c \in Calls, OpOfLabel(c), OthersStay(c),
           Step(c) \/ Failure(c)
    PROVE  Places'
<1>1. /\ Placed(schema'.paths) /\ Placed(index')
      /\ \A a \in Adapters, k \in Keys \ strays : a # home[k] => store'[a][k] = {}
    BY FilesPlaced
<1>2. ASSUME NEW d \in Calls
      PROVE  Placed(loc'[d].snap) /\ Placed(loc'[d].seen)
    BY LocalsPlaced DEF OthersStay, Places
<1>3. \A d \in Calls : Placed(loc'[d].snap) /\ Placed(loc'[d].seen)
    BY <1>2
<1>4. strays' = strays /\ \A k \in Keys \ strays : home'[k] = home[k]
    BY StepMoves, HomeStays DEF Moves
<1> QED  BY <1>1, <1>3, <1>4 DEF Places, Placed

\* The label a call is at tells its operation.
LEMMA StepLabels ==
    ASSUME TypeOK, NEW c \in Calls, OpOfLabel(c), Step(c) \/ Failure(c)
    PROVE  OpOfLabel(c)'
<1> USE DEF OpOfLabel, Routing, Rebuilding, InIndexUpdate, Setters, Locked
<1>1. loc \in [Calls -> Locals] /\ pc \in [Calls -> PCs]
      /\ schema.paths \in Paths /\ NoPaths \in Paths
      /\ Op(c) \in {"overwrite", "append", "patch", "get", "delete"}
    BY Constants DEF TypeOK, Op, OpNames
<1>2. UNCHANGED req => Op(c)' = Op(c)
    BY DEF Op
<1>3. ASSUME pc'[c] = "done"
      PROVE  OpOfLabel(c)'
    BY <1>3
<1>4. CASE TakeKeyLock(c)
  <2>1. CASE Op(c) = "append"
      BY <1>2, <1>4, <2>1, GotoStays DEF TakeKeyLock
  <2>2. CASE Op(c) # "append"
      BY <1>2, <1>4, <2>2, CallGetSchemaMove DEF TakeKeyLock
  <2> QED  BY <2>1, <2>2
<1>5. ASSUME NEW paths \in Paths, GotSchema(c, paths), UNCHANGED req, Routing(c)
      PROVE  OpOfLabel(c)'
  <2>1. loc'[c].ret = loc[c].ret /\ Op(c)' = Op(c)
      BY <1>2, <1>5, GotSchemaMove
  <2>2. CASE loc[c].ret = "route" /\ Op(c) \in Setters
    <3>1. pc'[c] \in {"takeKeyLock", "store"} /\ (pc'[c] = "takeKeyLock" => Op(c) = "append")
        BY <1>5, <2>2, GotSchemaMove
    <3> QED  BY <2>1, <2>2, <3>1
  <2>3. CASE loc[c].ret = "locate" /\ Op(c) \in {"get", "patch", "delete"}
    <3>1. \/ pc'[c] = "scan"
          \/ pc'[c] = IF Op(c) = "delete" THEN "remove" ELSE "readLocated"
        BY <1>5, <2>3, GotSchemaMove
    <3> QED  BY <2>1, <2>3, <3>1
  <2>4. CASE loc[c].ret = "savePaths" /\ Op(c) \in Setters \cup {"delete"}
    <3>1. pc'[c] = "savePaths"
        BY <1>5, <2>4, GotSchemaMove
    <3> QED  BY <2>1, <2>4, <3>1
  <2>5. \/ loc[c].ret = "route" /\ Op(c) \in Setters
        \/ loc[c].ret = "locate" /\ Op(c) \in {"get", "patch", "delete"}
        \/ loc[c].ret = "savePaths" /\ Op(c) \in Setters \cup {"delete"}
      BY <1>5
  <2> QED  BY <2>2, <2>3, <2>4, <2>5
<1>6. CASE ReadSchema(c) \/ RebuildIndex(c) \/ RebuildFails(c)
    BY <1>1, <1>5, <1>6 DEF ReadSchema, RebuildIndex, RebuildFails
<1>7. CASE MissSchema(c) \/ RebuildScan(c) \/ RebuildSchema(c)
  <2>1. loc'[c].ret = loc[c].ret
    <3>1. CASE RebuildScan(c)
      <4>1. PICK pos, snap : loc' = [loc EXCEPT ![c].pos = pos, ![c].snap = snap]
          BY <3>1, RebuildScanLocals
      <4> QED  BY <1>1, <4>1 DEF Locals
    <3>2. CASE MissSchema(c) \/ RebuildSchema(c)
        BY <1>1, <3>2 DEF MissSchema, RebuildSchema, Locals
    <3> QED  BY <1>7, <3>1, <3>2
  <2>2. /\ pc'[c] \in {"rebuild", "rebuildSchema", "rebuildIndex"} /\ UNCHANGED req
        /\ Routing(c)
      BY <1>7, GotoStays DEF MissSchema, RebuildScan, RebuildSchema
  <2> QED  BY <1>2, <2>1, <2>2
<1>8. ASSUME NEW a \in Adapters, Found(c, a), UNCHANGED req,
             Op(c) \in {"get", "patch", "delete"}
      PROVE  OpOfLabel(c)'
    BY <1>2, <1>8, FoundMove
<1>9. CASE Scan(c)
  <2>1. CASE loc' = [loc EXCEPT ![c].pos = @ + 1] /\ UNCHANGED pc
      BY <1>2, <1>9, <2>1 DEF Scan
  <2> QED  BY <1>8, <1>9, <2>1, AdapterTyped, RouterAssumption DEF Scan
<1>10. ASSUME NEW v, GotData(c, v), UNCHANGED req, Op(c) \in {"get", "patch"}
       PROVE  OpOfLabel(c)'
    BY <1>2, <1>10, GotDataMove
<1>11. CASE ReadLocated(c) \/ CheckIndex(c)
  <2>1. CASE Goto(c, "checkIndex") /\ UNCHANGED loc
      BY <1>2, <1>11, <2>1, GotoStays DEF ReadLocated, CheckIndex
  <2>2. CASE loc' = [loc EXCEPT ![c].ret = "cleaned"] /\ Goto(c, "takeIndexLock")
    <3>1. loc'[c].ret = "cleaned" /\ pc'[c] = "takeIndexLock"
        BY <1>1, <2>2, GotoStays DEF Locals
    <3> QED  BY <1>2, <1>11, <3>1 DEF ReadLocated, CheckIndex
  <2> QED  BY <1>10, <1>11, <2>1, <2>2 DEF ReadLocated, CheckIndex
<1>12. CASE ReadTarget(c)
    BY <1>2, <1>12, GotoStays DEF ReadTarget
<1>13. CASE Store(c) \/ Remove(c)
  <2>1. CASE UNCHANGED <<pc, loc>>
      BY <1>2, <1>13, <2>1 DEF Store, Remove
  <2> QED  BY <1>2, <1>13, <2>1, CallGetSchemaMove DEF Store, Remove
<1>14. CASE SavePaths(c)
  <2>1. /\ loc'[c].ret = (IF Op(c) = "delete" THEN "dropped" ELSE "added")
        /\ pc'[c] = "takeIndexLock"
      BY <1>1, <1>14, GotoStays DEF SavePaths, Locals
  <2> QED  BY <1>2, <1>14, <2>1 DEF SavePaths
<1>15. CASE TakeIndexLock(c) \/ LoadIndex(c)
  <2>1. loc'[c].ret = loc[c].ret /\ pc'[c] \in {"loadIndex", "saveIndex"}
      BY <1>1, <1>15, GotoStays DEF TakeIndexLock, LoadIndex, Locals
  <2> QED  BY <1>2, <1>15, <2>1 DEF TakeIndexLock, LoadIndex
<1>16. CASE SaveIndex(c)
  <2>1. CASE loc[c].ret = "validated"
      BY <1>2, <1>16, <2>1, GotoStays DEF SaveIndex
  <2>2. CASE loc[c].ret = "cleaned"
      BY <1>10, <1>16, <2>2 DEF SaveIndex
  <2>3. CASE loc[c].ret \notin {"validated", "cleaned"}
      BY <1>2, <1>16, <2>3, GotoStays DEF SaveIndex
  <2> QED  BY <2>1, <2>2, <2>3
<1>17. CASE Leave(c)
    BY <1>3, <1>17, GotoStays DEF Leave
<1>18. CASE LoadSeen(c)
  <2>1. CASE Goto(c, "validate") /\ UNCHANGED req
      BY <1>2, <1>18, <2>1, GotoStays DEF LoadSeen
  <2> QED  BY <1>17, <1>18, <2>1 DEF LoadSeen, Rethrow
<1>19. CASE Validate(c)
  <2>1. CASE UNCHANGED pc
      BY <1>2, <1>19, <2>1 DEF Validate
  <2>2. CASE \E k \in Keys :
               /\ loc' = [loc EXCEPT ![c].seen[k] = None, ![c].cur = k,
                                     ![c].ret = "validated"]
               /\ Goto(c, "takeIndexLock")
    <3>1. loc'[c].ret = "validated" /\ pc'[c] = "takeIndexLock"
        BY <1>1, <2>2, GotoStays DEF Locals
    <3> QED  BY <1>2, <1>19, <3>1 DEF Validate
  <2> QED  BY <1>19, <2>1, <2>2 DEF Validate
<1>20. CASE Validated(c) \/ Return(c) \/ ThrowToCaller(c)
    BY <1>17, <1>20 DEF Validated, Rethrow, Return, ThrowToCaller
<1>21. CASE GoOn(c)
  <2>1. CASE pc[c] = "getSchema"
      BY <1>1, <1>5, <1>21, <2>1 DEF GoOn
  <2>2. CASE pc[c] # "getSchema"
      BY <1>2, <1>21, <2>2, GotoStays DEF GoOn, Caught
  <2> QED  BY <2>1, <2>2
<1>22. CASE ThrowInSet(c)
    BY <1>2, <1>22, GotoStays DEF ThrowInSet, InTry
<1> QED  BY <1>4, <1>6, <1>7, <1>9, <1>11, <1>12, <1>13, <1>14, <1>15, <1>16,
    <1>18, <1>19, <1>20, <1>21, <1>22 DEF Step, Failure

\* How a call goes on: only a set that fails starts to validate, only a call
\* that misses the schema starts to rebuild.
LEMMA Goes ==
    ASSUME TypeOK, NEW c \in Calls, Step(c) \/ Failure(c)
    PROVE  /\ Running(c)
           /\ Running(c)' \/ ThrowToCaller(c) \/ Return(c) \/ (Rethrow(c) /\ Validating(c))
           /\ Validating(c)' => Validating(c) \/ ThrowInSet(c)
           /\ Rebuilding(c)' => Rebuilding(c) \/ MissSchema(c)
<1> USE DEF Running, Validating, Rebuilding, InIndexUpdate
<1> DEFINE Plain == {"takeKeyLock", "getSchema", "scan", "readLocated", "checkIndex",
                     "readTarget", "store", "remove", "savePaths", "return"}
           Goal == /\ Running(c)
                   /\ \/ Running(c)' \/ ThrowToCaller(c) \/ Return(c)
                      \/ Rethrow(c) /\ Validating(c)
                   /\ Validating(c)' => Validating(c) \/ ThrowInSet(c)
                   /\ Rebuilding(c)' => Rebuilding(c) \/ MissSchema(c)
<1>1. ASSUME pc'[c] \in Plain, Running(c)  PROVE Goal
    BY <1>1
<1>2. ASSUME NEW paths, GotSchema(c, paths)  PROVE pc'[c] \in Plain
    BY <1>2, GotSchemaEffects
<1>3. ASSUME NEW v, GotData(c, v)  PROVE pc'[c] \in Plain
    BY <1>3, GotDataLocks, GotoStays DEF GotData
<1>4. ASSUME NEW from, CallGetSchema(c, from)  PROVE pc'[c] \in Plain
    BY <1>4, CallGetSchemaLocks
<1>5. CASE ReadSchema(c) \/ RebuildIndex(c) \/ RebuildFails(c)
    BY <1>1, <1>2, <1>5 DEF ReadSchema, RebuildIndex, RebuildFails
<1>6. CASE MissSchema(c) \/ RebuildScan(c) \/ RebuildSchema(c)
  <2>1. pc'[c] \in {"rebuild", "rebuildSchema", "rebuildIndex"} /\ Running(c)
      BY <1>6, GotoStays DEF MissSchema, RebuildScan, RebuildSchema
  <2> QED  BY <1>6, <2>1 DEF RebuildScan, RebuildSchema
<1>7. CASE TakeKeyLock(c) \/ Scan(c) \/ ReadTarget(c)
    BY <1>1, <1>4, <1>7, GotoStays DEF TakeKeyLock, Scan, Found, ReadTarget
<1>8. CASE ReadLocated(c)
    BY <1>1, <1>3, <1>8, GotoStays DEF ReadLocated
<1>9. CASE CheckIndex(c) \/ SavePaths(c)
  <2>1. CASE \E v : GotData(c, v)
      BY <1>1, <1>3, <1>9, <2>1 DEF CheckIndex, SavePaths
  <2>2. CASE ~ \E v : GotData(c, v)
    <3>1. pc'[c] = "takeIndexLock" /\ loc'[c].ret \in {"cleaned", "dropped", "added"}
      <4>1. /\ Goto(c, "takeIndexLock")
            /\ \/ loc' = [loc EXCEPT ![c].ret = "cleaned"]
               \/ loc' = [loc EXCEPT ![c].snap = NoPaths,
                    ![c].ret = IF Op(c) = "delete" THEN "dropped" ELSE "added"]
          BY <1>9, <2>2 DEF CheckIndex, SavePaths
      <4> QED  BY <4>1, GotoStays DEF TypeOK, Locals
    <3> QED  BY <1>9, <3>1 DEF CheckIndex, SavePaths
  <2> QED  BY <2>1, <2>2
<1>10. CASE Store(c) \/ Remove(c)
    BY <1>1, <1>4, <1>10 DEF Store, Remove
<1>11. CASE TakeIndexLock(c) \/ LoadIndex(c)
  <2>1. loc'[c].ret = loc[c].ret /\ pc'[c] \in {"loadIndex", "saveIndex"}
      BY <1>11, GotoStays DEF TakeIndexLock, LoadIndex, TypeOK, Locals
  <2> QED  BY <1>11, <2>1 DEF TakeIndexLock, LoadIndex
<1>12. CASE SaveIndex(c)
  <2>1. \/ \E v : GotData(c, v)
        \/ pc'[c] = "return"
        \/ pc'[c] = "validate" /\ loc[c].ret = "validated"
      BY <1>12, GotoStays DEF SaveIndex
  <2> QED  BY <1>1, <1>3, <1>12, <2>1 DEF SaveIndex
<1>13. CASE LoadSeen(c) \/ Validate(c)
  <2>1. Rethrow(c) \/ pc'[c] \in {"validate", "takeIndexLock"}
      BY <1>13, GotoStays DEF LoadSeen, Validate
  <2>2. Running(c) /\ Validating(c)
      BY <1>13 DEF LoadSeen, Validate
  <2>3. Rethrow(c) => pc'[c] = "done"
      BY GotoStays DEF Rethrow, Leave
  <2> QED  BY <2>1, <2>2, <2>3
<1>14. CASE Validated(c) \/ Return(c) \/ ThrowToCaller(c)
  <2>1. pc'[c] = "done" /\ Running(c)
      BY <1>14, GotoStays DEF Validated, Return, ThrowToCaller, Rethrow, Leave, CanThrow
  <2>2. Validated(c) => Validating(c) /\ Rethrow(c)
      BY DEF Validated
  <2> QED  BY <1>14, <2>1, <2>2
<1>15. CASE GoOn(c)
  <2>1. CASE pc[c] = "getSchema"
      BY <1>1, <1>2, <1>15, <2>1 DEF GoOn
  <2>2. CASE pc[c] # "getSchema"
      BY <1>15, <2>2, GotoStays DEF GoOn, Caught
  <2> QED  BY <2>1, <2>2
<1>16. CASE ThrowInSet(c)
  <2>1. pc'[c] = "loadSeen" /\ Running(c)
      BY <1>16, GotoStays DEF ThrowInSet, CanThrow
  <2> QED  BY <1>16, <2>1
<1> QED  BY <1>5, <1>6, <1>7, <1>8, <1>9, <1>10, <1>11, <1>12, <1>13, <1>14, <1>15,
    <1>16 DEF Step, Failure

\* What a step of a call may do to what is known of the keys.
Remembers(c) ==
    /\ known' \subseteq known \/ (c \in alone /\ pc[c] = "return" /\ ~Running(c)')
    /\ known' \subseteq known \cup {Key(c)}
    /\ \A k \in known' : \/ expect'[k] = expect[k]
                         \/ k = Key(c) /\ pc[c] = "return" /\ Op(c) # "get"
    /\ Moves(c)
    /\ Validating(c)' =>
           Validating(c) \/ \A d \in Calls : Running(d) => Key(d) \notin known'
    /\ Rebuilding(c)' =>
           Rebuilding(c) \/ \A d \in Calls \ {c} : Running(d) => d \notin alone'
    /\ ~Running(c)' => \/ Return(c) \/ Op(c) = "get" \/ Validating(c)
                       \/ Key(c) \notin known'

LEMMA StepRemembers ==
    ASSUME TypeOK, NEW c \in Calls, Step(c) \/ Failure(c)
    PROVE  Remembers(c)
<1> USE StepMoves
<1>1. CASE Return(c)
  <2>1. ~Running(c)' /\ ~Validating(c)' /\ ~Rebuilding(c)'
      BY <1>1, GotoStays DEF Return, Leave, Running, Validating, Rebuilding, InIndexUpdate
  <2>2. \A k \in known' : \/ expect'[k] = expect[k]
                          \/ k = Key(c) /\ pc[c] = "return" /\ Op(c) # "get"
    <3>1. \A k \in Keys : k # Key(c) => expect'[k] = expect[k]
        BY <1>1 DEF Return, TypeOK
    <3>2. Op(c) = "get" /\ Key(c) \in known' => expect'[Key(c)] = expect[Key(c)]
        BY <1>1 DEF Return, TypeOK, Key, After, Locked
    <3>3. known' \subseteq Keys
        BY <1>1 DEF Return, TypeOK, Key
    <3> QED  BY <1>1, <3>1, <3>2, <3>3 DEF Return
  <2>3. /\ known' \subseteq known \/ (c \in alone /\ pc[c] = "return")
        /\ known' \subseteq known \cup {Key(c)} /\ pc[c] = "return" /\ known' \subseteq Keys
      BY <1>1 DEF Return, TypeOK, Key, Fixes
  <2> QED  BY <1>1, <2>1, <2>2, <2>3 DEF Remembers
<1>2. ASSUME known' \subseteq known, Forget
      PROVE  \A k \in known' : expect'[k] = expect[k]
    BY <1>2 DEF Forget, TypeOK
<1>3. CASE ThrowToCaller(c)
  <2>1. ~Running(c)' /\ ~Validating(c)' /\ ~Rebuilding(c)'
      BY <1>3, GotoStays DEF ThrowToCaller, Leave, Running, Validating, Rebuilding,
         InIndexUpdate
  <2>2. known' \subseteq known /\ (Op(c) = "get" \/ Key(c) \notin known') /\ Forget
      BY <1>3 DEF ThrowToCaller
  <2> QED  BY <1>2, <2>1, <2>2 DEF Remembers
<1>4. CASE Rethrow(c) /\ Validating(c)
  <2>1. ~Running(c)' /\ ~Validating(c)' /\ ~Rebuilding(c)'
      BY <1>4, GotoStays DEF Rethrow, Leave, Running, Validating, Rebuilding, InIndexUpdate
  <2>2. UNCHANGED <<known, expect>>
      BY <1>4 DEF Rethrow
  <2> QED  BY <1>4, <2>1, <2>2 DEF Remembers
<1>5. CASE ThrowInSet(c)
  <2>1. Running(c)' /\ ~Rebuilding(c)' /\ Running(c)
      BY <1>5, GotoStays DEF ThrowInSet, Running, Rebuilding, CanThrow
  <2>2. /\ known' \subseteq known /\ Forget
        /\ \A d \in Calls : Running(d) => Key(d) \notin known'
      BY <1>5 DEF ThrowInSet
  <2> QED  BY <1>2, <2>1, <2>2 DEF Remembers
<1>6. CASE MissSchema(c) \/ RebuildScan(c)
  <2>1. /\ Running(c)' /\ ~Validating(c)' /\ UNCHANGED <<known, expect>>
    <3>1. pc'[c] \in {"rebuild", "rebuildSchema"}
        BY <1>6, GotoStays DEF MissSchema, RebuildScan
    <3> QED  BY <1>6, <3>1 DEF MissSchema, RebuildScan, Running, Validating, InIndexUpdate
  <2>2. Rebuilding(c) \/ \A d \in Calls \ {c} : Running(d) => d \notin alone'
      BY <1>6 DEF MissSchema, RebuildScan, Rebuilding
  <2> QED  BY <2>1, <2>2 DEF Remembers
<1>8. CASE SavePaths(c)
  <2>1. known' \subseteq known /\ Forget
      BY <1>8 DEF SavePaths
  <2>2. Running(c)' /\ (Validating(c)' => Validating(c)) /\ (Rebuilding(c)' => Rebuilding(c))
    <3>1. pc[c] = "savePaths" /\ pc'[c] = "takeIndexLock"
        BY <1>8, GotoStays DEF SavePaths
    <3>2. ~ThrowInSet(c) \/ pc'[c] = "loadSeen"
        BY GotoStays DEF ThrowInSet
    <3> QED  BY <3>1, <3>2, Goes DEF MissSchema, Running
  <2> QED  BY <1>2, <2>1, <2>2 DEF Remembers
<1>7. CASE /\ ~Return(c) /\ ~ThrowToCaller(c) /\ ~(Rethrow(c) /\ Validating(c))
           /\ ~ThrowInSet(c) /\ ~MissSchema(c) /\ ~RebuildScan(c) /\ ~SavePaths(c)
  <2>1. UNCHANGED history
    <3>1. ~Rethrow(c)
        BY <1>7, Goes, GotoStays DEF Rethrow, Leave, Running
    <3> QED  BY <1>7, <3>1, Changes
  <2>2. /\ Running(c)' /\ (Validating(c)' => Validating(c))
        /\ (Rebuilding(c)' => Rebuilding(c))
      BY <1>7, Goes
  <2> QED  BY <2>1, <2>2 DEF Remembers, history
<1> QED  BY <1>1, <1>3, <1>4, <1>5, <1>6, <1>7, <1>8

LEMMA RanBefore ==
    ASSUME NEW c \in Calls, OthersStay(c), Effects(c), NEW d \in Calls, Running(d)'
    PROVE  Running(d) /\ Key(d)' = Key(d) /\ Op(d)' = Op(d) /\ Target(d)' = Target(d)
<1>1. CASE d = c
    BY <1>1 DEF Effects, Key, Op, Target
<1>2. CASE d # c
    BY <1>2, OtherKept DEF OthersStay, Op, Target
<1> QED  BY <1>1, <1>2

\* A key becomes known only when the one call on it returns.
LEMMA KnownBefore ==
    ASSUME CopyInv, NEW c \in Calls, OthersStay(c), Effects(c), Remembers(c),
           NEW d \in Calls, Running(d)', Key(d)' \in known'
    PROVE  Key(d) \in known
<1>1. Running(d) /\ Key(d)' = Key(d)
    BY RanBefore
<1>2. CASE Key(d) \notin known
  <2>1. c \in alone /\ ~Running(c)' /\ Key(d) = Key(c)
      BY <1>1, <1>2 DEF Remembers
  <2>2. d # c /\ Uses(d, Key(c))
      BY <1>1, <2>1 DEF Uses
  <2> QED  BY <2>1, <2>2 DEF CopyInv, AloneIsAlone
<1> QED  BY <1>2

LEMMA StepAims ==
    ASSUME CopyInv, Aims, NEW c \in Calls, OthersStay(c), Effects(c), Remembers(c)
    PROVE  Aims'
<1> SUFFICES ASSUME NEW d \in Calls, Running(d)', Op(d)' \in Setters,
                    Key(d)' \in strays' => Key(d)' \in known'
             PROVE  Target(d)' = home'[Key(d)']
    BY DEF Aims
<1>1. Running(d) /\ Key(d)' = Key(d) /\ Op(d)' = Op(d) /\ Target(d)' = Target(d)
    BY RanBefore
<1>2. Key(d) \in strays => Key(d) \in known
    BY <1>1, KnownBefore DEF Remembers, Moves
<1>3. Key(d) \in Keys /\ TypeOK
    BY DEF CopyInv, TypeOK, Key
<1>4. home'[Key(d)] = home[Key(d)]
    BY <1>2, <1>3, HomeStays DEF Remembers
<1> QED  BY <1>1, <1>2, <1>4 DEF Aims

\* Only a set that the schema points to makes a stray key known.
LEMMA FixesStray ==
    ASSUME TypeOK, NEW c \in Calls, Step(c) \/ Failure(c),
           NEW k \in known' \cap strays, k \notin known
    PROVE  /\ k = Key(c) /\ c \in alone /\ UNCHANGED schema /\ k \notin swept'
           /\ schema.exists /\ k \in FlatKeys /\ schema.paths[k] = Target(c)
           /\ Return(c) /\ home' = [home EXCEPT ![k] = Target(c)]
<1>1. Return(c)
  <2>1. pc[c] = "return"
      BY StepRemembers DEF Remembers
  <2> QED  BY <2>1, StepRemembers, Goes DEF Remembers, ThrowToCaller, CanThrow, Validating,
           InIndexUpdate
<1>2. Fixes(c) /\ k = Key(c) /\ UNCHANGED schema /\ k \notin swept'
    BY <1>1 DEF Return, Leave, files
<1>3. /\ c \in alone /\ Op(c) = "overwrite" /\ schema.exists
      /\ k \in FlatKeys /\ schema.paths[k] = Target(c)
    BY <1>2 DEF Fixes
<1>4. home' = [home EXCEPT ![k] = Target(c)]
    BY <1>1, <1>2, <1>3 DEF Return
<1> QED  BY <1>1, <1>2, <1>3, <1>4

LEMMA StepSignposts ==
    ASSUME CopyInv, Aims, Signposts, NoRebuildBeside, NEW c \in Calls, OpOfLabel(c),
           OthersStay(c), Effects(c), Step(c) \/ Failure(c)
    PROVE  Signposts'
<1>1. TypeOK /\ Remembers(c) /\ Moves(c) /\ Running(c)
    BY StepRemembers, StepMoves, Goes DEF CopyInv
<1> SUFFICES ASSUME NEW k \in known' \cap strays'
             PROVE  /\ schema'.exists /\ k \in FlatKeys /\ schema'.paths[k] = home'[k]
                    /\ k \notin swept'
                    /\ \A d \in Calls : ~Rebuilding(d)' /\ (Running(d)' /\ Key(d)' = k => Op(d)' # "delete")
    BY DEF Signposts
<1>0. k \in known' \cap strays
    BY <1>1 DEF Moves
<1>2. CASE k \in known
  <2>1. /\ schema.exists /\ k \in FlatKeys /\ schema.paths[k] = home[k] /\ k \notin swept
        /\ \A d \in Calls : ~Rebuilding(d) /\ (Running(d) /\ Key(d) = k => Op(d) # "delete")
      BY <1>0, <1>2 DEF Signposts
  <2>2. k \in Keys /\ home'[k] = home[k]
      BY <1>1, <1>2, HomeStays DEF TypeOK
  <2>3. ~MissSchema(c) /\ ~RebuildScan(c) /\ ~RebuildSchema(c)
      BY <2>1 DEF MissSchema, RebuildScan, RebuildSchema, Rebuilding
  <2>4. schema'.exists /\ schema'.paths[k] = home[k]
    <3>1. CASE SavePaths(c)
      <4>1. /\ schema'.exists
            /\ schema'.paths = [loc[c].snap EXCEPT
                   ![Key(c)] = IF Op(c) = "delete" THEN None ELSE Target(c)]
            /\ known' = known \ {j \in strays \ {Key(c)} : loc[c].snap[j] # schema.paths[j]}
          BY <3>1 DEF SavePaths
      <4>2. loc[c].snap \in Paths
          BY <1>1 DEF TypeOK, Locals
      <4>3. CASE k = Key(c)
        <5>1. Op(c) \in Setters /\ Op(c) # "delete"
            BY <1>1, <2>1, <3>1, <4>3 DEF OpOfLabel, SavePaths
        <5>2. Target(c) = home[k]
            BY <1>1, <1>2, <4>3, <5>1 DEF Aims
        <5> QED  BY <2>2, <4>1, <4>2, <4>3, <5>1, <5>2 DEF Paths
      <4>4. CASE k # Key(c)
        <5>1. loc[c].snap[k] = schema.paths[k]
            BY <1>0, <4>1, <4>4
        <5> QED  BY <2>1, <2>2, <4>1, <4>2, <4>4, <5>1 DEF Paths
      <4> QED  BY <4>3, <4>4
    <3>2. CASE ~SavePaths(c)
        BY <2>1, <2>3, <3>2, Changes
    <3> QED  BY <3>1, <3>2
  <2>5. k \notin swept'
    <3>1. swept' \subseteq swept
        BY <2>3, Changes DEF history, SavePaths, ThrowInSet, ThrowToCaller, Rethrow, Return
    <3> QED  BY <2>1, <3>1
  <2>6. ASSUME NEW d \in Calls
        PROVE  ~Rebuilding(d)' /\ (Running(d)' /\ Key(d)' = k => Op(d)' # "delete")
    <3>1. ~Rebuilding(d)'
        BY <1>1, <2>1, <2>3, Goes, OtherKept
    <3>2. Running(d)' /\ Key(d)' = k => Op(d)' # "delete"
        BY <2>1, RanBefore
    <3> QED  BY <3>1, <3>2
  <2> QED  BY <2>1, <2>2, <2>4, <2>5, <2>6
<1>3. CASE k \notin known
  <2>1. /\ k = Key(c) /\ c \in alone /\ UNCHANGED schema /\ k \notin swept'
        /\ schema.exists /\ k \in FlatKeys /\ schema.paths[k] = Target(c)
        /\ Return(c) /\ home' = [home EXCEPT ![k] = Target(c)]
      BY <1>0, <1>1, <1>3, FixesStray
  <2>2. home'[k] = Target(c)
      BY <1>0, <1>1, <2>1 DEF TypeOK
  <2>3. pc'[c] = "done"
      BY <1>1, <2>1, GotoStays DEF Return, Leave
  <2>4. ASSUME NEW d \in Calls
        PROVE  ~Rebuilding(d)' /\ (Running(d)' => Key(d)' # k)
    <3>1. CASE d = c
        BY <2>3, <3>1 DEF Rebuilding, Running
    <3>2. CASE d # c
      <4>1. ~Rebuilding(d) /\ (Running(d) => Key(d) # k)
          BY <2>1, <3>2 DEF NoRebuildBeside, CopyInv, AloneIsAlone, Uses
      <4> QED  BY <3>2, <4>1, OtherKept
    <3> QED  BY <3>1, <3>2
  <2> QED  BY <2>1, <2>2, <2>4
<1> QED  BY <1>2, <1>3

LEMMA StepCompatible ==
    ASSUME CopyInv, KnownCompatible, NEW c \in Calls, OthersStay(c), Effects(c),
           Remembers(c)
    PROVE  KnownCompatible'
<1> SUFFICES ASSUME NEW x \in Calls, Running(x)', Key(x)' \in known'
             PROVE  /\ \A d \in Calls : ~Validating(d)'
                    /\ \A d \in Calls \ {x} : Running(d)' /\ Key(d)' = Key(x)' =>
                         \/ Op(x)' = "get" /\ Op(d)' = "get"
                         \/ Op(x)' \in Locked /\ Op(d)' \in Locked
    BY DEF KnownCompatible
<1>1. Running(x) /\ Key(x)' = Key(x) /\ Op(x)' = Op(x) /\ Key(x) \in known
    BY RanBefore, KnownBefore
<1>2. ASSUME NEW d \in Calls
      PROVE  ~Validating(d)'
  <2>1. ~Validating(d)
      BY <1>1 DEF KnownCompatible
  <2>2. CASE d = c
      BY <1>1, <2>1, <2>2 DEF Remembers
  <2>3. CASE d # c
      BY <2>1, <2>3, OtherKept
  <2> QED  BY <2>2, <2>3
<1>3. ASSUME NEW d \in Calls \ {x}, Running(d)', Key(d)' = Key(x)'
      PROVE  \/ Op(x)' = "get" /\ Op(d)' = "get"
             \/ Op(x)' \in Locked /\ Op(d)' \in Locked
  <2>1. Running(d) /\ Key(d) = Key(x) /\ Op(d)' = Op(d)
      BY <1>1, <1>3, RanBefore
  <2> QED  BY <1>1, <2>1 DEF KnownCompatible
<1> QED  BY <1>2, <1>3

LEMMA StepUnbuilt ==
    ASSUME CopyInv, NoRebuildBeside, NEW c \in Calls, OthersStay(c), Effects(c),
           Remembers(c)
    PROVE  NoRebuildBeside'
<1> SUFFICES ASSUME NEW a \in alone', NEW d \in Calls \ {a}, Rebuilding(d)'
             PROVE  FALSE
    BY DEF NoRebuildBeside
<1>1. a \in alone /\ a \in Calls /\ Running(a) /\ ~Rebuilding(d)
    BY DEF Effects, CopyInv, TypeOK, AloneIsAlone, NoRebuildBeside
<1>2. d = c
    BY <1>1, OtherKept
<1> QED  BY <1>1, <1>2 DEF Remembers

LEMMA StartOrder ==
    ASSUME CopyInv, KnownCompatible, NoRebuildBeside, NEW c \in Calls,
           NEW op \in OpNames, NEW k \in Keys, NEW to \in Targets(op, k), Start(c, op, k, to)
    PROVE  KnownCompatible' /\ NoRebuildBeside'
<1>1. OthersStay(c) /\ TypeOK
    BY StartLocks DEF CopyInv
<1>2. /\ pc[c] = "idle" /\ Key(c)' = k /\ Op(c)' = op
      /\ pc'[c] \in {"getSchema", "takeKeyLock", "store"}
  <2>1. Op(c)' = op
      BY <1>1 DEF Start, Op, TypeOK
  <2> QED  BY <1>1, <2>1, StartFacts
<1>3. ~Rebuilding(c)' /\ ~Validating(c)' /\ ~Running(c)
    BY <1>2 DEF Rebuilding, Validating, InIndexUpdate, Running
<1>4. /\ known' \subseteq known
      /\ k \in known' => \A d \in Users(k) : Compatible(d, op)
    BY DEF Start
<1>5. \A d \in Calls \ {c} : /\ Running(d)' <=> Running(d)
                             /\ Validating(d)' <=> Validating(d)
                             /\ Rebuilding(d)' <=> Rebuilding(d)
                             /\ Key(d)' = Key(d) /\ Op(d)' = Op(d)
    BY <1>1, OtherKept DEF OthersStay, Op
<1>6. \A d \in Calls : Validating(d) => Running(d)
    BY DEF Validating, Running, InIndexUpdate
<1>7. KnownCompatible'
  <2> SUFFICES ASSUME NEW x \in Calls, Running(x)', Key(x)' \in known'
               PROVE  /\ \A d \in Calls : ~Validating(d)'
                      /\ \A d \in Calls \ {x} : Running(d)' /\ Key(d)' = Key(x)' =>
                           \/ Op(x)' = "get" /\ Op(d)' = "get"
                           \/ Op(x)' \in Locked /\ Op(d)' \in Locked
      BY DEF KnownCompatible
  <2>1. ASSUME NEW d \in Calls
        PROVE  ~Validating(d)'
    <3>1. CASE d = c
        BY <1>3, <3>1
    <3>2. CASE d # c /\ x # c
        BY <1>4, <1>5, <3>2 DEF KnownCompatible
    <3>3. CASE d # c /\ x = c
      <4>1. Validating(d) => d \in Users(k)
          BY <1>6 DEF Users, Uses
      <4> QED  BY <1>2, <1>4, <1>5, <3>3, <4>1 DEF Compatible
    <3> QED  BY <3>1, <3>2, <3>3
  <2>2. ASSUME NEW d \in Calls \ {x}, Running(d)', Key(d)' = Key(x)'
        PROVE  \/ Op(x)' = "get" /\ Op(d)' = "get"
               \/ Op(x)' \in Locked /\ Op(d)' \in Locked
    <3>1. CASE d # c /\ x # c
        BY <1>4, <1>5, <2>2, <3>1 DEF KnownCompatible
    <3>2. CASE d # c /\ x = c
      <4>1. d \in Users(k)
          BY <1>2, <1>5, <2>2, <3>2 DEF Users, Uses
      <4> QED  BY <1>2, <1>4, <1>5, <3>2, <4>1 DEF Compatible
    <3>3. CASE d = c
      <4>1. x \in Users(k)
          BY <1>2, <1>5, <2>2, <3>3 DEF Users, Uses
      <4> QED  BY <1>2, <1>4, <1>5, <2>2, <3>3, <4>1 DEF Compatible
    <3> QED  BY <3>1, <3>2, <3>3
  <2> QED  BY <2>1, <2>2
<1>8. NoRebuildBeside'
  <2> SUFFICES ASSUME NEW a \in alone', NEW d \in Calls \ {a}, Rebuilding(d)'
               PROVE  FALSE
      BY DEF NoRebuildBeside
  <2>1. d # c /\ Rebuilding(d)
      BY <1>3, <1>5
  <2>2. c \notin alone
      BY <1>3 DEF CopyInv, AloneIsAlone
  <2>3. a \in alone
      BY <2>1, <2>2 DEF Start
  <2> QED  BY <2>1, <2>3 DEF NoRebuildBeside
<1> QED  BY <1>7, <1>8

\* Nobody leaves the key lock before the end of the call.
LEMMA Enters ==
    ASSUME TypeOK, NEW c \in Calls, OpOfLabel(c), Step(c) \/ Failure(c)
    PROVE  /\ pc'[c] = "takeKeyLock" =>
                  Op(c) = "append" /\ Routing(c) /\ loc[c].ret = "route"
           /\ Routing(c)' /\ loc'[c].ret = "route" =>
                  Op(c) = "patch" \/ (Routing(c) /\ loc[c].ret = "route")
<1> USE DEF Routing, Rebuilding
<1> DEFINE Goal == /\ pc'[c] = "takeKeyLock" =>
                          Op(c) = "append" /\ Routing(c) /\ loc[c].ret = "route"
                   /\ Routing(c)' /\ loc'[c].ret = "route" =>
                          Op(c) = "patch" \/ (Routing(c) /\ loc[c].ret = "route")
           Plain == {"scan", "readLocated", "checkIndex", "readTarget", "store", "remove",
                     "savePaths", "takeIndexLock", "loadIndex", "saveIndex", "loadSeen",
                     "validate", "return", "done"}
<1>1. ASSUME pc'[c] \in Plain  PROVE Goal
    BY <1>1
<1>2. ASSUME NEW paths \in Paths, GotSchema(c, paths), Routing(c)  PROVE Goal
  <2>1. CASE loc[c].ret = "route"
      BY <1>2, <2>1, GotSchemaMove
  <2>2. CASE loc[c].ret # "route"
      BY <1>1, <1>2, <2>2, GotSchemaMove
  <2> QED  BY <2>1, <2>2
<1>3. ASSUME NEW from, from # "route", CallGetSchema(c, from)  PROVE Goal
    BY <1>3, CallGetSchemaMove
<1>4. ASSUME NEW v, GotData(c, v), Op(c) \in {"get", "patch"}  PROVE Goal
    BY <1>4, GotDataMove
<1>5. CASE ReadSchema(c) \/ RebuildIndex(c) \/ RebuildFails(c)
    BY <1>2, <1>5, Constants DEF ReadSchema, RebuildIndex, RebuildFails, TypeOK
<1>6. CASE MissSchema(c) \/ RebuildScan(c) \/ RebuildSchema(c)
  <2>1. loc'[c].ret = loc[c].ret
    <3>1. CASE RebuildScan(c)
      <4>1. PICK pos, snap : loc' = [loc EXCEPT ![c].pos = pos, ![c].snap = snap]
          BY <3>1, RebuildScanLocals
      <4> QED  BY <4>1 DEF TypeOK, Locals
    <3>2. CASE MissSchema(c) \/ RebuildSchema(c)
        BY <3>2 DEF MissSchema, RebuildSchema, TypeOK, Locals
    <3> QED  BY <1>6, <3>1, <3>2
  <2>2. pc'[c] \in {"rebuild", "rebuildSchema", "rebuildIndex"} /\ Routing(c)
      BY <1>6, GotoStays DEF MissSchema, RebuildScan, RebuildSchema
  <2> QED  BY <2>1, <2>2
<1>7. CASE TakeKeyLock(c)
    BY <1>1, <1>3, <1>7, GotoStays DEF TakeKeyLock
<1>8. CASE Scan(c) \/ ReadTarget(c) \/ SavePaths(c) \/ TakeIndexLock(c) \/ LoadIndex(c)
  <2>1. pc'[c] \in Plain
      BY <1>8, GotoStays DEF Scan, Found, ReadTarget, SavePaths, TakeIndexLock, LoadIndex
  <2> QED  BY <1>1, <2>1
<1>9. CASE ReadLocated(c) \/ CheckIndex(c)
  <2>1. Op(c) \in {"get", "patch"}
      BY <1>9 DEF OpOfLabel, ReadLocated, CheckIndex
  <2> QED  BY <1>1, <1>4, <1>9, <2>1, GotoStays DEF ReadLocated, CheckIndex
<1>10. CASE Store(c) \/ Remove(c)
  <2>1. CASE UNCHANGED <<pc, loc>>
      BY <1>10, <2>1 DEF Store, Remove
  <2> QED  BY <1>3, <1>10, <2>1 DEF Store, Remove
<1>11. CASE SaveIndex(c)
  <2>1. CASE loc[c].ret = "cleaned"
    <3>1. Op(c) \in {"get", "patch"}
        BY <1>11, <2>1 DEF OpOfLabel, SaveIndex, InIndexUpdate
    <3> QED  BY <1>4, <1>11, <2>1, <3>1 DEF SaveIndex
  <2>2. CASE loc[c].ret # "cleaned"
      BY <1>1, <1>11, <2>2, GotoStays DEF SaveIndex
  <2> QED  BY <2>1, <2>2
<1>12. CASE LoadSeen(c) \/ Validate(c) \/ Validated(c) \/ Return(c)
  <2>1. pc'[c] \in Plain
      BY <1>12, GotoStays DEF LoadSeen, Validate, Validated, Rethrow, Leave, Return
  <2> QED  BY <1>1, <2>1
<1>13. CASE ThrowInSet(c) \/ ThrowToCaller(c)
    BY <1>1, <1>13, GotoStays DEF ThrowInSet, ThrowToCaller, Leave
<1>14. CASE GoOn(c)
  <2>1. CASE pc[c] = "getSchema"
      BY <1>2, <1>14, <2>1, Constants DEF GoOn
  <2>2. CASE pc[c] # "getSchema"
      BY <1>1, <1>14, <2>2, GotoStays DEF GoOn
  <2> QED  BY <2>1, <2>2
<1> QED  BY <1>5, <1>6, <1>7, <1>8, <1>9, <1>10, <1>11, <1>12, <1>13, <1>14
    DEF Step, Failure

LEMMA StaysLocked ==
    ASSUME TypeOK, NEW c \in Calls, OpOfLabel(c), Effects(c), Step(c) \/ Failure(c),
           Running(c)'
    PROVE  /\ InKeyLock(c) => InKeyLock(c)'
           /\ \A k \in Keys : Busy(c, k) => Busy(c, k)'
<1>1. Op(c)' = Op(c) /\ Key(c)' = Key(c)
    BY DEF Effects, Op, Key
<1>2. InKeyLock(c) => InKeyLock(c)'
    BY <1>1, Enters DEF InKeyLock
<1> QED  BY <1>1, <1>2 DEF Busy

LEMMA DataChange ==
    ASSUME TypeOK, NEW c \in Calls, Step(c) \/ Failure(c), NEW k \in Keys,
           NEW b \in Adapters, store'[b][k] # store[b][k]
    PROVE  k = Key(c) /\ (Store(c) \/ Remove(c)) /\ UNCHANGED history
<1>1. Store(c) \/ Remove(c)
    BY Changes
<1>2. store \in [Adapters -> [Keys -> Data]]
    BY DEF TypeOK
<1>3. PICK a \in Adapters : \E v : store' = [store EXCEPT ![a][Key(c)] = v]
  <2>1. Target(c) \in Adapters /\ loc[c].at \in Adapters
      BY RouterAssumption DEF TypeOK, Target, Key, Locals
  <2> QED  BY <1>1, <2>1 DEF Store, Remove
<1>4. k = Key(c)
    BY <1>2, <1>3
<1> QED  BY <1>1, <1>4 DEF Store, Remove

LEMMA HereChange ==
    ASSUME TypeOK, Aims, NEW c \in Calls, Step(c) \/ Failure(c), NEW k \in Keys,
           k \in strays => k \in known, Here(k)' # Here(k)
    PROVE  k = Key(c) /\ (Store(c) \/ Remove(c)) /\ UNCHANGED history
<1>1. home'[k] = home[k] /\ home[k] \in Adapters
    BY HomeStays, StepMoves DEF TypeOK
<1>2. store'[home[k]][k] # store[home[k]][k]
    BY <1>1 DEF Here
<1> QED  BY <1>1, <1>2, DataChange

\* A call that is not running, or not in its lock yet, has nothing to show.
LEMMA NothingToShow ==
    ASSUME NEW c \in Calls, ~Running(c)' \/ (Op(c) \in Locked /\ ~InKeyLock(c))'
    PROVE  OnTrack(c)'
<1>1. CASE ~Running(c)'
    BY <1>1 DEF OnTrack, Located, Progress, Written, Routing, Rebuilding, InIndexUpdate,
       Running, InKeyLock
<1>2. CASE Running(c)' /\ (Op(c) \in Locked /\ ~InKeyLock(c))'
  <2>1. (pc[c] = "takeKeyLock" \/ Routing(c))'
      BY <1>2 DEF InKeyLock, Locked
  <2>2. /\ pc'[c] \notin {"scan", "readLocated", "remove", "checkIndex"}
        /\ ~InIndexUpdate(c)'
      BY <2>1 DEF Routing, Rebuilding, InIndexUpdate
  <2> QED  BY <1>2, <2>2 DEF OnTrack, Located, Progress, Locked
<1> QED  BY <1>1, <1>2

LEMMA TrackKept ==
    ASSUME NEW d \in Calls, OnTrack(d),
           pc'[d] = pc[d], loc'[d] = loc[d], req'[d] = req[d],
           Key(d) \in strays' <=> Key(d) \in strays, home'[Key(d)] = home[Key(d)],
           store'[home[Key(d)]][Key(d)] = store[home[Key(d)]][Key(d)],
           store'[Target(d)][Key(d)] = store[Target(d)][Key(d)],
           Key(d) \in known' => Key(d) \in known /\ expect'[Key(d)] = expect[Key(d)],
           d \in alone' => d \in alone
    PROVE  OnTrack(d)'
<1>1. /\ Key(d)' = Key(d) /\ Op(d)' = Op(d) /\ (Clean(d)' => Clean(d))
      /\ Target(d)' = Target(d) /\ (Sure(d)' => Sure(d))
      /\ Written(d)' = Written(d) /\ Routing(d)' = Routing(d)
      /\ InIndexUpdate(d)' = InIndexUpdate(d) /\ InKeyLock(d)' = InKeyLock(d)
    BY DEF Key, Op, Target, Clean, Sure, Written, Routing, Rebuilding, InIndexUpdate, InKeyLock,
       Running
<1>2. Here(Key(d))' = Here(Key(d))
    BY <1>1 DEF Here
<1>3. Located(d)'
    BY <1>1, <1>2 DEF OnTrack, Located
<1>4. Progress(d)'
    BY <1>1, <1>2 DEF OnTrack, Progress
<1> QED  BY <1>3, <1>4 DEF OnTrack

\* A call that others may have disturbed claims nothing of its key.
LEMMA NothingSure ==
    ASSUME NEW d \in Calls, OnTrack(d), ~Sure(d)',
           pc'[d] = pc[d], loc'[d] = loc[d], req'[d] = req[d]
    PROVE  OnTrack(d)'
<1>1. ~Clean(d)' /\ Key(d)' \notin known' /\ Op(d)' = Op(d)
    BY DEF Clean, Sure, Op
<1>2. Op(d) = "overwrite" /\ pc[d] = "store" => loc[d].val = {d}
    BY DEF OnTrack, Progress
<1> QED  BY <1>1, <1>2 DEF OnTrack, Located, Progress

\* Calls whose key is known, or that are alone, are not disturbed.
LEMMA OthersOnTrack ==
    ASSUME ContentInv, NEW c \in Calls, Step(c) \/ Failure(c), OthersStay(c),
           Effects(c), Remembers(c), NEW d \in Calls \ {c}
    PROVE  OnTrack(d)'
<1>1. /\ CopyInv /\ TypeOK /\ KnownCompatible /\ LockDiscipline /\ OnTrack(d)
      /\ Key(d) \in Keys /\ Aims
    BY DEF ContentInv, OrderInv, CopyInv, TypeOK, Key
<1>2. /\ pc'[d] = pc[d] /\ loc'[d] = loc[d] /\ req'[d] = req[d]
      /\ Key(d)' = Key(d) /\ Op(d)' = Op(d)
    BY DEF OthersStay, Key, Op
<1>3. CASE ~Running(d)
    BY <1>2, <1>3, NothingToShow, OtherKept
<1>4. CASE Running(d) /\ Op(d) \in Locked /\ ~InKeyLock(d)
    BY <1>2, <1>4, NothingToShow DEF InKeyLock, Running, Routing, Rebuilding
<1>5. CASE Running(d) /\ ~(Op(d) \in Locked /\ ~InKeyLock(d))
  <2>1. Running(d)' /\ (Key(d) \in known' => Key(d) \in known) /\ alone' \subseteq alone
      BY <1>1, <1>2, <1>5, OtherKept, KnownBefore DEF Effects
  <2>2. d \in alone => Key(c) # Key(d) \/ ~Running(c)
      BY <1>1 DEF CopyInv, AloneIsAlone, Uses
  <2>3. ASSUME Key(c) = Key(d), Running(c), Op(c) # "get", InKeyLock(c) \/ Op(c) \notin Locked
        PROVE  Key(d) \notin known
    <3>1. CASE Key(d) \in known
      <4>1. Op(c) \in Locked /\ Op(d) \in Locked
          BY <1>1, <1>5, <2>3, <3>1 DEF KnownCompatible
      <4>2. locks[Key(d)] = c /\ locks[Key(d)] = d
          BY <1>1, <1>5, <2>3, <4>1 DEF LockDiscipline
      <4> QED  BY <4>2
    <3> QED  BY <3>1
  <2>4. CASE Sure(d)
    <3>1. ASSUME NEW b \in Adapters
          PROVE  store'[b][Key(d)] = store[b][Key(d)]
      <4>1. ASSUME Key(d) = Key(c), Store(c) \/ Remove(c)
            PROVE  FALSE
        <5>1. /\ pc[c] \in {"store", "remove"} /\ Running(c)
              /\ Op(c) \in Setters \cup {"delete"}
            BY <4>1 DEF Store, Remove, Running, ContentInv, OrderInv, OpOfLabel
        <5>2. Op(c) # "get" /\ (Op(c) \in Locked => InKeyLock(c))
            BY <5>1 DEF Setters, Locked, InKeyLock, Routing, Rebuilding
        <5> QED  BY <2>2, <2>3, <2>4, <4>1, <5>1, <5>2 DEF Sure
      <4> QED  BY <1>1, <4>1, DataChange
    <3>4. strays' = strays /\ home'[Key(d)] = home[Key(d)]
      <4>1. CASE Key(d) \in known
          BY <1>1, <4>1, HomeStays DEF Remembers, Moves
      <4>2. CASE d \in alone
        <5>1. Key(c) # Key(d) \/ ~Return(c)
            BY <2>2, <4>2 DEF Return, Running
        <5> QED  BY <1>1, <5>1 DEF Remembers, Moves, TypeOK
      <4> QED  BY <2>4, <4>1, <4>2 DEF Sure
    <3>5. home[Key(d)] \in Adapters /\ Target(d) \in Adapters
        BY <1>1 DEF TypeOK, Target
    <3>2. Key(d) \in known' => expect'[Key(d)] = expect[Key(d)]
      <4>1. ASSUME Key(d) = Key(c), pc[c] = "return", Op(c) # "get"
            PROVE  Key(d) \notin known
        <5>1. Running(c) /\ (Op(c) \in Locked => InKeyLock(c))
            BY <4>1 DEF Running, Locked, InKeyLock, Routing, Rebuilding
        <5> QED  BY <2>3, <4>1, <5>1
      <4> QED  BY <2>1, <4>1 DEF Remembers
    <3> QED  BY <1>1, <1>2, <2>1, <3>1, <3>2, <3>4, <3>5, TrackKept
  <2>5. CASE ~Sure(d)
    <3>1. ~Sure(d)'
        BY <1>2, <2>1, <2>5 DEF Sure
    <3> QED  BY <1>1, <1>2, <3>1, NothingSure
  <2> QED  BY <2>4, <2>5
<1> QED  BY <1>3, <1>4, <1>5

\* A set that has failed claims nothing of its key.
LEMMA FailedOnTrack ==
    ASSUME NEW c \in Calls, Validating(c)', Key(c)' \notin known', Op(c)' \in Setters
    PROVE  OnTrack(c)'
<1>1. /\ pc'[c] \notin {"scan", "readLocated", "remove", "checkIndex", "store", "return"}
      /\ ~Routing(c)' /\ pc'[c] # "savePaths"
      /\ InIndexUpdate(c)' => loc'[c].ret = "validated"
    BY DEF Validating, Routing, Rebuilding, InIndexUpdate
<1>2. ~Written(c)'
    BY <1>1 DEF Written
<1> QED  BY <1>1, <1>2 DEF OnTrack, Located, Progress, Setters

\* What stays as it was for a call whose step changes its locals only.
SameKey(c) ==
    /\ UNCHANGED <<store, req, home, strays>>
    /\ Key(c) \in known' <=> Key(c) \in known
    /\ Key(c) \in known' => expect'[Key(c)] = expect[Key(c)]
    /\ alone' \subseteq alone

SameView(c) ==
    /\ Key(c)' = Key(c) /\ Op(c)' = Op(c) /\ Target(c)' = Target(c)
    /\ (Clean(c)' => Clean(c)) /\ (Sure(c)' => Sure(c)) /\ strays' = strays
    /\ home'[Key(c)] = home[Key(c)] /\ store' = store
    /\ Here(Key(c))' = Here(Key(c))
    /\ Key(c)' \in known' => expect'[Key(c)'] = expect[Key(c)]
    /\ Key(c)' \in known' <=> Key(c) \in known

LEMMA SameContent ==
    ASSUME NEW c \in Calls, SameKey(c)
    PROVE  SameView(c)
BY DEF SameKey, SameView, Key, Op, Target, Clean, Sure, Here

LEMMA SameHistory ==
    ASSUME NEW c \in Calls, UNCHANGED <<store, req, history>>
    PROVE  SameKey(c)
BY DEF SameKey, history

\* Where the paths lead a call that looks for its key.
Leads(c, paths) ==
    loc[c].ret = "locate" /\ Clean(c) =>
        \/ PathEntry(c, paths) = home[Key(c)]
        \/ PathEntry(c, paths) = None /\ Key(c) \notin strays

\* A call that gets its answer from getSchema.
LEMMA GotSchemaOnTrack ==
    ASSUME ContentInv, NEW c \in Calls, NEW paths \in Paths, Leads(c, paths), Routing(c),
           GotSchema(c, paths), SameKey(c)
    PROVE  OnTrack(c)'
<1>1. /\ OnTrack(c) /\ TypeOK /\ Key(c) \in Keys /\ OpOfLabel(c) /\ home[Key(c)] # None
    BY RouterAssumption DEF ContentInv, OrderInv, CopyInv, TypeOK, Key
<1>2. /\ SameView(c) /\ Key(c)' = Key(c) /\ Op(c)' = Op(c) /\ (Clean(c)' => Clean(c))
      /\ Here(Key(c))' = Here(Key(c)) /\ Target(c)' = Target(c) /\ (Sure(c)' => Sure(c))
      /\ strays' = strays /\ home'[Key(c)] = home[Key(c)] /\ store' = store
      /\ Key(c) \in known' => expect'[Key(c)] = expect[Key(c)]
      /\ Key(c)' \in known' <=> Key(c) \in known
    BY SameContent DEF SameView
<1>3. /\ pc[c] \notin {"store", "savePaths", "return"} /\ ~InIndexUpdate(c) /\ Running(c)
      /\ pc[c] # "takeKeyLock"
    BY DEF Routing, Rebuilding, InIndexUpdate, Running
<1>4. CASE loc[c].ret = "route"
  <2>1. ~Written(c) /\ Op(c) \in Setters
      BY <1>1, <1>3, <1>4 DEF Written, OpOfLabel
  <2>2. CASE Op(c) = "append"
    <3>1. pc'[c] = "takeKeyLock"
        BY <1>1, <1>4, <2>2, GotSchemaMove
    <3> QED  BY <1>2, <2>2, <3>1, NothingToShow DEF InKeyLock, Locked
  <2>3. CASE Op(c) # "append"
    <3>1. /\ pc'[c] = "store"
          /\ loc'[c].val = IF Op(c) = "overwrite" THEN {c} ELSE loc[c].val
        BY <1>1, <1>4, <2>3, GotSchemaMove
    <3>2. ~Written(c)' /\ ~Routing(c)'
        BY <3>1 DEF Written, Routing, Rebuilding, InIndexUpdate
    <3>3. Located(c)'
        BY <3>1 DEF Located, InIndexUpdate
    <3>4. Op(c) = "patch" /\ Key(c) \in known =>
            Here(Key(c)) = expect[Key(c)] /\ loc[c].val = expect[Key(c)] \cup {c}
        BY <1>1, <1>3, <1>4, <2>1 DEF OnTrack, Progress, InKeyLock, Locked
    <3>5. Op(c) \in {"overwrite", "patch"}
        BY <2>1, <2>3 DEF Setters
    <3> QED  BY <1>2, <3>1, <3>2, <3>3, <3>4, <3>5 DEF OnTrack, Progress, Locked
  <2> QED  BY <2>2, <2>3
<1>5. CASE loc[c].ret = "locate"
  <2>1. ~Written(c) /\ Op(c) \in {"get", "patch", "delete"}
      BY <1>1, <1>3, <1>5 DEF Written, OpOfLabel
  <2>2. Op(c) = "patch" /\ Key(c) \in known => Here(Key(c)) = expect[Key(c)]
      BY <1>1, <1>3, <2>1 DEF OnTrack, Progress, InKeyLock, Locked
  <2>3. \/ /\ pc'[c] \in {"remove", "readLocated"}
           /\ Clean(c) => loc'[c].at = home[Key(c)]
        \/ /\ pc'[c] = "scan" /\ loc'[c].pos = 1
           /\ Clean(c) => Key(c) \notin strays
      BY <1>1, <1>5, GotSchemaMove DEF Leads
  <2>4. ~Written(c)' /\ pc'[c] \notin {"store", "return"} /\ ~Routing(c)'
        /\ ~InIndexUpdate(c)'
      BY <2>3 DEF Written, Routing, Rebuilding, InIndexUpdate
  <2>5. Located(c)'
      BY <1>2, <2>3, <2>4 DEF Located
  <2>6. Progress(c)'
      BY <1>2, <2>1, <2>2, <2>4 DEF Progress, Locked
  <2> QED  BY <2>5, <2>6 DEF OnTrack
<1>6. CASE loc[c].ret = "savePaths"
  <2>1. pc'[c] = "savePaths"
      BY <1>1, <1>6, GotSchemaMove
  <2>2. Written(c) /\ Written(c)' /\ ~Routing(c)'
      BY <1>6, <2>1 DEF Written, Routing, Rebuilding
  <2>3. Located(c)'
      BY <2>1 DEF Located, InIndexUpdate
  <2>4. InKeyLock(c)' => InKeyLock(c)
      BY <1>2, <1>3, <1>6 DEF InKeyLock, Running
  <2>5. Progress(c)'
      BY <1>1, <1>2, <2>1, <2>2, <2>4 DEF OnTrack, Progress, Locked
  <2> QED  BY <2>3, <2>5 DEF OnTrack
<1>7. loc[c].ret \in {"route", "locate", "savePaths"}
    BY DEF GotSchema
<1> QED  BY <1>4, <1>5, <1>6, <1>7

\* A call that moves on without having read or written data.
LEMMA MovesOnTrack ==
    ASSUME NEW c \in Calls, OnTrack(c),
           SameKey(c), pc[c] # "store",
           pc'[c] \notin {"store", "return", "scan", "readLocated", "remove", "checkIndex"},
           Written(c)' <=> Written(c), InKeyLock(c)' => InKeyLock(c),
           Routing(c)' /\ loc'[c].ret = "route" =>
               Routing(c) /\ loc[c].ret = "route" /\ loc'[c].val = loc[c].val,
           InIndexUpdate(c)' /\ loc'[c].ret = "cleaned" =>
               (Clean(c) => Here(Key(c)) = {})
    PROVE  OnTrack(c)'
<1>1. SameView(c)
    BY SameContent
<1>2. Located(c)'
    BY <1>1 DEF SameView, Located
<1>3. Progress(c)'
    BY <1>1 DEF SameView, OnTrack, Progress
<1> QED  BY <1>2, <1>3 DEF OnTrack

\* A get of a known key finds what the key is known to hold.
LEMMA GetFindsKnown ==
    ASSUME ContentInv, NEW c \in Calls, Running(c), Op(c) = "get", Key(c) \in known
    PROVE  Here(Key(c)) = expect[Key(c)]
<1>1. Key(c) \in Keys /\ KnownCompatible
    BY DEF ContentInv, OrderInv, CopyInv, TypeOK, Key
<1>2. ASSUME NEW d \in Calls
      PROVE  ~Busy(d, Key(c))
  <2>1. Running(d) /\ Key(d) = Key(c) => Op(d) = "get"
      BY <1>1 DEF KnownCompatible, Locked
  <2> QED  BY <2>1 DEF Busy, InKeyLock
<1> QED  BY <1>2 DEF ContentInv, IdleKeys

LEMMA GotDataOnTrack ==
    ASSUME ContentInv, NEW c \in Calls, NEW v, GotData(c, v),
           Op(c) \in {"get", "patch"}, Running(c),
           pc[c] \notin {"takeKeyLock", "store"}, ~Written(c),
           Clean(c) => v = Here(Key(c)),
           SameKey(c)
    PROVE  OnTrack(c)'
<1>1. OnTrack(c) /\ TypeOK
    BY DEF ContentInv, OrderInv, CopyInv
<1>2. /\ Key(c)' = Key(c) /\ Op(c)' = Op(c) /\ (Clean(c)' => Clean(c))
      /\ Here(Key(c))' = Here(Key(c)) /\ strays' = strays /\ home'[Key(c)] = home[Key(c)]
      /\ Key(c) \in known' => expect'[Key(c)] = expect[Key(c)]
      /\ Key(c)' \in known' <=> Key(c) \in known
    BY SameContent DEF SameView
<1>3. CASE Op(c) = "get"
  <2>1. pc'[c] = "return" /\ loc'[c].val = v
      BY <1>1, <1>3, GotDataMove
  <2>2. Key(c) \in known => v = expect[Key(c)]
      BY <1>3, GetFindsKnown DEF Clean
  <2>3. Located(c)'
      BY <2>1 DEF Located, InIndexUpdate
  <2>4. Progress(c)'
      BY <1>2, <1>3, <2>1, <2>2 DEF Progress, Locked
  <2> QED  BY <2>3, <2>4 DEF OnTrack
<1>4. CASE Op(c) = "patch"
  <2>1. /\ pc'[c] \in {"getSchema", "store"}
        /\ loc'[c].val = v \cup {c} /\ loc'[c].ret = "route"
      BY <1>1, <1>4, GotDataMove
  <2>2. ~Written(c)' /\ ~InIndexUpdate(c)'
      BY <2>1 DEF Written, Routing, Rebuilding, InIndexUpdate
  <2>3. Key(c) \in known => Here(Key(c)) = expect[Key(c)] /\ v = expect[Key(c)]
      BY <1>1, <1>4 DEF OnTrack, Progress, InKeyLock, Locked, Clean
  <2>4. Located(c)'
      BY <2>1, <2>2 DEF Located
  <2>5. Progress(c)'
      BY <1>2, <1>4, <2>1, <2>2, <2>3 DEF Progress, Locked
  <2> QED  BY <2>4, <2>5 DEF OnTrack
<1> QED  BY <1>3, <1>4

LEMMA ScanOnTrack ==
    ASSUME ContentInv, NEW c \in Calls, Scan(c)
    PROVE  OnTrack(c)'
<1> DEFINE a == AdapterSeq[loc[c].pos]
           k == Key(c)
<1>1. /\ OnTrack(c) /\ TypeOK /\ k \in Keys /\ OpOfLabel(c) /\ Places
      /\ pc[c] = "scan" /\ a \in Adapters /\ loc \in [Calls -> Locals]
    BY AdapterTyped DEF ContentInv, OrderInv, CopyInv, TypeOK, Key, Scan
<1>2. UNCHANGED <<store, req, history>>
    BY DEF Scan, files, history
<1>3. /\ Key(c)' = Key(c) /\ Op(c)' = Op(c) /\ (Clean(c)' => Clean(c))
      /\ Here(Key(c))' = Here(Key(c)) /\ strays' = strays /\ home'[Key(c)] = home[Key(c)]
      /\ Key(c) \in known' => expect'[Key(c)] = expect[Key(c)]
      /\ Key(c)' \in known' <=> Key(c) \in known
    BY <1>2, SameContent, SameHistory DEF SameView
<1>4. /\ Op(c) \in {"get", "patch", "delete"} /\ ~Written(c) /\ Running(c)
      /\ Op(c) = "patch" => InKeyLock(c)
    BY <1>1 DEF OpOfLabel, Written, Routing, Rebuilding, InIndexUpdate, Running, InKeyLock
<1>5. Op(c) = "patch" /\ k \in known => Here(k) = expect[k]
    BY <1>1, <1>4 DEF OnTrack, Progress, Locked
<1>6. ASSUME pc'[c] \in {"scan", "readLocated", "remove"}
      PROVE  /\ Progress(c)'
             /\ ~InIndexUpdate(c)'
  <2>1. ~Written(c)' /\ ~Routing(c)' /\ ~InIndexUpdate(c)'
      BY <1>6 DEF Written, Routing, Rebuilding, InIndexUpdate
  <2> QED  BY <1>3, <1>4, <1>5, <1>6, <2>1 DEF Progress, Locked
<1>7. CASE store[a][k] # {}
  <2>1. Clean(c) => a = home[k]
      BY <1>1, <1>7 DEF OnTrack, Located, Places
  <2>2. Found(c, a)
      BY <1>7 DEF Scan
  <2>3. loc'[c].at = a /\ pc'[c] \in {"readLocated", "remove"}
      BY <1>1, <2>2, FoundMove
  <2>4. Located(c)'
      BY <1>3, <1>6, <2>1, <2>3 DEF Located
  <2> QED  BY <1>6, <2>3, <2>4 DEF OnTrack
<1>8. CASE store[a][k] = {}
  <2>0. Clean(c) => k \notin strays
      BY <1>1 DEF OnTrack, Located
  <2>1. \A i \in 1..loc[c].pos :
          Clean(c) => AdapterSeq[i] # home[k] \/ Here(k) = {}
    <3>1. \A i \in 1..(loc[c].pos - 1) :
            Clean(c) => AdapterSeq[i] # home[k] \/ Here(k) = {}
        BY <1>1 DEF OnTrack, Located
    <3>2. AdapterSeq[loc[c].pos] # home[k] \/ Here(k) = {}
        BY <1>8 DEF Here
    <3>3. loc[c].pos \in Nat
        BY <1>1, RouterAssumption DEF Locals
    <3>4. \A i \in 1..loc[c].pos : i = loc[c].pos \/ i \in 1..(loc[c].pos - 1)
        BY <3>3
    <3> QED  BY <3>1, <3>2, <3>4
  <2>2. CASE loc[c].pos = Len(AdapterSeq)
    <3>1. Found(c, Default)
        BY <1>8, <2>2 DEF Scan
    <3>2. Clean(c) => Here(k) = {}
      <4>1. PICK i \in 1..Len(AdapterSeq) : AdapterSeq[i] = home[k]
          BY <1>1, EveryAdapterListed DEF TypeOK
      <4> QED  BY <2>1, <2>2, <4>1
    <3>3. pc'[c] \in {"readLocated", "remove"}
        BY <1>1, <3>1, FoundMove, RouterAssumption
    <3>4. Located(c)'
        BY <1>3, <1>6, <2>0, <3>2, <3>3 DEF Located
    <3> QED  BY <1>6, <3>3, <3>4 DEF OnTrack
  <2>3. CASE loc[c].pos # Len(AdapterSeq)
    <3>1. loc' = [loc EXCEPT ![c].pos = @ + 1] /\ UNCHANGED pc
        BY <1>8, <2>3 DEF Scan
    <3>2. loc'[c].pos - 1 = loc[c].pos /\ pc'[c] = "scan"
        BY <1>1, <3>1, RouterAssumption DEF Locals
    <3>3. Located(c)'
        BY <1>3, <1>6, <2>0, <2>1, <3>2 DEF Located
    <3> QED  BY <1>6, <3>2, <3>3 DEF OnTrack
  <2> QED  BY <2>2, <2>3
<1> QED  BY <1>7, <1>8

LEMMA TakeKeyLockOnTrack ==
    ASSUME ContentInv, NEW c \in Calls, TakeKeyLock(c)
    PROVE  OnTrack(c)'
<1>1. /\ TypeOK /\ Key(c) \in Keys /\ Op(c) \in Locked /\ pc[c] = "takeKeyLock"
      /\ KnownCompatible /\ LockDiscipline
    BY DEF ContentInv, OrderInv, CopyInv, TypeOK, Key, OpOfLabel, TakeKeyLock
<1>2. UNCHANGED <<store, req, history>>
    BY DEF TakeKeyLock, files, history
<1>3. /\ Key(c)' = Key(c) /\ Op(c)' = Op(c)
      /\ Here(Key(c))' = Here(Key(c)) /\ strays' = strays /\ home'[Key(c)] = home[Key(c)]
      /\ Key(c) \in known' => expect'[Key(c)] = expect[Key(c)]
      /\ Key(c)' \in known' <=> Key(c) \in known
    BY <1>2, SameContent, SameHistory DEF SameView
<1>4. \/ pc'[c] = "readTarget"
      \/ pc'[c] = "getSchema" /\ loc'[c].ret = "locate"
    BY <1>1, GotoStays, CallGetSchemaMove DEF TakeKeyLock
<1>5. /\ ~Written(c)' /\ pc'[c] \notin {"store", "return"}
      /\ ~(Routing(c)' /\ loc'[c].ret = "route") /\ ~InIndexUpdate(c)'
    BY <1>4 DEF Written, Routing, Rebuilding, InIndexUpdate
<1>6. ASSUME Key(c) \in known
      PROVE  Here(Key(c)) = expect[Key(c)]
  <2>1. ASSUME NEW d \in Calls
        PROVE  ~Busy(d, Key(c))
    <3>1. CASE d = c
        BY <1>1, <3>1 DEF Busy, InKeyLock, Locked
    <3>2. CASE d # c /\ Running(d) /\ Key(d) = Key(c)
      <4>1. Op(d) \in Locked
          BY <1>1, <1>6, <3>2 DEF KnownCompatible, Running, Locked
      <4>2. locks[Key(d)] # d
          BY <3>2, RouterAssumption DEF TakeKeyLock
      <4> QED  BY <1>1, <4>1, <4>2 DEF Busy, Locked, LockDiscipline
    <3> QED  BY <3>1, <3>2 DEF Busy
  <2> QED  BY <1>1, <1>6, <2>1 DEF ContentInv, IdleKeys
<1>7. Located(c)'
    BY <1>4, <1>5 DEF Located
<1>8. Progress(c)'
    BY <1>1, <1>3, <1>5, <1>6 DEF Progress, Locked
<1> QED  BY <1>7, <1>8 DEF OnTrack

LEMMA ReadOnTrack ==
    ASSUME ContentInv, NEW c \in Calls, ReadLocated(c) \/ CheckIndex(c)
    PROVE  OnTrack(c)'
<1> DEFINE k == Key(c)
<1>1. /\ OnTrack(c) /\ TypeOK /\ k \in Keys /\ Places /\ loc \in [Calls -> Locals]
      /\ Op(c) \in {"get", "patch"} /\ pc[c] \in {"readLocated", "checkIndex"}
    BY DEF ContentInv, OrderInv, CopyInv, TypeOK, Key, OpOfLabel, ReadLocated, CheckIndex
<1>2. UNCHANGED <<store, req, history>>
    BY DEF ReadLocated, CheckIndex, files, history
<1>3. /\ Key(c)' = Key(c) /\ Op(c)' = Op(c) /\ (Clean(c)' => Clean(c))
      /\ Here(Key(c))' = Here(Key(c)) /\ strays' = strays /\ home'[Key(c)] = home[Key(c)]
      /\ Key(c) \in known' => expect'[Key(c)] = expect[Key(c)]
      /\ Key(c)' \in known' <=> Key(c) \in known
    BY <1>2, SameContent, SameHistory DEF SameView
<1>4. ~Written(c) /\ Running(c)
    BY <1>1 DEF Written, Routing, Rebuilding, InIndexUpdate, Running
<1>5. CASE ReadLocated(c)
  <2> DEFINE v == store[loc[c].at][k]
  <2>1. Clean(c) => v = Here(k)
    <3>1. loc[c].at \in Adapters
        BY <1>1 DEF Locals
    <3>2. k \notin strays /\ loc[c].at # home[k] => v = {}
        BY <1>1, <3>1 DEF Places
    <3>3. Clean(c) => loc[c].at = home[k] \/ (k \notin strays /\ Here(k) = {})
        BY <1>1, <1>5 DEF OnTrack, Located, ReadLocated
    <3> QED  BY <3>2, <3>3 DEF Here
  <2>2. CASE v = {}
    <3>1. pc'[c] = "checkIndex"
        BY <1>1, <1>5, <2>2, GotoStays DEF ReadLocated
    <3>2. ~Written(c)' /\ ~Routing(c)' /\ ~InIndexUpdate(c)'
        BY <3>1 DEF Written, Routing, Rebuilding, InIndexUpdate
    <3>3. Located(c)'
        BY <1>3, <2>1, <2>2, <3>1, <3>2 DEF Located
    <3>4. Op(c) = "patch" /\ k \in known => Here(k) = expect[k]
        BY <1>1, <1>4 DEF OnTrack, Progress, InKeyLock, Locked
    <3>5. Progress(c)'
        BY <1>1, <1>3, <3>1, <3>2, <3>4 DEF Progress, Locked
    <3> QED  BY <3>3, <3>5 DEF OnTrack
  <2>3. CASE v # {}
    <3>1. GotData(c, v)
        BY <1>5, <2>3 DEF ReadLocated
    <3> QED  BY <1>1, <1>2, <1>4, <2>1, <3>1, SameHistory, GotDataOnTrack
  <2> QED  BY <2>2, <2>3
<1>6. CASE CheckIndex(c)
  <2>1. Clean(c) => Here(k) = {}
      BY <1>1, <1>6 DEF OnTrack, Located, CheckIndex
  <2>2. CASE GotData(c, {})
      BY <1>1, <1>2, <1>4, <2>1, <2>2, SameHistory, GotDataOnTrack
  <2>3. CASE loc' = [loc EXCEPT ![c].ret = "cleaned"] /\ Goto(c, "takeIndexLock")
    <3>1. pc'[c] = "takeIndexLock" /\ loc'[c].ret = "cleaned"
        BY <1>1, <2>3, GotoStays DEF Locals
    <3>2. ~Written(c)' /\ ~Routing(c)'
        BY <3>1 DEF Written, Routing, Rebuilding, InIndexUpdate
    <3>3. InKeyLock(c)' => InKeyLock(c)
        BY <1>1, <1>3, <1>4 DEF InKeyLock
    <3> QED  BY <1>1, <1>2, <1>4, <2>1, <3>1, <3>2, <3>3, SameHistory, MovesOnTrack
  <2> QED  BY <1>6, <2>2, <2>3 DEF CheckIndex
<1> QED  BY <1>5, <1>6

LEMMA ReadTargetOnTrack ==
    ASSUME ContentInv, NEW c \in Calls, ReadTarget(c)
    PROVE  OnTrack(c)'
<1> DEFINE k == Key(c)
<1>1. /\ OnTrack(c) /\ TypeOK /\ k \in Keys /\ Op(c) = "append" /\ pc[c] = "readTarget"
      /\ loc \in [Calls -> Locals]
    BY DEF ContentInv, OrderInv, CopyInv, TypeOK, Key, OpOfLabel, ReadTarget
<1>2. UNCHANGED <<store, req, history>>
    BY DEF ReadTarget, files, history
<1>3. /\ Key(c)' = Key(c) /\ Op(c)' = Op(c)
      /\ Here(Key(c))' = Here(Key(c)) /\ strays' = strays /\ home'[Key(c)] = home[Key(c)]
      /\ Key(c) \in known' => expect'[Key(c)] = expect[Key(c)]
      /\ Key(c)' \in known' <=> Key(c) \in known
    BY <1>2, SameContent, SameHistory DEF SameView
<1>4. pc'[c] = "store" /\ (k \in known => loc'[c].val = Here(k) \cup {c})
  <2>1. pc'[c] = "store" /\ loc'[c].val = store[Target(c)][k] \cup {c}
      BY <1>1, GotoStays DEF ReadTarget, Locals
  <2>2. k \in known => Target(c) = home[k]
      BY <1>1 DEF ContentInv, OrderInv, Aims, Running, Setters
  <2> QED  BY <2>1, <2>2 DEF Here
<1>5. ~Written(c)' /\ ~Routing(c)' /\ ~InIndexUpdate(c)'
    BY <1>4 DEF Written, Routing, Rebuilding, InIndexUpdate
<1>6. k \in known => Here(k) = expect[k]
  <2>1. ~Written(c) /\ InKeyLock(c)
      BY <1>1 DEF Written, Routing, Rebuilding, InIndexUpdate, InKeyLock, Running
  <2> QED  BY <1>1, <2>1 DEF OnTrack, Progress, Locked
<1>7. Located(c)'
    BY <1>4, <1>5 DEF Located
<1>8. Progress(c)'
    BY <1>1, <1>3, <1>4, <1>5, <1>6 DEF Progress, Locked
<1> QED  BY <1>7, <1>8 DEF OnTrack

LEMMA StoreOnTrack ==
    ASSUME ContentInv, NEW c \in Calls, Store(c)
    PROVE  OnTrack(c)'
<1> DEFINE k == Key(c)
<1>1. /\ OnTrack(c) /\ TypeOK /\ k \in Keys /\ Op(c) \in Setters /\ pc[c] = "store"
      /\ store \in [Adapters -> [Keys -> Data]] /\ Target(c) \in Adapters
    BY RouterAssumption DEF ContentInv, OrderInv, CopyInv, TypeOK, Key, OpOfLabel, Store,
       Target
<1>2. /\ Key(c)' = Key(c) /\ Op(c)' = Op(c) /\ (Clean(c)' => Clean(c))
      /\ expect' = expect /\ known' = known /\ home' = home /\ Target(c)' = Target(c)
    BY DEF Store, history, Key, Op, Clean, Target
<1>3. /\ store'[Target(c)][k] = loc[c].val
      /\ k \in known => Here(Key(c))' = loc[c].val
  <2>1. store' = [store EXCEPT ![Target(c)][k] = loc[c].val]
      BY DEF Store
  <2>2. store'[Target(c)][k] = loc[c].val
      BY <1>1, <2>1
  <2>3. k \in known => Target(c) = home[k]
      BY <1>1 DEF ContentInv, OrderInv, Aims, Running
  <2> QED  BY <1>2, <2>2, <2>3 DEF Here
<1>4. /\ Op(c) = "overwrite" => loc[c].val = {c}
      /\ Op(c) \in Locked /\ k \in known => loc[c].val = expect[k] \cup {c}
  <2>1. Op(c) \in Locked => InKeyLock(c)
      BY <1>1 DEF InKeyLock, Running, Locked, Routing, Rebuilding
  <2> QED  BY <1>1, <2>1 DEF OnTrack, Progress
<1>5. \/ pc'[c] = "getSchema" /\ loc'[c].ret = "savePaths"
      \/ pc'[c] = "store" /\ loc'[c].val = loc[c].val
    BY <1>1, CallGetSchemaMove DEF Store
<1>6. Located(c)'
    BY <1>5 DEF Located, InIndexUpdate
<1>7. CASE pc'[c] = "getSchema" /\ loc'[c].ret = "savePaths"
    BY <1>1, <1>2, <1>3, <1>4, <1>6, <1>7
    DEF OnTrack, Progress, Setters, Locked, Written, Routing
<1>8. CASE pc'[c] = "store" /\ loc'[c].val = loc[c].val
  <2>1. ~Written(c)' /\ ~Routing(c)'
      BY <1>8 DEF Written, Routing, Rebuilding, InIndexUpdate
  <2>2. Progress(c)'
      BY <1>1, <1>2, <1>3, <1>4, <1>8, <2>1 DEF Progress, Setters, Locked
  <2> QED  BY <1>6, <2>2 DEF OnTrack
<1> QED  BY <1>5, <1>7, <1>8

LEMMA RemoveOnTrack ==
    ASSUME ContentInv, NEW c \in Calls, Remove(c)
    PROVE  OnTrack(c)'
<1> DEFINE k == Key(c)
<1>1. /\ OnTrack(c) /\ TypeOK /\ k \in Keys /\ Op(c) = "delete" /\ pc[c] = "remove"
      /\ store \in [Adapters -> [Keys -> Data]] /\ loc[c].at \in Adapters
    BY DEF ContentInv, OrderInv, CopyInv, TypeOK, Key, OpOfLabel, Remove, Locals
<1>2. /\ Key(c)' = Key(c) /\ Op(c)' = Op(c) /\ (Clean(c)' => Clean(c))
      /\ home' = home /\ strays' = strays
    BY DEF Remove, history, Key, Op, Clean
<1>3. Clean(c) => Here(Key(c))' = {}
  <2>1. store' = [store EXCEPT ![loc[c].at][k] = {}]
      BY DEF Remove
  <2>2. Clean(c) => loc[c].at = home[k] \/ (k \notin strays /\ store[home[k]][k] = {})
      BY <1>1 DEF OnTrack, Located, Here
  <2>3. Clean(c) => store'[home[k]][k] = {}
      BY <1>1, <2>1, <2>2 DEF TypeOK
  <2> QED  BY <1>2, <2>3 DEF Here
<1>4. \/ pc'[c] = "getSchema"
      \/ pc'[c] = "remove"
    BY <1>1, CallGetSchemaMove DEF Remove
<1>7. pc'[c] = "remove" => loc'[c].at = loc[c].at
    BY <1>1, CallGetSchemaMove DEF Remove
<1>5. Located(c)'
    BY <1>1, <1>2, <1>3, <1>4, <1>7 DEF OnTrack, Located, InIndexUpdate
<1>6. Progress(c)'
    BY <1>1, <1>2, <1>3 DEF Progress, Locked
<1> QED  BY <1>5, <1>6 DEF OnTrack

LEMMA RebuildOnTrack ==
    ASSUME ContentInv, NEW c \in Calls, MissSchema(c) \/ RebuildScan(c) \/ RebuildSchema(c)
    PROVE  OnTrack(c)'
<1>1. /\ OnTrack(c) /\ TypeOK /\ loc \in [Calls -> Locals]
    BY DEF ContentInv, OrderInv, CopyInv, TypeOK
<1>2. SameKey(c) /\ UNCHANGED req
    BY DEF MissSchema, RebuildScan, RebuildSchema, files, history, SameKey
<1>3. loc'[c].ret = loc[c].ret /\ loc'[c].val = loc[c].val
  <2>1. CASE RebuildScan(c)
    <3>1. PICK pos, snap : loc' = [loc EXCEPT ![c].pos = pos, ![c].snap = snap]
        BY <1>1, <2>1, RebuildScanLocals
    <3> QED  BY <1>1, <3>1 DEF Locals
  <2>2. CASE MissSchema(c) \/ RebuildSchema(c)
      BY <1>1, <2>2 DEF MissSchema, RebuildSchema, Locals
  <2> QED  BY <2>1, <2>2
<1>4. /\ pc[c] \in {"getSchema", "rebuild", "rebuildSchema"}
      /\ pc'[c] \in {"rebuild", "rebuildSchema", "rebuildIndex"}
    BY <1>1, GotoStays DEF MissSchema, RebuildScan, RebuildSchema
<1>5. /\ Routing(c) /\ Routing(c)' /\ ~InIndexUpdate(c) /\ ~InIndexUpdate(c)'
      /\ (Written(c)' <=> Written(c)) /\ (InKeyLock(c)' => InKeyLock(c))
    BY <1>2, <1>3, <1>4 DEF Routing, Rebuilding, InIndexUpdate, Written, InKeyLock, Op,
       Running
<1> QED  BY <1>1, <1>2, <1>3, <1>4, <1>5, MovesOnTrack

LEMMA UpdateOnTrack ==
    ASSUME ContentInv, NEW c \in Calls, SavePaths(c) \/ TakeIndexLock(c) \/ LoadIndex(c)
    PROVE  OnTrack(c)'
<1>1. /\ OnTrack(c) /\ TypeOK /\ loc \in [Calls -> Locals] /\ OpOfLabel(c)
    BY DEF ContentInv, OrderInv, CopyInv, TypeOK
<1>2. SameKey(c) /\ UNCHANGED req /\ Op(c)' = Op(c)
  <2>1. CASE SavePaths(c)
    <3>1. Key(c) \in known' <=> Key(c) \in known
        BY <2>1 DEF SavePaths
    <3>2. Key(c) \in known' => expect'[Key(c)] = expect[Key(c)]
        BY <1>1, <2>1 DEF SavePaths, Forget, TypeOK
    <3> QED  BY <2>1, <3>1, <3>2 DEF SavePaths, SameKey, Op
  <2>2. CASE TakeIndexLock(c) \/ LoadIndex(c)
      BY <2>2 DEF TakeIndexLock, LoadIndex, files, history, SameKey, Op
  <2> QED  BY <2>1, <2>2
<1>3. /\ pc[c] \in {"savePaths", "takeIndexLock", "loadIndex"}
      /\ pc'[c] \in {"takeIndexLock", "loadIndex", "saveIndex"}
    BY <1>1, GotoStays DEF SavePaths, TakeIndexLock, LoadIndex
<1>4. \/ pc[c] = "savePaths" /\ loc'[c].ret \in {"added", "dropped"}
      \/ InIndexUpdate(c) /\ loc'[c].ret = loc[c].ret
  <2>1. CASE SavePaths(c)
      BY <1>1, <2>1 DEF SavePaths, Locals
  <2>2. CASE TakeIndexLock(c) \/ LoadIndex(c)
      BY <1>1, <2>2 DEF TakeIndexLock, LoadIndex, InIndexUpdate, Locals
  <2> QED  BY <2>1, <2>2
<1>5. /\ InIndexUpdate(c)' /\ ~Routing(c)' /\ ~Routing(c)
      /\ (Written(c)' <=> Written(c)) /\ (InKeyLock(c)' => InKeyLock(c))
    BY <1>2, <1>3, <1>4 DEF Routing, Rebuilding, InIndexUpdate, Written, InKeyLock,
       Running
<1>6. loc'[c].ret = "cleaned" => (Clean(c) => Here(Key(c)) = {})
    BY <1>1, <1>4 DEF OnTrack, Located
<1> QED  BY <1>1, <1>2, <1>3, <1>5, <1>6, MovesOnTrack

\* A set that validates the index has an unknown key.
LEMMA FailedUnknown ==
    ASSUME ContentInv, NEW c \in Calls, Validating(c)
    PROVE  Key(c) \notin known /\ Op(c) \in Setters
<1>1. Running(c)
    BY DEF Validating, InIndexUpdate, Running
<1> QED  BY <1>1 DEF ContentInv, OrderInv, KnownCompatible, OpOfLabel, Validating

LEMMA SaveIndexOnTrack ==
    ASSUME ContentInv, NEW c \in Calls, SaveIndex(c)
    PROVE  OnTrack(c)'
<1>1. /\ OnTrack(c) /\ TypeOK /\ loc \in [Calls -> Locals] /\ OpOfLabel(c)
      /\ pc[c] = "saveIndex" /\ InIndexUpdate(c) /\ Running(c)
    BY DEF ContentInv, OrderInv, CopyInv, TypeOK, SaveIndex, InIndexUpdate, Running
<1>2. SameKey(c) /\ UNCHANGED <<req, known>> /\ Op(c)' = Op(c) /\ Key(c)' = Key(c)
    BY DEF SaveIndex, history, SameKey, Op, Key
<1>3. CASE loc[c].ret = "validated"
  <2>1. pc'[c] = "validate"
      BY <1>1, <1>3, GotoStays DEF SaveIndex
  <2>2. Validating(c) /\ Validating(c)'
      BY <1>1, <1>3, <2>1 DEF Validating
  <2> QED  BY <1>2, <2>2, FailedUnknown, FailedOnTrack
<1>4. CASE loc[c].ret = "cleaned"
  <2>1. GotData(c, {})
      BY <1>4 DEF SaveIndex
  <2>2. Op(c) \in {"get", "patch"} /\ ~Written(c) /\ (Clean(c) => Here(Key(c)) = {})
      BY <1>1, <1>4 DEF OpOfLabel, Written, Routing, Rebuilding, OnTrack, Located
  <2> QED  BY <1>1, <1>2, <2>1, <2>2, GotDataOnTrack
<1>5. CASE loc[c].ret \notin {"validated", "cleaned"}
  <2>1. pc'[c] = "return" /\ loc[c].ret \in {"added", "dropped"}
      BY <1>1, <1>5, GotoStays DEF SaveIndex, OpOfLabel
  <2>2. /\ Written(c) /\ Written(c)' /\ Op(c) # "get"
        /\ InKeyLock(c)' => InKeyLock(c)
      BY <1>1, <1>2, <2>1 DEF Written, OpOfLabel, Setters, InKeyLock, Routing, Rebuilding
  <2>3. /\ (Clean(c)' => Clean(c)) /\ Here(Key(c))' = Here(Key(c))
        /\ Key(c) \in known' => expect'[Key(c)] = expect[Key(c)]
        /\ Key(c)' \in known' <=> Key(c) \in known
        /\ Target(c)' = Target(c) /\ (Sure(c)' => Sure(c)) /\ store' = store
      BY <1>2, SameContent DEF SameView
  <2>4. Located(c)'
      BY <2>1 DEF Located, InIndexUpdate
  <2>5. ~Routing(c)'
      BY <2>1 DEF Routing, Rebuilding
  <2>6. Progress(c)'
      BY <1>1, <1>2, <2>1, <2>2, <2>3, <2>5 DEF OnTrack, Progress
  <2> QED  BY <2>4, <2>6 DEF OnTrack
<1> QED  BY <1>3, <1>4, <1>5

LEMMA EndOnTrack ==
    ASSUME ContentInv, NEW c \in Calls, Leave(c)
    PROVE  OnTrack(c)'
<1>1. TypeOK
    BY DEF ContentInv, OrderInv, CopyInv
<1>2. ~Running(c)'
    BY <1>1, GotoStays DEF Leave, Running
<1> QED  BY <1>2, NothingToShow

LEMMA CleanupOnTrack ==
    ASSUME ContentInv, NEW c \in Calls, Effects(c),
           LoadSeen(c) \/ Validate(c) \/ GoOn(c) \/ ThrowInSet(c)
    PROVE  OnTrack(c)'
<1>1. /\ TypeOK /\ loc \in [Calls -> Locals] /\ OpOfLabel(c)
    BY DEF ContentInv, OrderInv, CopyInv, TypeOK
<1>2. ASSUME Validating(c), Validating(c)', UNCHANGED <<req, known>>
      PROVE  OnTrack(c)'
    BY <1>2, FailedUnknown, FailedOnTrack DEF Key, Op
<1>3. CASE LoadSeen(c)
  <2>1. CASE Goto(c, "validate") /\ UNCHANGED <<req, history>>
    <3>1. Validating(c) /\ Validating(c)'
        BY <1>1, <1>3, <2>1, GotoStays DEF LoadSeen, Validating
    <3> QED  BY <1>2, <2>1, <3>1 DEF history
  <2> QED  BY <1>3, <2>1, EndOnTrack DEF LoadSeen, Rethrow
<1>4. CASE Validate(c)
  <2>1. \/ UNCHANGED pc
        \/ pc'[c] = "takeIndexLock" /\ loc'[c].ret = "validated"
    <3>1. \/ UNCHANGED pc
          \/ /\ Goto(c, "takeIndexLock")
             /\ \E k \in Keys : loc' = [loc EXCEPT ![c].seen[k] = None, ![c].cur = k,
                                                    ![c].ret = "validated"]
        BY <1>4 DEF Validate
    <3>2. ASSUME NEW k \in Keys,
                 loc' = [loc EXCEPT ![c].seen[k] = None, ![c].cur = k,
                                    ![c].ret = "validated"]
          PROVE  loc'[c].ret = "validated"
        BY <1>1, <3>2 DEF Locals
    <3> QED  BY <1>1, <3>1, <3>2, GotoStays
  <2>2. Validating(c) /\ Validating(c)'
      BY <1>4, <2>1 DEF Validate, Validating, InIndexUpdate
  <2> QED  BY <1>2, <1>4, <2>2 DEF Validate, history
<1>5. CASE GoOn(c) /\ pc[c] = "getSchema"
  <2>1. SameKey(c) /\ GotSchema(c, NoPaths)
      BY <1>5, SameHistory DEF GoOn, files
  <2>2. Routing(c) /\ NoPaths \in Paths /\ Leads(c, NoPaths)
      BY <1>5, Constants DEF Routing, GoOn, Caught, Leads
  <2> QED  BY <2>1, <2>2, GotSchemaOnTrack
<1>6. CASE GoOn(c) /\ pc[c] # "getSchema"
  <2>1. pc'[c] = "validate" /\ Validating(c)
      BY <1>1, <1>6, GotoStays DEF GoOn, Caught, Validating, InIndexUpdate
  <2>2. Validating(c)'
      BY <2>1 DEF Validating
  <2> QED  BY <1>2, <1>6, <2>1, <2>2 DEF GoOn, history
<1>7. CASE ThrowInSet(c)
  <2>1. pc'[c] = "loadSeen" /\ Key(c) \notin known' /\ UNCHANGED req /\ Op(c) \in Setters
      BY <1>1, <1>7, GotoStays DEF ThrowInSet, InTry
  <2>2. Validating(c)' /\ Key(c)' = Key(c) /\ Op(c)' = Op(c)
      BY <2>1 DEF Validating, Key, Op
  <2> QED  BY <2>1, <2>2, FailedOnTrack
<1> QED  BY <1>3, <1>4, <1>5, <1>6, <1>7

LEMMA OwnOnTrack ==
    ASSUME ContentInv, NEW c \in Calls, Effects(c), Step(c) \/ Failure(c)
    PROVE  OnTrack(c)'
<1>1. /\ TypeOK /\ NoPaths \in Paths /\ schema.paths \in Paths /\ Placed(schema.paths)
      /\ Key(c) \in Keys
    BY Constants DEF ContentInv, OrderInv, CopyInv, TypeOK, Places, Key
<1>2. CASE ReadSchema(c)
  <2>1. Routing(c) /\ SameKey(c)
      BY <1>2, SameHistory DEF ReadSchema, Routing, files
  <2>2. Leads(c, schema.paths)
    <3>1. CASE Key(c) \in strays
      <4>1. Clean(c) => Key(c) \in FlatKeys /\ schema.paths[Key(c)] = home[Key(c)]
          BY <3>1 DEF Clean, ContentInv, OrderInv, Signposts
      <4> QED  BY <4>1 DEF Leads, PathEntry
    <3>2. CASE Key(c) \notin strays
        BY <1>1, <3>2 DEF Leads, PathEntry, Placed
    <3> QED  BY <3>1, <3>2
  <2> QED  BY <1>1, <1>2, <2>1, <2>2, GotSchemaOnTrack DEF ReadSchema
<1>3. CASE RebuildIndex(c) \/ RebuildFails(c)
  <2>1. Routing(c) /\ SameKey(c) /\ Rebuilding(c)
      BY <1>3, SameHistory DEF RebuildIndex, RebuildFails, Routing, Rebuilding, files
  <2>2. GotSchema(c, NoPaths)
      BY <1>3 DEF RebuildIndex, RebuildFails
  <2>3. Leads(c, NoPaths)
    <3>1. PathEntry(c, NoPaths) = None
        BY <1>1 DEF PathEntry, NoPaths
    <3>2. Key(c) \in strays => ~Clean(c)
        BY <2>1 DEF Clean, ContentInv, OrderInv, Signposts
    <3> QED  BY <3>1, <3>2 DEF Leads
  <2> QED  BY <1>1, <2>1, <2>2, <2>3, GotSchemaOnTrack
<1>4. CASE TakeKeyLock(c) \/ Scan(c) \/ ReadLocated(c) \/ CheckIndex(c) \/ ReadTarget(c)
    BY <1>4, TakeKeyLockOnTrack, ScanOnTrack, ReadOnTrack, ReadTargetOnTrack
<1>5. CASE Store(c) \/ Remove(c) \/ MissSchema(c) \/ RebuildScan(c) \/ RebuildSchema(c)
    BY <1>5, StoreOnTrack, RemoveOnTrack, RebuildOnTrack
<1>6. CASE SavePaths(c) \/ TakeIndexLock(c) \/ LoadIndex(c) \/ SaveIndex(c)
    BY <1>6, UpdateOnTrack, SaveIndexOnTrack
<1>7. CASE LoadSeen(c) \/ Validate(c) \/ GoOn(c) \/ ThrowInSet(c)
    BY <1>7, CleanupOnTrack
<1>8. CASE Validated(c) \/ Return(c) \/ ThrowToCaller(c)
    BY <1>8, EndOnTrack DEF Validated, Rethrow, Return, ThrowToCaller
<1> QED  BY <1>2, <1>3, <1>4, <1>5, <1>6, <1>7, <1>8 DEF Step, Failure

LEMMA AtReturn ==
    ASSUME NEW c \in Calls, Step(c) \/ Failure(c), pc[c] = "return"
    PROVE  Return(c)
<1>1. ~(TakeKeyLock(c) \/ ReadSchema(c) \/ MissSchema(c) \/ RebuildScan(c) \/ RebuildSchema(c)
        \/ RebuildIndex(c) \/ Scan(c) \/ ReadLocated(c) \/ CheckIndex(c) \/ ReadTarget(c))
    BY DEF TakeKeyLock, ReadSchema, MissSchema, RebuildScan, RebuildSchema, RebuildIndex,
       Scan, ReadLocated, CheckIndex, ReadTarget
<1>2. ~(Store(c) \/ Remove(c) \/ SavePaths(c) \/ TakeIndexLock(c) \/ LoadIndex(c)
        \/ SaveIndex(c) \/ LoadSeen(c) \/ Validate(c) \/ Validated(c))
    BY DEF Store, Remove, SavePaths, TakeIndexLock, LoadIndex, SaveIndex, LoadSeen, Validate,
       Validated
<1>3. ~Failure(c)
    BY DEF Failure, RebuildFails, GoOn, ThrowInSet, ThrowToCaller, CanThrow, Rebuilding
<1> QED  BY <1>1, <1>2, <1>3 DEF Step

\* Who changes data is busy with the key, and stays so.
LEMMA WriterIsBusy ==
    ASSUME TypeOK, Aims, NEW c \in Calls, OpOfLabel(c), Effects(c), Step(c) \/ Failure(c),
           NEW k \in Keys, k \in strays => k \in known, Here(k)' # Here(k)
    PROVE  k = Key(c) /\ Busy(c, k) /\ Busy(c, k)'
<1>1. k = Key(c) /\ (Store(c) \/ Remove(c))
    BY HereChange
<1>2. pc[c] \in {"store", "remove"} /\ Op(c) \in Setters \cup {"delete"}
    BY <1>1 DEF OpOfLabel, Store, Remove
<1>3. Busy(c, k)
    BY <1>1, <1>2 DEF Busy, Running, InKeyLock, Setters, Routing, Rebuilding
<1>4. pc'[c] \in {"store", "remove", "getSchema"}
    BY <1>1, <1>2, CallGetSchemaMove DEF Store, Remove
<1> QED  BY <1>1, <1>3, <1>4, StaysLocked DEF Running

\* A key that is idle and known after a step was so before it, unless the step is
\* the return of its writer.
LEMMA StillIdle ==
    ASSUME ContentInv, NEW c \in Calls, Step(c) \/ Failure(c), OthersStay(c), Effects(c),
           Remembers(c), NEW k \in known', \A d \in Calls : ~Busy(d, k)',
           ~(Return(c) /\ k = Key(c) /\ Op(c) # "get")
    PROVE  k \in known /\ (\A d \in Calls : ~Busy(d, k)) /\ expect'[k] = expect[k]
<1>1. /\ TypeOK /\ OpOfLabel(c) /\ known \subseteq Keys /\ Key(c) \in Keys
    BY DEF ContentInv, OrderInv, CopyInv, TypeOK, Key
<1>2. k \in Keys /\ (k \in known \/ k = Key(c))
    BY <1>1 DEF Remembers
<1>3. expect'[k] = expect[k]
    BY AtReturn DEF Remembers
<1>4. k \in known
  <2>1. CASE k \notin known
    <3>1. pc[c] = "return" /\ k = Key(c)
        BY <1>2, <2>1 DEF Remembers
    <3>2. Return(c) /\ known' # known
        BY <2>1, <3>1, AtReturn
    <3> QED  BY <3>1, <3>2 DEF Return, Fixes
  <2> QED  BY <2>1
<1>5. ASSUME NEW d \in Calls
      PROVE  ~Busy(d, k)
  <2>1. CASE d # c
    <3>1. ~Busy(d, k)'
        OBVIOUS
    <3>2. pc'[d] = pc[d] /\ loc'[d] = loc[d] /\ Key(d)' = Key(d) /\ Op(d)' = Op(d)
        BY <2>1 DEF OthersStay, Key, Op
    <3> QED  BY <3>1, <3>2 DEF Busy, InKeyLock, Running, Routing, Rebuilding
  <2>2. CASE d = c /\ Running(c)'
      BY <1>1, <1>2, <2>2, StaysLocked
  <2>3. CASE d = c /\ ~Running(c)' /\ Busy(c, k)
    <3>1. k = Key(c) /\ Op(c) # "get"
        BY <2>3 DEF Busy, InKeyLock
    <3>2. Validating(c)
        BY <2>3, <3>1 DEF Remembers
    <3> QED  BY <1>4, <3>1, <3>2, FailedUnknown
  <2> QED  BY <2>1, <2>2, <2>3
<1> QED  BY <1>3, <1>4, <1>5

LEMMA StepIdle ==
    ASSUME ContentInv, NEW c \in Calls, Step(c) \/ Failure(c), OthersStay(c), Effects(c),
           Remembers(c)
    PROVE  IdleKeys'
<1>1. /\ TypeOK /\ Aims /\ OpOfLabel(c) /\ OnTrack(c) /\ known \subseteq Keys
      /\ Key(c) \in Keys
    BY DEF ContentInv, OrderInv, CopyInv, TypeOK, Key
<1> SUFFICES ASSUME NEW k \in known', \A d \in Calls : ~Busy(d, k)'
             PROVE  Here(k)' = expect'[k]
    BY DEF IdleKeys
<1>2. k \in Keys /\ (k \in known \/ k = Key(c))
    BY <1>1 DEF Remembers
<1>3. CASE Return(c) /\ k = Key(c) /\ Op(c) # "get"
  <2>1. store' = store /\ expect'[k] = After(c)
      BY <1>1, <1>2, <1>3 DEF Return, Leave, files, TypeOK
  <2>2. Written(c) /\ Running(c) /\ (k \in known \/ Fixes(c))
      BY <1>3 DEF Return, Written, Running
  <2>3. CASE Op(c) = "overwrite"
    <3>1. Sure(c) /\ (Fixes(c) => c \in alone)
        BY <1>3, <2>2 DEF Sure, Fixes
    <3>2. store[Target(c)][k] = {c}
        BY <1>1, <1>3, <2>2, <2>3, <3>1 DEF OnTrack, Progress
    <3>4. After(c) = {c}
        BY <2>3 DEF After, Locked
    <3>3. home'[k] = Target(c)
      <4>1. CASE Fixes(c)
          BY <1>1, <1>2, <1>3, <2>3, <4>1 DEF Return, TypeOK
      <4>2. CASE ~Fixes(c)
          BY <1>1, <1>3, <2>2, <2>3, <4>2 DEF Return, Aims, Setters
      <4> QED  BY <4>1, <4>2
    <3> QED  BY <2>1, <3>2, <3>3, <3>4 DEF Here
  <2>4. CASE Op(c) # "overwrite"
    <3>1. home' = home
        BY <1>3, <2>4 DEF Return
    <3>2. Op(c) \in {"append", "patch", "delete"}
        BY <1>1, <1>3, <2>4 DEF TypeOK, Op, OpNames
    <3>3. Here(k) = After(c)
      <4>1. CASE Op(c) = "delete"
        <5>1. Clean(c)
            BY <1>3, <2>2, <4>1 DEF Clean, Fixes
        <5> QED  BY <1>1, <1>3, <2>2, <4>1, <5>1 DEF OnTrack, Progress, After, Locked
      <4>2. CASE Op(c) \in Locked
        <5>1. InKeyLock(c) /\ k \in known
            BY <1>3, <2>2, <4>2
               DEF Return, InKeyLock, Running, Locked, Routing, Rebuilding, Fixes
        <5> QED  BY <1>1, <1>3, <2>2, <4>2, <5>1 DEF OnTrack, Progress, After, Locked
      <4> QED  BY <3>2, <4>1, <4>2 DEF Locked
    <3> QED  BY <2>1, <3>1, <3>3 DEF Here
  <2> QED  BY <2>3, <2>4
<1>4. CASE ~(Return(c) /\ k = Key(c) /\ Op(c) # "get")
  <2>1. k \in known /\ (\A d \in Calls : ~Busy(d, k)) /\ expect'[k] = expect[k]
      BY <1>4, StillIdle
  <2>2. Here(k) = expect[k]
      BY <2>1 DEF ContentInv, IdleKeys
  <2>3. Here(k)' = Here(k)
      BY <1>1, <1>2, <2>1, WriterIsBusy
  <2> QED  BY <2>1, <2>2, <2>3
<1> QED  BY <1>3, <1>4

\* A call that goes on validating: it reads the index, or drops entries of its copy.
LEMMA Validates ==
    ASSUME TypeOK, NEW c \in Calls, Step(c) \/ Failure(c), Validating(c)',
           pc'[c] # "loadSeen"
    PROVE  /\ Validating(c) /\ UNCHANGED <<store, history>>
           /\ \/ LoadSeen(c) /\ pc'[c] = "validate" /\ loc'[c].seen = index
              \/ Validate(c)
              \/ /\ TakeIndexLock(c) \/ LoadIndex(c)
                 /\ loc'[c].seen = loc[c].seen /\ loc'[c].cur = loc[c].cur
                 /\ InIndexUpdate(c) /\ loc'[c].ret = loc[c].ret /\ pc[c] # "loadSeen"
              \/ pc'[c] = "validate" /\ loc'[c].seen = loc[c].seen /\ pc[c] # "loadSeen"
<1>1. loc \in [Calls -> Locals]
    BY DEF TypeOK
<1>2. ~ThrowInSet(c)
    BY GotoStays DEF ThrowInSet
<1>3. Validating(c)
    BY <1>2, Goes
<1>4. pc[c] \in {"loadSeen", "validate", "takeIndexLock", "loadIndex", "saveIndex"}
    BY <1>3 DEF Validating, InIndexUpdate
<1>5. pc'[c] \in {"validate", "takeIndexLock", "loadIndex", "saveIndex"}
    BY DEF Validating, InIndexUpdate
<1>6. CASE TakeIndexLock(c) \/ LoadIndex(c)
  <2>1. /\ loc'[c].seen = loc[c].seen /\ loc'[c].cur = loc[c].cur /\ InIndexUpdate(c)
        /\ loc'[c].ret = loc[c].ret /\ pc[c] # "loadSeen"
      BY <1>1, <1>6 DEF TakeIndexLock, LoadIndex, Locals, InIndexUpdate
  <2>2. UNCHANGED <<store, history>>
      BY <1>6 DEF TakeIndexLock, LoadIndex, files
  <2> QED  BY <1>3, <1>6, <2>1, <2>2
<1>7. CASE Validate(c)
    BY <1>3, <1>7 DEF Validate, files
<1>8. CASE LoadSeen(c)
  <2>1. ~Rethrow(c)
      BY <1>5, GotoStays DEF Rethrow, Leave
  <2>2. /\ loc'[c].seen = index /\ pc'[c] = "validate"
        /\ UNCHANGED <<store, history>>
      BY <1>1, <1>8, <2>1, GotoStays DEF LoadSeen, files, Locals
  <2> QED  BY <1>3, <1>8, <2>2
<1>9. CASE SaveIndex(c)
  <2>1. loc[c].ret = "validated"
      BY <1>3, <1>9 DEF Validating, SaveIndex
  <2>2. /\ loc' = [loc EXCEPT ![c].snap = NoPaths] /\ pc'[c] = "validate"
        /\ UNCHANGED <<store, history>> /\ pc[c] # "loadSeen"
      BY <1>9, <2>1, GotoStays DEF SaveIndex
  <2>3. loc'[c].seen = loc[c].seen
      BY <1>1, <2>2 DEF Locals
  <2> QED  BY <1>3, <2>2, <2>3
<1>10. CASE GoOn(c)
  <2>1. pc[c] \in {"loadIndex", "saveIndex"}
      BY <1>4, <1>10 DEF GoOn, Caught
  <2>2. /\ loc' = [loc EXCEPT ![c].snap = NoPaths] /\ pc'[c] = "validate"
        /\ UNCHANGED <<store, history>>
      BY <1>10, <2>1, GotoStays DEF GoOn, files
  <2>3. loc'[c].seen = loc[c].seen
      BY <1>1, <2>2 DEF Locals
  <2> QED  BY <1>3, <2>1, <2>2, <2>3
<1>11. ~(Validated(c) \/ ThrowToCaller(c))
    BY <1>5, GotoStays DEF Validated, ThrowToCaller, Rethrow, Leave
<1>12. ~(TakeKeyLock(c) \/ ReadSchema(c) \/ MissSchema(c) \/ RebuildScan(c)
         \/ RebuildSchema(c) \/ RebuildIndex(c) \/ Scan(c) \/ ReadLocated(c))
    BY <1>4 DEF TakeKeyLock, ReadSchema, MissSchema, RebuildScan, RebuildSchema,
       RebuildIndex, Scan, ReadLocated
<1>13. ~(CheckIndex(c) \/ ReadTarget(c) \/ Store(c) \/ Remove(c) \/ SavePaths(c)
         \/ Return(c) \/ RebuildFails(c))
    BY <1>4 DEF CheckIndex, ReadTarget, Store, Remove, SavePaths, Return, RebuildFails,
       Rebuilding
<1> QED  BY <1>2, <1>6, <1>7, <1>8, <1>9, <1>10, <1>11, <1>12, <1>13 DEF Step, Failure

LEMMA OwnMissing ==
    ASSUME ContentInv, SeenHome, NEW c \in Calls, Step(c) \/ Failure(c), InIndexUpdate(c)',
           loc'[c].ret = "validated", NEW m \in known', loc'[c].cur = m
    PROVE  Here(m)' = {}
<1>1. /\ TypeOK /\ loc \in [Calls -> Locals]
    BY DEF ContentInv, OrderInv, CopyInv, TypeOK
<1>2. Validating(c)' /\ pc'[c] \notin {"loadSeen", "validate"}
    BY DEF Validating, InIndexUpdate
<1>3. /\ Validating(c) /\ UNCHANGED <<store, history>>
      /\ \/ Validate(c)
         \/ /\ loc'[c].cur = loc[c].cur /\ InIndexUpdate(c) /\ loc'[c].ret = loc[c].ret
    BY <1>1, <1>2, Validates
<1>4. Here(m)' = Here(m) /\ m \in known
    BY <1>3 DEF history, Here
<1>5. CASE Validate(c)
  <2>1. PICK k \in Keys :
          /\ loc[c].seen[k] # None
          /\ store[loc[c].seen[k]][k] = {}
          /\ loc' = [loc EXCEPT ![c].seen[k] = None, ![c].cur = k, ![c].ret = "validated"]
      BY <1>2, <1>5 DEF Validate
  <2>2. m = k
      BY <1>1, <2>1 DEF Locals
  <2>3. loc[c].seen[k] = home[k]
      BY <1>3, <1>4, <1>5, <2>1, <2>2 DEF SeenHome, Validate
  <2> QED  BY <1>4, <2>1, <2>2, <2>3 DEF Here
<1>6. CASE /\ loc'[c].cur = loc[c].cur /\ InIndexUpdate(c) /\ loc'[c].ret = loc[c].ret
    BY <1>4, <1>6 DEF ContentInv, ValidatesMissing
<1> QED  BY <1>3, <1>5, <1>6

\* While a call validates, no other call makes a key known.
LEMMA NoneFixed ==
    ASSUME CopyInv, NEW c \in Calls, Remembers(c), NEW d \in Calls \ {c}, Validating(d)
    PROVE  known' \subseteq known
<1>1. Uses(d, Key(c))
    BY DEF Uses, Validating, Running, InIndexUpdate
<1>2. c \notin alone
    BY <1>1 DEF CopyInv, AloneIsAlone
<1> QED  BY <1>2 DEF Remembers

LEMMA StepMissing ==
    ASSUME ContentInv, SeenHome, NEW c \in Calls, Step(c) \/ Failure(c), OthersStay(c),
           Effects(c), Remembers(c)
    PROVE  ValidatesMissing'
<1> SUFFICES ASSUME NEW d \in Calls, NEW k \in known', InIndexUpdate(d)',
                    loc'[d].ret = "validated", loc'[d].cur = k
             PROVE  Here(k)' = {}
    BY DEF ValidatesMissing
<1>1. CASE d = c
    BY <1>1, OwnMissing
<1>2. CASE d # c
  <2>1. /\ InIndexUpdate(d) /\ loc[d].ret = "validated" /\ loc[d].cur = k
      BY <1>2 DEF OthersStay, InIndexUpdate
  <2>2. /\ CopyInv /\ TypeOK /\ Aims /\ OpOfLabel(c) /\ KnownCompatible /\ k \in Keys
      BY <2>1 DEF ContentInv, OrderInv, CopyInv, TypeOK, Locals
  <2>3. Validating(d) /\ Running(d)
      BY <2>1 DEF Validating, InIndexUpdate, Running
  <2>4. k \in known
      BY <1>2, <2>2, <2>3, NoneFixed
  <2>5. Here(k) = {}
      BY <2>1, <2>4 DEF ContentInv, ValidatesMissing
  <2>6. CASE Here(k)' # Here(k)
    <3>1. k = Key(c) /\ Busy(c, k)
        BY <2>2, <2>4, <2>6, WriterIsBusy
    <3> QED  BY <2>2, <2>3, <2>4, <3>1 DEF KnownCompatible, Busy
  <2> QED  BY <2>1, <2>5, <2>6
<1> QED  BY <1>1, <1>2

LEMMA StepSeenHome ==
    ASSUME IsolationInv, NEW c \in Calls, Step(c) \/ Failure(c), OthersStay(c), Effects(c),
           Remembers(c)
    PROVE  SeenHome'
<1> SUFFICES ASSUME NEW d \in Calls, NEW k \in known', Validating(d)', pc'[d] # "loadSeen"
             PROVE  loc'[d].seen[k] \in {None, home'[k]}
    BY DEF SeenHome
<1>1. /\ CopyInv /\ TypeOK /\ Aims /\ Places /\ Signposts /\ KnownCompatible /\ Entries
      /\ SeenHome /\ index \in Paths /\ known \subseteq Keys /\ loc \in [Calls -> Locals]
    BY DEF IsolationInv, ContentInv, OrderInv, CopyInv, TypeOK
<1>2. CASE d # c
  <2>1. pc'[d] = pc[d] /\ loc'[d] = loc[d] /\ Validating(d)
      BY <1>2 DEF OthersStay, Validating, InIndexUpdate
  <2>2. k \in known
      BY <1>1, <1>2, <2>1, NoneFixed
  <2>3. home'[k] = home[k]
      BY <1>1, <2>2, HomeStays DEF Remembers
  <2> QED  BY <1>1, <2>1, <2>2, <2>3 DEF SeenHome
<1>3. CASE d = c
  <2>1. /\ Validating(c) /\ UNCHANGED <<known, home>>
        /\ \/ loc'[c].seen = index
           \/ Validate(c)
           \/ loc'[c].seen = loc[c].seen /\ pc[c] # "loadSeen"
      BY <1>1, <1>3, Validates DEF history
  <2>2. k \in known /\ k \in Keys /\ Running(c)
      BY <1>1, <2>1 DEF Validating, Running, InIndexUpdate
  <2>3. index[k] \in {None, home[k]}
    <3>1. CASE k \in strays
      <4>1. \A x \in Calls : ~Busy(x, k)
          BY <1>1, <2>1, <2>2 DEF KnownCompatible, Busy
      <4>2. k \notin swept
          BY <1>1, <2>2, <3>1 DEF Signposts
      <4> QED  BY <1>1, <2>2, <4>1, <4>2 DEF Entries, Entry
    <3>2. CASE k \notin strays
        BY <1>1, <2>2, <3>2 DEF Places, Placed
    <3> QED  BY <3>1, <3>2
  <2>4. CASE Validate(c)
    <3>1. loc[c].seen[k] \in {None, home[k]}
        BY <1>1, <2>1, <2>2, <2>4 DEF SeenHome, Validate
    <3>2. PICK j \in Keys :
            \/ loc' = [loc EXCEPT ![c].seen[j] = None]
            \/ loc' = [loc EXCEPT ![c].seen[j] = None, ![c].cur = j, ![c].ret = "validated"]
        BY <2>4 DEF Validate
    <3>3. loc[c].seen \in Paths
        BY <1>1 DEF Locals
    <3>4. loc'[c].seen = [loc[c].seen EXCEPT ![j] = None]
        BY <1>1, <3>2 DEF Locals
    <3> QED  BY <1>3, <2>1, <2>2, <3>1, <3>3, <3>4 DEF Paths
  <2> QED  BY <1>1, <1>3, <2>1, <2>2, <2>3, <2>4 DEF SeenHome
<1> QED  BY <1>2, <1>3

LEMMA SweptShrinks ==
    ASSUME TypeOK, NEW c \in Calls, Step(c) \/ Failure(c), NEW k \in swept, k \notin swept'
    PROVE  Return(c) /\ k = Key(c) /\ Op(c) # "get" /\ c \in alone
<1>1. \/ MissSchema(c) \/ RebuildScan(c) \/ SavePaths(c)
      \/ ThrowInSet(c) \/ ThrowToCaller(c) \/ Rethrow(c) \/ Return(c)
    BY Changes DEF history
<1>2. Return(c)
    BY <1>1 DEF MissSchema, RebuildScan, SavePaths, ThrowInSet, ThrowToCaller, Rethrow
<1> QED  BY <1>2 DEF Return, Fixes

\* The end of a call that has changed its key.
LEMMA ReturnsLate ==
    ASSUME TypeOK, NEW c \in Calls, Step(c) \/ Failure(c), pc'[c] = "return"
    PROVE  SaveIndex(c) \/ Op(c) = "get"
<1>1. ~(TakeKeyLock(c) \/ Scan(c) \/ ReadTarget(c) \/ SavePaths(c) \/ TakeIndexLock(c)
        \/ LoadIndex(c))
    BY GotoStays, CallGetSchemaLocks
    DEF TakeKeyLock, Scan, Found, ReadTarget, SavePaths, TakeIndexLock, LoadIndex
<1>2. ~(ReadSchema(c) \/ RebuildIndex(c) \/ RebuildFails(c) \/ MissSchema(c)
        \/ RebuildScan(c) \/ RebuildSchema(c))
    BY GotoStays, GotSchemaEffects
    DEF ReadSchema, RebuildIndex, RebuildFails, MissSchema, RebuildScan, RebuildSchema
<1>3. ReadLocated(c) \/ CheckIndex(c) => Op(c) = "get"
    BY GotoStays, GotDataMove DEF ReadLocated, CheckIndex
<1>4. ~(Store(c) \/ Remove(c))
  <2>1. pc[c] = pc'[c] => ~(Store(c) \/ Remove(c))
      BY DEF Store, Remove
  <2> QED  BY <2>1, CallGetSchemaLocks DEF Store, Remove
<1>5. ~(LoadSeen(c) \/ Validated(c) \/ Return(c))
    BY GotoStays DEF LoadSeen, Validated, Return, Rethrow, Leave
<1>6. ~Validate(c)
  <2>1. Validate(c) => pc'[c] \in {"validate", "takeIndexLock"}
      BY GotoStays DEF Validate
  <2> QED  BY <2>1
<1>7. ~Failure(c)
  <2>1. ~(ThrowInSet(c) \/ ThrowToCaller(c))
      BY GotoStays DEF ThrowInSet, ThrowToCaller, Leave
  <2>2. ~GoOn(c)
      BY GotoStays, GotSchemaEffects DEF GoOn
  <2> QED  BY <1>2, <2>1, <2>2 DEF Failure
<1> QED  BY <1>1, <1>2, <1>3, <1>4, <1>5, <1>6, <1>7 DEF Step

\* Two calls are never busy with one key that is known, or whose call is alone.
LEMMA OneBusy ==
    ASSUME OrderInv, NEW c \in Calls, NEW d \in Calls \ {c}, NEW k \in Keys,
           Busy(c, k), Busy(d, k)
    PROVE  d \notin alone /\ k \notin known
<1>1. d \notin alone
    BY DEF OrderInv, CopyInv, AloneIsAlone, Uses, Busy
<1>2. CASE k \in known
  <2>1. Op(c) \in Locked /\ Op(d) \in Locked
      BY <1>2 DEF OrderInv, KnownCompatible, Busy, InKeyLock, Locked
  <2>2. locks[k] = c /\ locks[k] = d
      BY <2>1 DEF OrderInv, CopyInv, LockDiscipline, Busy, Locked
  <2> QED  BY <2>2
<1> QED  BY <1>1, <1>2

\* An entry stays right in a step that neither writes it nor ends the work of
\* its writer.
LEMMA EntryKept ==
    ASSUME ContentInv, NEW c \in Calls, Step(c) \/ Failure(c), OthersStay(c), Effects(c),
           Remembers(c), NEW k \in Keys, NEW x, Entry(k, x),
           ~(pc'[c] = "return" /\ Busy(c, k)')
    PROVE  Entry(k, x)'
<1>1. TypeOK /\ AloneIsAlone /\ Aims
    BY DEF ContentInv, OrderInv, CopyInv
<1>2. ASSUME k \in known' \ swept', \A d \in Calls : ~Busy(d, k)'
      PROVE  x = IF expect'[k] = {} THEN None ELSE home'[k]
  <2>1. CASE Return(c) /\ k = Key(c) /\ Op(c) # "get"
    <3>1. expect'[k] = After(c)
        BY <1>1, <1>2, <2>1 DEF Return, TypeOK
    <3>2. Busy(c, k)
        BY <1>1, <2>1 DEF Return, Busy, Running, InKeyLock, Routing, Rebuilding, TypeOK,
           OpNames, Op
    <3>3. c \in alone \/ k \in known \ swept
        BY <1>2, <2>1 DEF Return, Fixes
    <3>4. x = IF Op(c) = "delete" THEN None ELSE Target(c)
        BY <2>1, <3>2, <3>3 DEF Entry, Return
    <3>7. Op(c) # "delete" => home'[k] = Target(c)
      <4>1. CASE Fixes(c) /\ Op(c) = "overwrite"
          BY <1>1, <2>1, <4>1 DEF Return, TypeOK
      <4>2. CASE ~(Fixes(c) /\ Op(c) = "overwrite") /\ Op(c) # "delete"
        <5>1. home' = home /\ ~Fixes(c)
            BY <2>1, <4>2 DEF Return, Fixes
        <5>2. k \in known /\ Running(c)
            BY <1>2, <2>1, <5>1 DEF Return, Running
        <5>3. Op(c) \in Setters
            BY <1>1, <2>1, <4>2 DEF TypeOK, Op, OpNames, Setters
        <5> QED  BY <1>1, <2>1, <5>1, <5>2, <5>3 DEF Aims
      <4> QED  BY <4>1, <4>2
    <3>5. Op(c) \in {"overwrite", "append", "patch", "delete"}
        BY <1>1, <2>1 DEF TypeOK, Op, OpNames
    <3>6. After(c) = {} <=> Op(c) = "delete"
        BY <3>5 DEF After, Locked
    <3> QED  BY <3>1, <3>4, <3>6, <3>7
  <2>2. CASE ~(Return(c) /\ k = Key(c) /\ Op(c) # "get")
    <3>1. k \in known /\ (\A d \in Calls : ~Busy(d, k)) /\ expect'[k] = expect[k]
        BY <1>2, <2>2, StillIdle
    <3>2. k \notin swept
        BY <1>1, <1>2, <2>2, SweptShrinks
    <3>3. home'[k] = home[k]
        BY <1>1, <3>1, HomeStays DEF Remembers
    <3> QED  BY <3>1, <3>2, <3>3 DEF Entry
  <2> QED  BY <2>1, <2>2
<1>3. ASSUME NEW d \in Calls, Busy(d, k)', pc'[d] = "return",
             d \in alone' \/ k \in known' \ swept'
      PROVE  x = IF Op(d)' = "delete" THEN None ELSE Target(d)'
  <2>1. d # c
      BY <1>3
  <2>2. /\ pc'[d] = pc[d] /\ loc'[d] = loc[d] /\ Key(d)' = Key(d) /\ Op(d)' = Op(d)
        /\ Target(d)' = Target(d)
      BY <2>1 DEF OthersStay, Key, Op, Target
  <2>3. Busy(d, k)
      BY <1>3, <2>2 DEF Busy, InKeyLock, Running, Routing, Rebuilding
  <2>4. Uses(d, k)
      BY <2>3 DEF Busy, Uses
  <2>5. k = Key(c) => c \notin alone
      BY <1>1, <2>1, <2>4 DEF AloneIsAlone
  <2>6. k \in known' \ swept' => k \in known \ swept
      BY <1>1, <2>5, SweptShrinks DEF Remembers
  <2> QED  BY <1>3, <2>2, <2>3, <2>6 DEF Entry, Effects
<1> QED  BY <1>2, <1>3 DEF Entry

\* The entry an update writes.
LEMMA EntryWritten ==
    ASSUME ContentInv, NEW c \in Calls, SaveIndex(c), OthersStay(c), Effects(c),
           Remembers(c), NEW k \in Keys, k = Edited(c),
           NEW x, x = IF loc[c].ret = "added" THEN Target(c) ELSE None
    PROVE  Entry(k, x)'
<1>1. /\ TypeOK /\ AloneIsAlone /\ OpOfLabel(c) /\ OrderInv /\ KnownCompatible
      /\ Located(c) /\ IdleKeys /\ ValidatesMissing
    BY DEF ContentInv, OrderInv, CopyInv, OnTrack
<1>2. /\ pc[c] = "saveIndex" /\ InIndexUpdate(c) /\ Running(c)
      /\ UNCHANGED <<store, req, known, swept, alone, expect, home>>
    BY DEF SaveIndex, InIndexUpdate, Running, history
<1>3. \/ loc[c].ret = "added" /\ Op(c) \in Setters
      \/ loc[c].ret = "dropped" /\ Op(c) = "delete"
      \/ loc[c].ret = "cleaned" /\ Op(c) \in {"get", "patch"}
      \/ loc[c].ret = "validated" /\ Op(c) \in Setters
    BY <1>1, <1>2 DEF OpOfLabel
<1>4. Op(c) \in Locked => InKeyLock(c)
    BY <1>2 DEF InKeyLock, Running, Locked, Routing, Rebuilding
<1>5. loc[c].ret # "validated" => k = Key(c)
    BY DEF Edited
<1>6. loc[c].ret \in {"added", "dropped"} => Busy(c, k)
    BY <1>2, <1>3, <1>4, <1>5 DEF Busy, Setters, Locked
<1>7. ASSUME k \in known' \ swept', \A d \in Calls : ~Busy(d, k)'
      PROVE  x = IF expect'[k] = {} THEN None ELSE home'[k]
  <2>1. Step(c) /\ ~Return(c)
      BY <1>2 DEF Step, Return
  <2>2. k \in known /\ (\A d \in Calls : ~Busy(d, k)) /\ expect'[k] = expect[k]
      BY <1>7, <2>1, StillIdle
  <2>3. Here(k) = expect[k]
      BY <1>1, <2>2 DEF IdleKeys
  <2>4. loc[c].ret \notin {"added", "dropped"}
      BY <1>6, <2>2
  <2>5. CASE loc[c].ret = "cleaned"
      BY <1>1, <1>2, <1>5, <2>2, <2>3, <2>5 DEF Located, Clean
  <2>6. CASE loc[c].ret = "validated"
    <3>1. loc[c].cur = k
        BY <2>6 DEF Edited
    <3> QED  BY <1>1, <1>2, <2>2, <2>3, <2>6, <3>1 DEF ValidatesMissing
  <2> QED  BY <1>3, <2>4, <2>5, <2>6
<1>8. ASSUME NEW d \in Calls, Busy(d, k)', pc'[d] = "return",
             d \in alone' \/ k \in known' \ swept'
      PROVE  x = IF Op(d)' = "delete" THEN None ELSE Target(d)'
  <2>1. CASE d = c
    <3>1. loc[c].ret # "validated"
        BY <1>1, <1>8, <2>1, GotoStays DEF SaveIndex
    <3>2. loc[c].ret # "cleaned"
      <4>1. CASE loc[c].ret = "cleaned"
        <5>1. GotData(c, {})
            BY <4>1 DEF SaveIndex
        <5>2. Op(c) = "get"
            BY <1>1, <1>8, <2>1, <5>1, GotDataMove
        <5> QED  BY <1>2, <1>8, <2>1, <5>2 DEF Busy, InKeyLock, Op
      <4> QED  BY <4>1
    <3>3. Op(c)' = Op(c) /\ Target(c)' = Target(c)
        BY <1>2 DEF Op, Target
    <3> QED  BY <1>3, <1>5, <2>1, <3>1, <3>2, <3>3 DEF Setters
  <2>2. CASE d # c
    <3>1. pc'[d] = pc[d] /\ loc'[d] = loc[d] /\ Key(d)' = Key(d) /\ Op(d)' = Op(d)
        BY <2>2 DEF OthersStay, Key, Op
    <3>2. Busy(d, k)
        BY <1>8, <3>1 DEF Busy, InKeyLock, Running, Routing, Rebuilding
    <3>3. Running(d) /\ Key(d) = k /\ Op(d) # "get"
        BY <3>2 DEF Busy, InKeyLock
    <3>4. Uses(c, k)
        BY <1>2, <1>5 DEF Uses, Validating
    <3>5. d \notin alone
        BY <1>1, <2>2, <3>3, <3>4 DEF AloneIsAlone
    <3>6. k \in known
        BY <1>2, <1>8, <3>5
    <3>7. ~Validating(c)
        BY <1>1, <3>3, <3>6 DEF KnownCompatible
    <3>8. Key(c) = k
        BY <3>4, <3>7 DEF Uses
    <3>9. Op(c) \in Locked
        BY <1>1, <1>2, <2>2, <3>3, <3>6, <3>8 DEF KnownCompatible
    <3>10. Busy(c, k)
        BY <1>2, <1>4, <3>8, <3>9 DEF Busy
    <3> QED  BY <1>1, <2>2, <3>2, <3>6, <3>10, OneBusy
  <2> QED  BY <2>1, <2>2
<1> QED  BY <1>7, <1>8 DEF Entry

\* The entries a rebuild writes.
LEMMA EntryRebuilt ==
    ASSUME IsolationInv, NEW c \in Calls, RebuildIndex(c), OthersStay(c), Effects(c),
           Remembers(c), NEW k \in Keys, NEW x, x = loc[c].snap[k]
    PROVE  Entry(k, x)'
<1>1. /\ TypeOK /\ ContentInv /\ IdleKeys /\ NoRebuildBeside /\ RebuildSwept /\ Rebuilt(c)
      /\ Signposts
    BY DEF IsolationInv, ContentInv, OrderInv, CopyInv
<1>2. /\ pc[c] = "rebuildIndex" /\ Rebuilding(c)
      /\ UNCHANGED <<req, known, swept, alone, expect, home>>
    BY DEF RebuildIndex, Rebuilding, history
<1>3. ASSUME k \in known' \ swept', \A d \in Calls : ~Busy(d, k)'
      PROVE  x = IF expect'[k] = {} THEN None ELSE home'[k]
  <2>1. Step(c) /\ ~Return(c)
      BY <1>2 DEF Step, Return
  <2>2. k \in known /\ (\A d \in Calls : ~Busy(d, k)) /\ expect'[k] = expect[k]
      BY <1>1, <1>3, <2>1, StillIdle
  <2>3. Here(k) = expect[k]
      BY <1>1, <2>2 DEF IdleKeys
  <2>4. k \in Keys \ (swept \cup strays)
      BY <1>1, <1>2, <1>3, <2>2 DEF Signposts
  <2> QED  BY <1>1, <1>2, <2>2, <2>3, <2>4 DEF Rebuilt
<1>4. ASSUME NEW d \in Calls, Busy(d, k)', pc'[d] = "return",
             d \in alone' \/ k \in known' \ swept'
      PROVE  FALSE
  <2>1. d # c
      BY <1>1, <1>4, GotSchemaEffects DEF RebuildIndex
  <2>2. Running(d) /\ Key(d) = k
      BY <1>4, <2>1 DEF OthersStay, Key, Busy, Running
  <2>3. d \notin alone
      BY <1>1, <1>2, <2>1 DEF NoRebuildBeside
  <2>4. k \in swept
      BY <1>1, <1>2, <2>1, <2>2 DEF RebuildSwept
  <2> QED  BY <1>2, <1>4, <2>3, <2>4
<1> QED  BY <1>3, <1>4 DEF Entry

LEMMA StepEntries ==
    ASSUME IsolationInv, NEW c \in Calls, Step(c) \/ Failure(c), OthersStay(c), Effects(c),
           Remembers(c)
    PROVE  Entries'
<1>1. /\ TypeOK /\ ContentInv /\ Entries /\ LockDiscipline /\ index \in Paths
      /\ loc \in [Calls -> Locals]
    BY DEF IsolationInv, ContentInv, OrderInv, CopyInv, TypeOK
<1>2. ASSUME NEW k \in Keys, pc'[c] = "return", Busy(c, k)'
      PROVE  SaveIndex(c) /\ k = Key(c)
  <2>1. UNCHANGED req
      BY <1>2 DEF Effects, Running
  <2> QED  BY <1>1, <1>2, <2>1, ReturnsLate DEF Busy, InKeyLock, Key, Op
<1>3. ASSUME NEW k \in Keys, NEW x, x = index'[k]
      PROVE  Entry(k, x)'
  <2>1. CASE SaveIndex(c) /\ k = Edited(c)
    <3>1. x = IF loc[c].ret = "added" THEN Target(c) ELSE None
        BY <1>1, <1>3, <2>1 DEF SaveIndex, Locals, Paths
    <3> QED  BY <1>1, <2>1, <3>1, EntryWritten
  <2>2. CASE SaveIndex(c) /\ k # Edited(c)
    <3>1. x = loc[c].snap[k]
        BY <1>1, <1>3, <2>2 DEF SaveIndex, Locals, Paths
    <3>2. Entry(k, x)
        BY <1>1, <2>2, <3>1 DEF Entries, SaveIndex
    <3>3. ~(pc'[c] = "return" /\ Busy(c, k)')
      <4>1. CASE loc[c].ret = "validated"
          BY <1>1, <2>2, <4>1, GotoStays DEF SaveIndex
      <4>2. CASE loc[c].ret # "validated"
          BY <1>2, <2>2, <4>2 DEF Edited
      <4> QED  BY <4>1, <4>2
    <3> QED  BY <1>1, <3>2, <3>3, EntryKept
  <2>3. CASE RebuildIndex(c)
    <3>1. x = loc[c].snap[k]
        BY <1>3, <2>3 DEF RebuildIndex
    <3> QED  BY <2>3, <3>1, EntryRebuilt
  <2>4. CASE ~SaveIndex(c) /\ ~RebuildIndex(c)
    <3>1. Entry(k, x)
        BY <1>1, <1>3, <2>4, Changes DEF Entries
    <3> QED  BY <1>1, <1>2, <2>4, <3>1, EntryKept
  <2> QED  BY <2>1, <2>2, <2>3, <2>4
<1>4. ASSUME NEW d \in Calls, NEW k \in Keys, pc'[d] = "saveIndex", k # Edited(d)',
             NEW x, x = loc'[d].snap[k]
      PROVE  Entry(k, x)'
  <2>1. CASE d = c
      BY <1>3, <1>4, <2>1 DEF Effects
  <2>2. CASE d # c
    <3>1. pc[d] = "saveIndex" /\ loc'[d] = loc[d] /\ Edited(d)' = Edited(d)
        BY <1>4, <2>2 DEF OthersStay, Edited, Key
    <3>2. Entry(k, x)
        BY <1>1, <1>4, <3>1 DEF Entries
    <3>3. ~SaveIndex(c)
        BY <1>1, <2>2, <3>1 DEF LockDiscipline, SaveIndex
    <3> QED  BY <1>1, <1>2, <3>2, <3>3, EntryKept
  <2> QED  BY <2>1, <2>2
<1> QED  BY <1>3, <1>4 DEF Entries, Entry

LEMMA RebuildGoesOn ==
    ASSUME TypeOK, NEW c \in Calls, Step(c) \/ Failure(c), Rebuilding(c)'
    PROVE  MissSchema(c) \/ RebuildScan(c) \/ RebuildSchema(c)
<1>1. CASE MissSchema(c)
    BY <1>1
<1>2. CASE ~MissSchema(c)
  <2>1. pc[c] \in {"rebuild", "rebuildSchema", "rebuildIndex"}
      BY <1>2, Goes DEF Rebuilding
  <2>2. ~(RebuildIndex(c) \/ RebuildFails(c))
      BY GotSchemaEffects DEF RebuildIndex, RebuildFails, Rebuilding
  <2>3. ~(TakeKeyLock(c) \/ ReadSchema(c) \/ Scan(c) \/ ReadLocated(c) \/ CheckIndex(c)
          \/ ReadTarget(c) \/ Store(c) \/ Remove(c) \/ SavePaths(c) \/ TakeIndexLock(c))
      BY <2>1 DEF TakeKeyLock, ReadSchema, Scan, ReadLocated, CheckIndex, ReadTarget, Store,
         Remove, SavePaths, TakeIndexLock
  <2>4. ~(LoadIndex(c) \/ SaveIndex(c) \/ LoadSeen(c) \/ Validate(c) \/ Validated(c)
          \/ Return(c) \/ GoOn(c) \/ ThrowInSet(c) \/ ThrowToCaller(c))
      BY <2>1 DEF LoadIndex, SaveIndex, LoadSeen, Validate, Validated, Return, GoOn,
         ThrowInSet, ThrowToCaller, CanThrow
  <2> QED  BY <1>2, <2>2, <2>3, <2>4 DEF Step, Failure
<1> QED  BY <1>1, <1>2

\* One adapter more has been listed.
LEMMA ScanRebuilt ==
    ASSUME TypeOK, Places, NEW c \in Calls, Rebuilt(c), RebuildScan(c)
    PROVE  Rebuilt(c)'
<1> DEFINE p == loc[c].pos
           a == AdapterSeq[p]
           held == {k \in Keys : store[a][k] # {}}
           last == p = Len(AdapterSeq)
<1>1. PICK missed \in SUBSET held :
        /\ loc' = [loc EXCEPT
             ![c].pos = IF last THEN 1 ELSE @ + 1,
             ![c].snap = [k \in Keys |-> IF k \in held \ missed THEN a ELSE @[k]]]
        /\ swept' = swept \cup missed
    BY DEF RebuildScan
<1>2. loc \in [Calls -> Locals] /\ p \in 1..Len(AdapterSeq) /\ a \in Adapters
    BY AdapterTyped DEF TypeOK, Locals
<1>3. /\ loc'[c].pos = IF last THEN 1 ELSE p + 1
      /\ loc'[c].snap = [k \in Keys |-> IF k \in held \ missed THEN a ELSE loc[c].snap[k]]
    BY <1>1, <1>2 DEF Locals
<1>4. pc[c] = "rebuild" /\ pc'[c] = (IF last THEN "rebuildSchema" ELSE "rebuild")
    BY GotoStays DEF RebuildScan
<1> SUFFICES ASSUME NEW k \in Keys, k \notin swept' \cup strays'
             PROVE  /\ pc'[c] = "rebuild" =>
                         loc'[c].snap[k] =
                           IF Here(k)' # {} /\ \E i \in 1..(loc'[c].pos - 1) :
                                                 AdapterSeq[i] = home'[k]
                           THEN home'[k] ELSE None
                    /\ pc'[c] \in {"rebuildSchema", "rebuildIndex"} =>
                         loc'[c].snap[k] = IF Here(k)' # {} THEN home'[k] ELSE None
    BY DEF Rebuilt
<1>5. /\ k \notin missed /\ k \notin swept \cup strays /\ Here(k)' = Here(k)
      /\ home' = home
    BY <1>1 DEF RebuildScan, files, Here
<1>6. k \in held <=> a = home[k] /\ Here(k) # {}
    BY <1>2, <1>5 DEF Places, Here
<1>7. loc[c].snap[k] = IF Here(k) # {} /\ \E i \in 1..(p - 1) : AdapterSeq[i] = home[k]
                       THEN home[k] ELSE None
    BY <1>4, <1>5 DEF Rebuilt
<1>8. loc'[c].snap[k] = IF Here(k) # {} /\ \E i \in 1..p : AdapterSeq[i] = home[k]
                        THEN home[k] ELSE None
  <2>1. (\E i \in 1..p : AdapterSeq[i] = home[k]) <=>
            a = home[k] \/ \E i \in 1..(p - 1) : AdapterSeq[i] = home[k]
    <3>1. p \in Nat /\ \A i \in 1..p : i = p \/ i \in 1..(p - 1)
        BY <1>2
    <3>2. p \in 1..p /\ 1..(p - 1) \subseteq 1..p
        BY <1>2
    <3> QED  BY <3>1, <3>2
  <2>2. loc'[c].snap[k] = IF k \in held THEN a ELSE loc[c].snap[k]
      BY <1>3, <1>5
  <2> HIDE DEF a, held, p
  <2> QED  BY <1>6, <1>7, <2>1, <2>2
<1>9. CASE last
  <2>1. \E i \in 1..p : AdapterSeq[i] = home[k]
      BY <1>9, EveryAdapterListed DEF TypeOK
  <2> QED  BY <1>4, <1>5, <1>8, <1>9, <2>1
<1>10. CASE ~last
  <2>1. loc'[c].pos - 1 = p
      BY <1>2, <1>3, <1>10
  <2> QED  BY <1>4, <1>5, <1>8, <1>10, <2>1
<1> QED  BY <1>9, <1>10

LEMMA StepRebuilt ==
    ASSUME IsolationInv, NEW c \in Calls, Step(c) \/ Failure(c), OthersStay(c), Effects(c),
           NEW d \in Calls
    PROVE  Rebuilt(d)'
<1>1. /\ TypeOK /\ Places /\ Aims /\ NoRebuildBeside /\ RebuildSwept /\ OpOfLabel(c)
      /\ Rebuilt(d) /\ Moves(c)
      /\ loc \in [Calls -> Locals]
    BY StepMoves DEF IsolationInv, ContentInv, OrderInv, CopyInv, TypeOK
<1>2. CASE ~Rebuilding(d)'
    BY <1>2 DEF Rebuilt, Rebuilding
<1>3. CASE d # c /\ Rebuilding(d)'
  <2>1. pc'[d] = pc[d] /\ loc'[d] = loc[d] /\ Rebuilding(d)
      BY <1>3 DEF OthersStay, Rebuilding
  <2>2. ASSUME NEW k \in Keys \ (swept' \cup strays')
        PROVE  /\ k \in Keys \ (swept \cup strays) /\ Here(k)' = Here(k)
               /\ home'[k] = home[k]
    <3>1. k \notin swept \cup strays
      <4>1. k \notin swept
          BY <1>1, <1>3, <2>1, <2>2, SweptShrinks DEF NoRebuildBeside
      <4> QED  BY <1>1, <2>2, <4>1 DEF Moves
    <3>3. home'[k] = home[k]
        BY <1>1, <3>1, HomeStays
    <3>2. CASE Here(k)' # Here(k)
      <4>1. k = Key(c) /\ Running(c)
          BY <1>1, <3>1, <3>2, WriterIsBusy DEF Busy
      <4> QED  BY <1>1, <1>3, <2>1, <3>1, <4>1 DEF RebuildSwept
    <3> QED  BY <3>1, <3>2, <3>3
  <2> QED  BY <1>1, <2>1, <2>2 DEF Rebuilt
<1>4. CASE d = c /\ MissSchema(c)
  <2>1. loc' = [loc EXCEPT ![c].pos = 1, ![c].snap = NoPaths] /\ pc'[c] = "rebuild"
      BY <1>1, <1>4, GotoStays DEF MissSchema
  <2>2. loc'[c].pos = 1 /\ loc'[c].snap = NoPaths
      BY <1>1, <2>1 DEF Locals
  <2>3. 1..(loc'[c].pos - 1) = {}
      BY <2>2
  <2> QED  BY <1>4, <2>1, <2>2, <2>3 DEF Rebuilt, NoPaths
<1>5. CASE d = c /\ RebuildScan(c)
    BY <1>1, <1>5, ScanRebuilt
<1>6. CASE d = c /\ RebuildSchema(c)
  <2>1. pc[c] = "rebuildSchema" /\ pc'[c] = "rebuildIndex"
        /\ UNCHANGED <<store, loc, swept, strays, home>>
      BY <1>1, <1>6, GotoStays DEF RebuildSchema, history
  <2> QED  BY <1>1, <1>6, <2>1 DEF Rebuilt, Here
<1> QED  BY <1>1, <1>2, <1>3, <1>4, <1>5, <1>6, RebuildGoesOn

LEMMA StepIsolation ==
    ASSUME IsolationInv, NEW c \in Calls, Step(c) \/ Failure(c)
    PROVE  IsolationInv'
<1>1. ContentInv /\ OrderInv /\ CopyInv /\ TypeOK /\ LockDiscipline
    BY DEF IsolationInv, ContentInv, OrderInv, CopyInv
<1>2. OthersStay(c) /\ LockDiscipline' /\ Effects(c) /\ Remembers(c) /\ TypeOK'
    BY <1>1, StepLocks, StepEffects, StepRemembers, StepTyped
<1>3. CopyInv'
    BY <1>1, <1>2, StepSwept, StepAlone, StepCopies DEF CopyInv
<1>4. ASSUME NEW d \in Calls
      PROVE  OpOfLabel(d)'
  <2>1. OpOfLabel(d)
      BY <1>1 DEF OrderInv
  <2>2. CASE d = c
      BY <1>1, <2>1, <2>2, StepLabels
  <2>3. CASE d # c
    <3>1. pc'[d] = pc[d] /\ loc'[d] = loc[d] /\ Op(d)' = Op(d)
        BY <1>2, <2>3 DEF OthersStay, Op
    <3> QED  BY <2>1, <3>1 DEF OpOfLabel, Routing, Rebuilding, InIndexUpdate
  <2> QED  BY <2>2, <2>3
<1>5. OrderInv'
  <2>1. Places' /\ Aims' /\ Signposts'
      BY <1>1, <1>2, StepPlaces, StepAims, StepSignposts DEF OrderInv
  <2>2. KnownCompatible' /\ NoRebuildBeside'
      BY <1>1, <1>2, StepCompatible, StepUnbuilt DEF OrderInv
  <2> QED  BY <1>3, <1>4, <2>1, <2>2 DEF OrderInv
<1>6. \A d \in Calls : OnTrack(d)'
    BY <1>1, <1>2, OwnOnTrack, OthersOnTrack
<1>7. ContentInv'
    BY <1>1, <1>2, <1>5, <1>6, StepIdle, StepMissing DEF IsolationInv, ContentInv
<1>8. Entries' /\ SeenHome' /\ \A d \in Calls : Rebuilt(d)'
    BY <1>2, StepEntries, StepSeenHome, StepRebuilt
<1> QED  BY <1>7, <1>8 DEF IsolationInv

-----------------------------------------------------------------------------
\* What a call that starts leaves as it was.
LEMMA StartKeeps ==
    ASSUME TypeOK, NEW c \in Calls, NEW op \in OpNames, NEW k \in Keys,
           NEW to \in Targets(op, k), Start(c, op, k, to)
    PROVE  /\ UNCHANGED <<store, schema, index, locks>>
           /\ swept \subseteq swept' /\ known' \subseteq known
           /\ alone' \subseteq alone \cup {c}
           /\ k \in known' => \A d \in Users(k) : Compatible(d, op)
           /\ \A m \in known' : expect'[m] = expect[m]
           /\ Key(c)' = k /\ Op(c)' = op /\ Target(c)' = to
           /\ home' = home /\ strays \subseteq strays' /\ strays' \subseteq strays \cup {k}
           /\ strays' # strays => k \notin known' /\ Users(k) \cap alone' = {}
           /\ op \in Setters /\ to # home[k] => k \in strays' \ known'
           /\ op = "delete" /\ k \in strays => k \notin known'
           /\ (\A d \in Calls : ~Rebuilding(d)) => swept' = swept
           /\ ~Running(c) /\ Running(c)'
           /\ pc'[c] \in {"getSchema", "takeKeyLock", "store"}
<1>1. pc[c] = "idle" /\ pc'[c] \in {"getSchema", "takeKeyLock", "store"}
    BY StartFacts
<1>2. Key(c)' = k /\ Op(c)' = op /\ Target(c)' = to
    BY DEF Start, Key, Op, Target, TypeOK
<1>3. known' \subseteq known /\ Forget
    BY DEF Start
<1>4. \A m \in known' : expect'[m] = expect[m]
    BY <1>3 DEF Forget, TypeOK
<1>5. /\ home' = home /\ strays \subseteq strays' /\ strays' \subseteq strays \cup {k}
      /\ strays' # strays => k \notin known' /\ Users(k) \cap alone' = {}
      /\ op \in Setters /\ to # home[k] => k \in strays' \ known'
      /\ op = "delete" /\ k \in strays => k \notin known'
    BY DEF Start
<1>6. (\A d \in Calls : ~Rebuilding(d)) => swept' = swept
    BY DEF Start
<1>7. /\ UNCHANGED <<store, schema, index, locks>>
      /\ swept \subseteq swept' /\ alone' \subseteq alone \cup {c}
      /\ k \in known' => \A d \in Users(k) : Compatible(d, op)
    BY DEF Start, files
<1> QED  BY <1>1, <1>2, <1>3, <1>4, <1>5, <1>6, <1>7 DEF Running

\* The locals of a call that starts.
LEMMA StartMove ==
    ASSUME TypeOK, NEW c \in Calls, NEW op \in OpNames, NEW k \in Keys,
           NEW to \in Targets(op, k), Start(c, op, k, to)
    PROVE  /\ \/ loc'[c].snap = NoPaths /\ loc'[c].seen = NoPaths
              \/ loc'[c].snap = loc[c].snap /\ loc'[c].seen = loc[c].seen
           /\ \/ /\ pc'[c] = "getSchema" /\ loc'[c].ret = "route"
                 /\ op \in {"overwrite", "append"}
              \/ /\ pc'[c] = "getSchema" /\ loc'[c].ret = "locate"
                 /\ op \in {"get", "delete"}
              \/ pc'[c] = "takeKeyLock" /\ op \in Locked
              \/ pc'[c] = "store" /\ op = "overwrite" /\ loc'[c].val = {c}
<1>1. ASSUME NEW from, CallGetSchema(c, from)
      PROVE  /\ pc'[c] = "getSchema" /\ loc'[c].ret = from
             /\ loc'[c].snap = NoPaths /\ loc'[c].seen = NoPaths
    BY <1>1, CallGetSchemaMove
<1>2. CASE op \in {"overwrite", "append"} /\ CallGetSchema(c, "route")
    BY <1>1, <1>2
<1>3. CASE op \in {"get", "delete"} /\ CallGetSchema(c, "locate")
    BY <1>1, <1>3
<1>4. CASE op = "append" /\ Routed(c, op)
    BY <1>4, GotoStays DEF Routed, Locked
<1>5. CASE op = "patch" /\ Goto(c, "takeKeyLock") /\ UNCHANGED loc
    BY <1>5, GotoStays DEF Locked
<1>6. CASE op = "overwrite" /\ Routed(c, op)
  <2>1. loc' = [loc EXCEPT ![c].val = {c}] /\ pc'[c] = "store"
      BY <1>6, GotoStays DEF Routed, TypeOK
  <2>2. /\ loc'[c].val = {c} /\ loc'[c].snap = loc[c].snap /\ loc'[c].seen = loc[c].seen
      BY <2>1 DEF TypeOK, Locals
  <2> QED  BY <1>6, <2>1, <2>2
<1> QED  BY <1>2, <1>3, <1>4, <1>5, <1>6 DEF Start

LEMMA StartPlaced ==
    ASSUME OrderInv, NEW c \in Calls, NEW op \in OpNames, NEW k \in Keys,
           NEW to \in Targets(op, k), Start(c, op, k, to)
    PROVE  OrderInv'
<1>1. CopyInv /\ TypeOK /\ LockDiscipline /\ Places /\ Aims /\ Signposts
    BY DEF OrderInv, CopyInv
<1>2. OthersStay(c) /\ LockDiscipline' /\ TypeOK'
    BY <1>1, StartLocks, StartTyped
<1>3. CopyInv'
    BY <1>1, <1>2, StartCopies DEF CopyInv
<1>4. KnownCompatible' /\ NoRebuildBeside'
    BY <1>1, StartOrder DEF OrderInv
<1>5. /\ UNCHANGED <<store, schema, index, locks, home>>
      /\ known' \subseteq known /\ strays \subseteq strays' /\ strays' \subseteq strays \cup {k}
      /\ strays' # strays => k \notin known'
      /\ op \in Setters /\ to # home[k] => k \in strays' \ known'
      /\ op = "delete" /\ k \in strays => k \notin known'
      /\ (\A d \in Calls : ~Rebuilding(d)) => swept' = swept
      /\ Key(c)' = k /\ Op(c)' = op /\ Target(c)' = to
      /\ pc'[c] \in {"getSchema", "takeKeyLock", "store"}
    BY <1>1, StartKeeps
<1>6. /\ \/ loc'[c].snap = NoPaths /\ loc'[c].seen = NoPaths
         \/ loc'[c].snap = loc[c].snap /\ loc'[c].seen = loc[c].seen
      /\ \/ /\ pc'[c] = "getSchema" /\ loc'[c].ret = "route"
            /\ op \in {"overwrite", "append"}
         \/ /\ pc'[c] = "getSchema" /\ loc'[c].ret = "locate"
            /\ op \in {"get", "delete"}
         \/ pc'[c] = "takeKeyLock" /\ op \in Locked
         \/ pc'[c] = "store" /\ op = "overwrite" /\ loc'[c].val = {c}
    BY <1>1, StartMove
<1>7. Places'
  <2>1. ASSUME NEW d \in Calls
        PROVE  Placed(loc'[d].snap) /\ Placed(loc'[d].seen)
    <3>1. CASE d = c
        BY <1>1, <1>6, <3>1, NothingPlaced DEF Places
    <3>2. CASE d # c
        BY <1>1, <1>2, <3>2 DEF Places, OthersStay
    <3> QED  BY <3>1, <3>2
  <2> QED  BY <1>1, <1>5, <2>1 DEF Places, Placed
<1>8. ASSUME NEW d \in Calls
      PROVE  OpOfLabel(d)'
  <2>1. CASE d = c
      BY <1>5, <1>6, <2>1 DEF OpOfLabel, Routing, Rebuilding, InIndexUpdate, Setters, Locked
  <2>2. CASE d # c
    <3>1. pc'[d] = pc[d] /\ loc'[d] = loc[d] /\ Op(d)' = Op(d)
        BY <1>2, <2>2 DEF OthersStay, Op
    <3> QED  BY <3>1 DEF OrderInv, OpOfLabel, Routing, Rebuilding, InIndexUpdate
  <2> QED  BY <2>1, <2>2
<1>9. ASSUME NEW d \in Calls \ {c}
      PROVE  /\ pc'[d] = pc[d] /\ Key(d)' = Key(d) /\ Op(d)' = Op(d)
             /\ Target(d)' = Target(d)
    BY <1>2 DEF OthersStay, Key, Op, Target
<1>10. Aims'
  <2> SUFFICES ASSUME NEW d \in Calls, Running(d)', Op(d)' \in Setters,
                      Key(d)' \in strays' => Key(d)' \in known'
               PROVE  Target(d)' = home'[Key(d)']
      BY DEF Aims
  <2>1. CASE d = c
      BY <1>5, <2>1
  <2>2. CASE d # c
    <3>1. Running(d) /\ (Key(d) \in strays => Key(d) \in known)
        BY <1>5, <1>9, <2>2 DEF Running
    <3> QED  BY <1>1, <1>5, <1>9, <2>2, <3>1 DEF Aims
  <2> QED  BY <2>1, <2>2
<1>11. Signposts'
  <2> SUFFICES ASSUME NEW m \in known' \cap strays'
               PROVE  /\ schema'.exists /\ m \in FlatKeys /\ schema'.paths[m] = home'[m]
                      /\ m \notin swept'
                      /\ \A d \in Calls : ~Rebuilding(d)' /\ (Running(d)' /\ Key(d)' = m => Op(d)' # "delete")
      BY DEF Signposts
  <2>1. m \in known \cap strays
      BY <1>5
  <2>2. /\ schema.exists /\ m \in FlatKeys /\ schema.paths[m] = home[m] /\ m \notin swept
        /\ \A d \in Calls : ~Rebuilding(d) /\ (Running(d) /\ Key(d) = m => Op(d) # "delete")
      BY <1>1, <2>1 DEF Signposts
  <2>3. ASSUME NEW d \in Calls
        PROVE  ~Rebuilding(d)' /\ (Running(d)' /\ Key(d)' = m => Op(d)' # "delete")
    <3>1. CASE d = c
        BY <1>5, <2>1, <3>1 DEF Rebuilding
    <3>2. CASE d # c
        BY <1>9, <2>2, <3>2 DEF Rebuilding, Running
    <3> QED  BY <3>1, <3>2
  <2> QED  BY <1>5, <2>2, <2>3
<1> QED  BY <1>3, <1>4, <1>7, <1>8, <1>10, <1>11 DEF OrderInv

\* A call that has just started has nothing to show yet.
LEMMA StarterOnTrack ==
    ASSUME TypeOK, NEW c \in Calls, NEW op \in OpNames, NEW k \in Keys,
           NEW to \in Targets(op, k), Start(c, op, k, to)
    PROVE  OnTrack(c)'
<1>1. Op(c)' = op
    BY StartKeeps
<1>2. \/ /\ pc'[c] = "getSchema" /\ loc'[c].ret = "route"
         /\ op \in {"overwrite", "append"}
      \/ /\ pc'[c] = "getSchema" /\ loc'[c].ret = "locate"
         /\ op \in {"get", "delete"}
      \/ pc'[c] = "takeKeyLock" /\ op \in Locked
      \/ pc'[c] = "store" /\ op = "overwrite" /\ loc'[c].val = {c}
    BY StartMove
<1>3. Located(c)'
    BY <1>2 DEF Located, InIndexUpdate
<1>4. ~Written(c)'
    BY <1>2 DEF Written, InIndexUpdate, Routing, Rebuilding
<1>5. op \in Locked => ~InKeyLock(c)'
    BY <1>1, <1>2 DEF InKeyLock, Routing, Locked
<1>6. pc'[c] # "return" /\ (op = "overwrite" /\ pc'[c] = "store" => loc'[c].val = {c})
    BY <1>2 DEF Locked
<1>7. Progress(c)'
    BY <1>1, <1>4, <1>5, <1>6 DEF Progress
<1> QED  BY <1>3, <1>7 DEF OnTrack

LEMMA StartIsolation ==
    ASSUME IsolationInv, NEW c \in Calls, NEW op \in OpNames, NEW k \in Keys,
           NEW to \in Targets(op, k), Start(c, op, k, to)
    PROVE  IsolationInv'
<1>1. /\ ContentInv /\ OrderInv /\ CopyInv /\ TypeOK /\ LockDiscipline /\ IdleKeys
      /\ ValidatesMissing /\ Entries /\ SeenHome
    BY DEF IsolationInv, ContentInv, OrderInv, CopyInv
<1>2. /\ UNCHANGED <<store, index, home>> /\ strays \subseteq strays'
      /\ strays' \subseteq strays \cup {k}
      /\ strays' # strays => k \notin known' /\ Users(k) \cap alone' = {}
      /\ swept \subseteq swept' /\ known' \subseteq known
      /\ alone' \subseteq alone \cup {c}
      /\ \A m \in known' : expect'[m] = expect[m]
      /\ ~Running(c)
      /\ pc'[c] \in {"getSchema", "takeKeyLock", "store"}
    BY <1>1, StartKeeps
<1>3. /\ \A d \in Calls \ {c} : pc'[d] = pc[d] /\ loc'[d] = loc[d] /\ req'[d] = req[d]
      /\ \A m \in Keys : Here(m)' = Here(m)
  <2>1. OthersStay(c)
      BY <1>1, StartLocks
  <2> QED  BY <1>2, <2>1 DEF OthersStay, Here
<1>4. OrderInv'
    BY <1>1, StartPlaced
<1>5. ASSUME NEW d \in Calls
      PROVE  OnTrack(d)'
  <2>1. CASE d = c
      BY <1>1, <2>1, StarterOnTrack
  <2>2. CASE d # c
    <3>1. OnTrack(d) /\ Key(d) \in Keys
        BY <1>1 DEF IsolationInv, ContentInv, TypeOK, Key
    <3>2. pc'[d] = pc[d] /\ loc'[d] = loc[d] /\ req'[d] = req[d]
        BY <1>3, <2>2
    <3>3. req[d].key \in Keys /\ Key(d) = req[d].key
        BY <3>1 DEF Key
    <3>4. Key(d)' = Key(d) /\ (Running(d)' <=> Running(d))
        BY <3>2 DEF Key, Running
    <3>5. Key(d) \in known' => Key(d) \in known /\ expect'[Key(d)] = expect[Key(d)]
        BY <1>2
    <3>6. d \in alone' => d \in alone
        BY <1>2, <2>2
    <3>7. CASE Key(d) \in strays' <=> Key(d) \in strays
        BY <1>2, <3>1, <3>2, <3>5, <3>6, <3>7, TrackKept
    <3>8. CASE ~(Key(d) \in strays' <=> Key(d) \in strays) /\ Running(d)
      <4>1. Key(d) = k /\ strays' # strays
          BY <1>2, <3>8
      <4>2. d \in Users(k)
          BY <3>8, <4>1 DEF Users, Uses
      <4>3. ~Sure(d)'
          BY <1>2, <3>4, <4>1, <4>2 DEF Sure
      <4> QED  BY <3>1, <3>2, <4>3, NothingSure
    <3> QED  BY <3>4, <3>7, <3>8, NothingToShow
  <2> QED  BY <2>1, <2>2
<1>6. ASSUME NEW m \in Keys, NEW d \in Calls, Busy(d, m)
      PROVE  Busy(d, m)'
  <2>1. d # c
      BY <1>2, <1>6 DEF Busy
  <2>2. pc'[d] = pc[d] /\ loc'[d] = loc[d] /\ Key(d)' = Key(d) /\ Op(d)' = Op(d)
      BY <1>3, <2>1 DEF Key, Op
  <2> QED  BY <1>6, <2>2 DEF Busy, InKeyLock, Running, Routing, Rebuilding
<1>7. known' \subseteq Keys
    BY <1>1, <1>2 DEF TypeOK
<1>8. IdleKeys'
  <2> SUFFICES ASSUME NEW m \in known', \A d \in Calls : ~Busy(d, m)'
               PROVE  Here(m)' = expect'[m]
      BY DEF IdleKeys
  <2>1. \A d \in Calls : ~Busy(d, m)
      BY <1>6, <1>7
  <2> QED  BY <1>1, <1>2, <1>3, <1>7, <2>1 DEF IdleKeys
<1>9. ValidatesMissing'
  <2> SUFFICES ASSUME NEW d \in Calls, NEW m \in known', InIndexUpdate(d)',
                      loc'[d].ret = "validated", loc'[d].cur = m
               PROVE  Here(m)' = {}
      BY DEF ValidatesMissing
  <2>1. d # c
      BY <1>2 DEF InIndexUpdate
  <2>2. InIndexUpdate(d) /\ loc[d].ret = "validated" /\ loc[d].cur = m
      BY <1>3, <2>1 DEF InIndexUpdate
  <2> QED  BY <1>1, <1>2, <1>3, <1>7, <2>2 DEF ValidatesMissing
<1>10. ASSUME NEW m \in Keys, NEW x, Entry(m, x)
       PROVE  Entry(m, x)'
  <2>1. ASSUME m \in known' \ swept', \A d \in Calls : ~Busy(d, m)'
        PROVE  x = IF expect'[m] = {} THEN None ELSE home'[m]
      BY <1>2, <1>6, <1>10, <2>1 DEF Entry
  <2>2. ASSUME NEW d \in Calls, Busy(d, m)', pc'[d] = "return",
               d \in alone' \/ m \in known' \ swept'
        PROVE  x = IF Op(d)' = "delete" THEN None ELSE Target(d)'
    <3>1. d # c
        BY <1>2, <2>2
    <3>2. /\ pc'[d] = pc[d] /\ loc'[d] = loc[d] /\ Key(d)' = Key(d) /\ Op(d)' = Op(d)
          /\ Target(d)' = Target(d)
        BY <1>3, <3>1 DEF Key, Op, Target
    <3>3. Busy(d, m)
        BY <2>2, <3>2 DEF Busy, InKeyLock, Running, Routing, Rebuilding
    <3> QED  BY <1>2, <1>10, <2>2, <3>1, <3>2, <3>3 DEF Entry
  <2> QED  BY <2>1, <2>2 DEF Entry
<1>11. Entries'
  <2>1. ASSUME NEW m \in Keys, NEW x, x = index'[m]
        PROVE  Entry(m, x)'
      BY <1>1, <1>2, <1>10, <2>1 DEF Entries
  <2>2. ASSUME NEW d \in Calls, NEW m \in Keys, pc'[d] = "saveIndex", m # Edited(d)',
               NEW x, x = loc'[d].snap[m]
        PROVE  Entry(m, x)'
    <3>1. d # c
        BY <1>2, <2>2
    <3>2. pc[d] = "saveIndex" /\ loc'[d] = loc[d] /\ Edited(d)' = Edited(d)
        BY <1>3, <2>2, <3>1 DEF Edited, Key
    <3> QED  BY <1>1, <1>10, <2>2, <3>2 DEF Entries
  <2> QED  BY <2>1, <2>2 DEF Entries, Entry
<1>12. ASSUME NEW d \in Calls
       PROVE  Rebuilt(d)'
  <2>1. CASE d = c
      BY <1>2, <2>1 DEF Rebuilt
  <2>2. CASE d # c
    <3>1. Rebuilt(d) /\ pc'[d] = pc[d] /\ loc'[d] = loc[d]
        BY <1>3, <2>2 DEF IsolationInv
    <3> QED  BY <1>2, <1>3, <3>1 DEF Rebuilt
  <2> QED  BY <2>1, <2>2
<1>13. SeenHome'
  <2> SUFFICES ASSUME NEW d \in Calls, NEW m \in known', Validating(d)', pc'[d] # "loadSeen"
               PROVE  loc'[d].seen[m] \in {None, home'[m]}
      BY DEF SeenHome
  <2>1. d # c
      BY <1>2 DEF Validating, InIndexUpdate
  <2>2. pc'[d] = pc[d] /\ loc'[d] = loc[d] /\ Validating(d)
      BY <1>3, <2>1 DEF Validating, InIndexUpdate
  <2> QED  BY <1>1, <1>2, <2>2 DEF SeenHome
<1> QED  BY <1>4, <1>5, <1>8, <1>9, <1>11, <1>12, <1>13 DEF IsolationInv, ContentInv

LEMMA CrashIsolation ==
    ASSUME IsolationInv, Crash
    PROVE  IsolationInv'
<1>1. /\ TypeOK /\ LockDiscipline /\ Places /\ Signposts /\ IdleKeys /\ Entries
    BY DEF IsolationInv, ContentInv, OrderInv, CopyInv
<1>2. /\ UNCHANGED <<store, schema, index, swept, home, strays>> /\ alone' = {}
      /\ loc' = [c \in Calls |-> FreshLocals]
      /\ known' = known \ {Key(c) : c \in {d \in Calls : Running(d) /\ Op(d) # "get"}}
    BY DEF Crash, files
<1>3. \A c \in Calls : pc'[c] \in {"idle", "done"}
    BY <1>1 DEF Crash, TypeOK, Running
<1>4. \A c \in Calls : ~Running(c)'
    BY <1>3 DEF Running
<1>5. OrderInv'
  <2>1. CopyInv'
      BY <1>1, CrashTyped, CrashLocks, CrashCopies DEF CopyInv
  <2>2. Places'
    <3>1. \A c \in Calls : loc'[c].snap = NoPaths /\ loc'[c].seen = NoPaths
        BY <1>2 DEF FreshLocals
    <3> QED  BY <1>1, <1>2, <3>1, NothingPlaced DEF Places, Placed
  <2>3. KnownCompatible' /\ NoRebuildBeside'
      BY <1>2, <1>4 DEF KnownCompatible, NoRebuildBeside
  <2>4. \A c \in Calls : OpOfLabel(c)'
      BY <1>3 DEF OpOfLabel, Routing, Rebuilding, InIndexUpdate
  <2>5. Aims'
      BY <1>4 DEF Aims
  <2>6. Signposts'
      BY <1>1, <1>2, <1>3, <1>4 DEF Signposts, Rebuilding
  <2> QED  BY <2>1, <2>2, <2>3, <2>4, <2>5, <2>6 DEF OrderInv
<1>6. \A c \in Calls : OnTrack(c)'
    BY <1>4, NothingToShow
<1>7. ASSUME NEW k \in known'
      PROVE  /\ k \in known /\ k \in Keys /\ expect'[k] = expect[k]
             /\ \A c \in Calls : ~Busy(c, k)
  <2>1. k \in known /\ k \in Keys
      BY <1>1, <1>2 DEF TypeOK
  <2>2. expect'[k] = expect[k]
      BY <2>1 DEF Crash, Forget
  <2>3. \A c \in Calls : Busy(c, k) => Running(c) /\ Op(c) # "get" /\ Key(c) = k
      BY DEF Busy, InKeyLock
  <2> QED  BY <1>2, <2>1, <2>2, <2>3
<1>8. IdleKeys'
    BY <1>1, <1>2, <1>7 DEF IdleKeys, Here
<1>9. ValidatesMissing' /\ SeenHome' /\ \A c \in Calls : Rebuilt(c)'
    BY <1>3 DEF ValidatesMissing, SeenHome, Validating, InIndexUpdate, Rebuilt
<1>10. Entries'
  <2>1. ASSUME NEW k \in Keys, NEW x, x = index'[k]
        PROVE  Entry(k, x)'
    <3>1. Entry(k, x)
        BY <1>1, <1>2, <2>1 DEF Entries
    <3>2. \A c \in Calls : ~Busy(c, k)'
        BY <1>4 DEF Busy
    <3> QED  BY <1>2, <1>7, <3>1, <3>2 DEF Entry
  <2> QED  BY <1>3, <2>1 DEF Entries, Entry
<1> QED  BY <1>5, <1>6, <1>8, <1>9, <1>10 DEF IsolationInv, ContentInv

LEMMA InitIsolation == Init => IsolationInv
<1> SUFFICES ASSUME Init  PROVE IsolationInv
    OBVIOUS
<1>1. /\ \A c \in Calls : pc[c] = "idle" /\ loc[c] = FreshLocals
      /\ alone = {} /\ swept = {} /\ strays = {}
    BY DEF Init
<1> DEFINE listed(s) == [k \in Keys |-> IF k \in s.keys THEN s.home[k] ELSE None]
           held(s) == [k \in Keys |-> IF k \in s.keys THEN {Old} ELSE {}]
<1>2. PICK s \in Starts :
        /\ store = [a \in Adapters |-> [k \in Keys |->
              IF s.home[k] = a THEN held(s)[k] ELSE {}]]
        /\ schema = [exists |-> s.schema,
                     paths |-> IF s.schema THEN listed(s) ELSE NoPaths]
        /\ index = listed(s)
        /\ expect = held(s)
        /\ home = s.home
    BY DEF Init
<1>3. \A c \in Calls : ~Running(c)
    BY <1>1 DEF Running
<1>4. \A k \in Keys : /\ Here(k) = expect[k]
                      /\ index[k] = IF expect[k] = {} THEN None ELSE home[k]
    BY <1>2, RouterAssumption DEF Here
<1>5. Places
  <2>1. Placed(index) /\ Placed(schema.paths)
      BY <1>2, NothingPlaced DEF Placed
  <2>2. \A c \in Calls : Placed(loc[c].snap) /\ Placed(loc[c].seen)
      BY <1>1, NothingPlaced DEF FreshLocals
  <2>3. \A a \in Adapters, k \in Keys : a # home[k] => store[a][k] = {}
      BY <1>2
  <2> QED  BY <2>1, <2>2, <2>3 DEF Places
<1>6. OrderInv
  <2>1. CopyInv
      BY InitTyped, InitLocks, InitCopies DEF CopyInv
  <2>2. KnownCompatible /\ NoRebuildBeside
      BY <1>1, <1>3 DEF KnownCompatible, NoRebuildBeside
  <2>3. \A c \in Calls : OpOfLabel(c)
      BY <1>1 DEF OpOfLabel, Routing, Rebuilding, InIndexUpdate
  <2>4. Aims /\ Signposts
      BY <1>1, <1>3 DEF Aims, Signposts
  <2> QED  BY <1>5, <2>1, <2>2, <2>3, <2>4 DEF OrderInv
<1>7. \A c \in Calls : OnTrack(c)
  <2> SUFFICES ASSUME NEW c \in Calls
               PROVE  Located(c) /\ Progress(c)
      BY DEF OnTrack
  <2>1. pc[c] = "idle" /\ ~Written(c) /\ ~InKeyLock(c)
      BY <1>1, <1>3 DEF Written, InKeyLock, Routing, Rebuilding, InIndexUpdate
  <2> QED  BY <2>1 DEF Located, Progress, InIndexUpdate
<1>8. known \subseteq Keys
    BY InitTyped DEF TypeOK
<1>9. IdleKeys /\ ValidatesMissing /\ SeenHome /\ \A c \in Calls : Rebuilt(c)
    BY <1>1, <1>4, <1>8
       DEF IdleKeys, ValidatesMissing, SeenHome, Validating, InIndexUpdate, Rebuilt
<1>10. Entries
    BY <1>1, <1>3, <1>4 DEF Entries, Entry, Busy
<1> QED  BY <1>6, <1>7, <1>9, <1>10 DEF IsolationInv, ContentInv

LEMMA StutterIsolation ==
    ASSUME IsolationInv, UNCHANGED vars
    PROVE  IsolationInv'
<1>1. /\ UNCHANGED <<store, schema, index, locks, pc, req, loc>>
      /\ UNCHANGED <<expect, known, swept, alone, home, strays>>
    BY DEF vars, files, history
<1>2. OrderInv'
  <2>1. CopyInv'
    <3>1. LockDiscipline'
        BY <1>1 DEF IsolationInv, ContentInv, OrderInv, CopyInv, LockDiscipline, InKeyLock,
           Running, Routing, Rebuilding, Key, Op
    <3> QED  BY <3>1, StutterTyped, StutterCopies
             DEF IsolationInv, ContentInv, OrderInv, CopyInv
  <2>2. Places'
      BY <1>1 DEF IsolationInv, ContentInv, OrderInv, Places, Placed
  <2>3. KnownCompatible' /\ NoRebuildBeside'
      BY <1>1 DEF IsolationInv, ContentInv, OrderInv, KnownCompatible, NoRebuildBeside,
         Running, Validating, InIndexUpdate, Rebuilding, Key, Op
  <2>4. \A c \in Calls : OpOfLabel(c)'
      BY <1>1 DEF IsolationInv, ContentInv, OrderInv, OpOfLabel, Routing, Rebuilding,
         InIndexUpdate, Op
  <2>5. Aims' /\ Signposts'
      BY <1>1 DEF IsolationInv, ContentInv, OrderInv, Aims, Signposts, Running, Rebuilding,
         Key, Op, Target
  <2> QED  BY <2>1, <2>2, <2>3, <2>4, <2>5 DEF OrderInv
<1>3. ASSUME NEW c \in Calls
      PROVE  OnTrack(c)'
  <2>1. OnTrack(c)
      BY DEF IsolationInv, ContentInv
  <2> QED  BY <1>1, <2>1, TrackKept
<1>4. \A c \in Calls : OnTrack(c)'
    BY <1>3
<1>5. IdleKeys' /\ ValidatesMissing'
    BY <1>1 DEF IsolationInv, ContentInv, IdleKeys, ValidatesMissing, InIndexUpdate, Here,
       Busy, InKeyLock, Running, Routing, Rebuilding, Key, Op
<1>6. Entries' /\ SeenHome'
    BY <1>1 DEF IsolationInv, Entries, Entry, Edited, Busy, InKeyLock, Running, Routing,
       Rebuilding, Key, Op, Target, SeenHome, Validating, InIndexUpdate
<1>7. \A c \in Calls : Rebuilt(c)'
    BY <1>1 DEF IsolationInv, Rebuilt, Here
<1> QED  BY <1>2, <1>4, <1>5, <1>6, <1>7 DEF IsolationInv, ContentInv

LEMMA NextIsolation ==
    ASSUME IsolationInv, [Next]_vars
    PROVE  IsolationInv'
<1>1. CASE \E c \in Calls, op \in OpNames, k \in Keys : \E to \in Targets(op, k) : Start(c, op, k, to)
    BY <1>1, StartIsolation
<1>2. CASE \E c \in Calls : Step(c) \/ Failure(c)
    BY <1>2, StepIsolation
<1>3. CASE Crash
    BY <1>3, CrashIsolation
<1>4. CASE UNCHANGED vars
    BY <1>4, StutterIsolation
<1> QED  BY <1>1, <1>2, <1>3, <1>4 DEF Next, Finished

\* When nobody works on a key, its adapter holds exactly what the calls that
\* returned put there and the key index lists it iff it exists: no call on another
\* key, no failure of another call and no crash gets in between.
THEOREM KeysKeepTheirContent == Spec => []KeysAreIsolated
<1>1. IsolationInv => KeysAreIsolated
  <2> SUFFICES ASSUME IsolationInv, NEW k \in Keys, Settled(k)
               PROVE  /\ store[home[k]][k] = expect[k]
                      /\ index[k] = IF expect[k] = {} THEN None ELSE home[k]
      BY DEF KeysAreIsolated
  <2>1. k \in known \ swept /\ \A c \in Calls : ~Busy(c, k)
      BY DEF Settled, Users, Uses, Busy
  <2>2. store[home[k]][k] = expect[k]
      BY <2>1 DEF IsolationInv, ContentInv, IdleKeys, Here
  <2>3. index[k] = IF expect[k] = {} THEN None ELSE home[k]
      BY <2>1 DEF IsolationInv, Entries, Entry
  <2> QED  BY <2>2, <2>3
<1> QED  BY <1>1, InitIsolation, NextIsolation, PTL DEF Spec

\* A get that no writer of its key overlaps returns what the key holds, whatever
\* the calls on other keys do meanwhile.
THEOREM GetsAreCurrent == Spec => []GetReturnsLatest
<1>1. IsolationInv => GetReturnsLatest
  <2> SUFFICES ASSUME IsolationInv, NEW c \in Calls, pc[c] = "return", Op(c) = "get",
                      Key(c) \in known
               PROVE  loc[c].val = expect[Key(c)]
      BY DEF GetReturnsLatest
  <2> QED  BY DEF IsolationInv, ContentInv, OnTrack, Progress
<1> QED  BY <1>1, InitIsolation, NextIsolation, PTL DEF Spec

-----------------------------------------------------------------------------
(* Who loses index entries.                                                 *)

\* An entry of the index disappears only by the call that edits it, by a rebuild,
\* or by a call whose copy of the index a rebuild may have made stale.
EntryLosses ==
    [][\A k \in Keys :
         index[k] # None /\ index'[k] = None =>
             \E c \in Calls :
                 \/ pc[c] = "saveIndex" /\ (Edited(c) = k \/ Key(c) \in swept)
                 \/ pc[c] = "rebuildIndex"]_vars

\* Only two places of the code write the index.
LEMMA IndexWriters ==
    ASSUME [Next]_vars, index' # index
    PROVE  \E c \in Calls : SaveIndex(c) \/ RebuildIndex(c)
<1>1. ASSUME NEW c \in Calls, Step(c) \/ Failure(c)
      PROVE  SaveIndex(c) \/ RebuildIndex(c)
    BY <1>1 DEF Step, Failure, TakeKeyLock, Scan, ReadSchema, MissSchema, RebuildScan,
       RebuildSchema, RebuildFails, ReadLocated, CheckIndex, ReadTarget, Store, Remove,
       SavePaths, TakeIndexLock, LoadIndex, GoOn, ThrowInSet, ThrowToCaller, Rethrow, Leave,
       LoadSeen, Validate, Validated, Return, files
<1>2. ~(\E c \in Calls, op \in OpNames, k \in Keys : \E to \in Targets(op, k) : Start(c, op, k, to))
    BY DEF Start, files
<1>3. ~Crash /\ ~UNCHANGED vars
    BY DEF Crash, vars, files
<1> QED  BY <1>1, <1>2, <1>3 DEF Next, Finished

\* The race that loses entries (IndexEntriesKept) is the one with rebuilds: while
\* no rebuild runs, the lock of the index keeps each entry but the edited one.
THEOREM OnlyRebuildsLoseEntries == Spec => EntryLosses
<1> DEFINE Lost(k) == index[k] # None /\ index'[k] = None
           Loser(k) == \E c \in Calls :
                 \/ pc[c] = "saveIndex" /\ (Edited(c) = k \/ Key(c) \in swept)
                 \/ pc[c] = "rebuildIndex"
<1>1. ASSUME IsolationInv, [Next]_vars, NEW k \in Keys, Lost(k) PROVE Loser(k)
  <2>1. PICK c \in Calls : SaveIndex(c) \/ RebuildIndex(c)
      BY <1>1, IndexWriters
  <2>2. CASE RebuildIndex(c)
      BY <2>2 DEF RebuildIndex
  <2>3. CASE SaveIndex(c) /\ Key(c) \notin swept
    <3>1. loc[c].snap = index /\ index \in Paths
        BY <1>1, <2>3 DEF SaveIndex, IsolationInv, ContentInv, OrderInv, CopyInv, TypeOK,
           IndexCopyCurrent
    <3>2. k # Edited(c) => index'[k] = index[k]
        BY <2>3, <3>1 DEF SaveIndex, Paths
    <3> QED  BY <1>1, <2>3, <3>2 DEF SaveIndex
  <2>4. CASE SaveIndex(c) /\ Key(c) \in swept
      BY <2>4 DEF SaveIndex
  <2> QED  BY <2>1, <2>2, <2>3, <2>4
<1>2. ASSUME IsolationInv, [Next]_vars PROVE [\A k \in Keys : Lost(k) => Loser(k)]_vars
    BY <1>1, <1>2
<1> QED  BY <1>2, InitIsolation, NextIsolation, PTL DEF Spec, EntryLosses
=============================================================================
