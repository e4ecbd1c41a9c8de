---------------------------- MODULE SmartRouter ----------------------------
(***************************************************************************)
(* One collection of a Smallstore: the data spread over the adapters, the  *)
(* collection's schema and its key index, and concurrent calls of set      *)
(* (overwrite, append), patch, get and delete (src/router.ts).             *)
(*                                                                         *)
(* A step is the code between two awaits.  A stored value is the set of    *)
(* the calls whose data it contains: overwrite stores {c}, append and      *)
(* patch add c to what they read, {} is "the adapter returns null"; `Old'  *)
(* stands for everything stored before the first call of the model.        *)
(* Adapters copy what they return, so `snap' is a copy that ages.          *)
(*                                                                         *)
(* routeData picks the adapter of each set anew, by its options, the       *)
(* collection's metadata and the type and size of the data; the copy that  *)
(* an adapter picked before may hold is not deleted.                       *)
(***************************************************************************)
EXTENDS Naturals, Sequences, FiniteSets

CONSTANTS
    Calls,        \* the calls clients make; each is made at most once
    Old,          \* the mark of data stored by calls made before
    Keys,         \* the storage keys of the collection
    FlatKeys,     \* the keys with exactly one path segment
    Adapters,     \* the configured adapters
    AdapterSeq,   \* their order in the configuration object
    Default,      \* the default adapter
    Routes,       \* the adapters routeData may pick for each key
    Starts,       \* what may be stored at the start: the keys, a schema or not, and
                  \* the adapter of each key
    IndexLock,    \* the name "__keyindex__:<collection>"
    Free,         \* a lock nobody holds
    None          \* no adapter

ASSUME RouterAssumption ==
    /\ Keys # {} /\ FlatKeys \subseteq Keys
    /\ AdapterSeq \in Seq(Adapters) /\ AdapterSeq # <<>>
    /\ Default \in Adapters
    /\ Routes \in [Keys -> SUBSET Adapters]
    /\ Starts \subseteq [keys : SUBSET Keys, schema : BOOLEAN, home : [Keys -> Adapters]]
    /\ IndexLock \notin Keys
    /\ Free \notin Calls
    /\ Old \notin Calls
    /\ None \notin Adapters

ASSUME EveryAdapterListed ==
    \A a \in Adapters : \E i \in 1..Len(AdapterSeq) : AdapterSeq[i] = a

VARIABLES
    store,    \* what each adapter holds under each key
    schema,   \* the schema file: does it exist, and its path -> adapter map
    index,    \* the key index file: key -> adapter
    locks,    \* keyLock: the key locks and the key index lock
    pc,       \* where each call is
    req,      \* what each call asks for
    loc,      \* the local variables of each call
    expect,   \* history: what a key holds by the calls that returned
    known,    \* history: keys whose content the returned calls determine
    swept,    \* history: keys a rebuild of the metadata may have missed
    alone,    \* history: running calls no other call on their key overlapped
    home,     \* history: the adapter of each key, by the calls that returned
    strays    \* history: keys that a set was routed away from home

files == <<store, schema, index>>
history == <<expect, known, swept, alone, home, strays>>
vars == <<files, locks, pc, req, loc, history>>

-----------------------------------------------------------------------------
Data == SUBSET (Calls \cup {Old})
LockNames == Keys \cup {IndexLock}
Location == Adapters \cup {None}
Paths == [Keys -> Location]
NoPaths == [k \in Keys |-> None]

OpNames == {"overwrite", "append", "patch", "get", "delete"}
Setters == {"overwrite", "append", "patch"}
Locked == {"append", "patch"}

PCs == {"idle", "takeKeyLock", "getSchema", "rebuild", "rebuildSchema",
        "rebuildIndex", "scan", "readLocated", "checkIndex", "readTarget",
        "store", "remove", "savePaths",
        "takeIndexLock", "loadIndex", "saveIndex", "loadSeen", "validate",
        "return", "done"}

\* Where a shared handler returns to.
Returns == {"route", "locate", "savePaths", "added", "dropped", "cleaned",
            "validated"}

Locals == [at : Adapters,           \* the adapter getAdapterForKey found
           pos : 1..Len(AdapterSeq), \* position in a loop over the adapters
           val : Data,              \* data read, or about to be stored
           snap : Paths,            \* copy of the schema's paths or the index
           seen : Paths,            \* index entries still to be validated
           cur : Keys,              \* the entry a validation removes
           ret : Returns]

TypeOK ==
    /\ store \in [Adapters -> [Keys -> Data]]
    /\ schema \in [exists : BOOLEAN, paths : Paths]
    /\ index \in Paths
    /\ locks \in [LockNames -> Calls \cup {Free}]
    /\ pc \in [Calls -> PCs]
    /\ req \in [Calls -> [op : OpNames, key : Keys, to : Adapters]]
    /\ loc \in [Calls -> Locals]
    /\ expect \in [Keys -> Data]
    /\ known \in SUBSET Keys
    /\ swept \in SUBSET Keys
    /\ alone \in SUBSET Calls
    /\ home \in [Keys -> Adapters]
    /\ strays \in SUBSET Keys

SomeKey == CHOOSE k \in Keys : TRUE

NoRequest == [op |-> "get", key |-> SomeKey, to |-> Default]

FreshLocals == [at |-> Default, pos |-> 1, val |-> {}, snap |-> NoPaths,
                seen |-> NoPaths, cur |-> SomeKey, ret |-> "locate"]

\* A collection nobody works on: its keys are absent or present, the key index
\* lists those present, and the schema knows them or does not exist.
Init ==
    \E s \in Starts :
        LET listed == [k \in Keys |-> IF k \in s.keys THEN s.home[k] ELSE None]
            held == [k \in Keys |-> IF k \in s.keys THEN {Old} ELSE {}]
        IN
        /\ store = [a \in Adapters |-> [k \in Keys |->
                        IF s.home[k] = a THEN held[k] ELSE {}]]
        /\ schema = [exists |-> s.schema,
                     paths |-> IF s.schema THEN listed ELSE NoPaths]
        /\ index = listed
        /\ expect = held
        /\ home = s.home
    /\ locks = [n \in LockNames |-> Free]
    /\ pc = [c \in Calls |-> "idle"]
    /\ req = [c \in Calls |-> NoRequest]
    /\ loc = [c \in Calls |-> FreshLocals]
    /\ known = Keys
    /\ swept = {}
    /\ alone = {}
    /\ strays = {}

-----------------------------------------------------------------------------
Goto(c, label) == pc' = [pc EXCEPT ![c] = label]

Key(c) == req[c].key
Op(c) == req[c].op
Target(c) == req[c].to  \* what routeData picks, if the call sets

Running(c) == pc[c] \notin {"idle", "done"}

Rebuilding(c) == pc[c] \in {"rebuild", "rebuildSchema", "rebuildIndex"}

InIndexUpdate(c) == pc[c] \in {"takeIndexLock", "loadIndex", "saveIndex"}

Validating(c) ==
    \/ pc[c] \in {"loadSeen", "validate"}
    \/ InIndexUpdate(c) /\ loc[c].ret = "validated"

\* A validation may remove any entry of the index.
Uses(c, k) == Running(c) /\ (Key(c) = k \/ Validating(c))

Users(k) == {c \in Calls : Uses(c, k)}

\* Overlapping calls after which the content of the key is still determined.
Compatible(c, op) ==
    /\ ~Validating(c)
    /\ \/ Op(c) \in Locked /\ op \in Locked
       \/ Op(c) = "get" /\ op = "get"

\* What a key holds is forgotten when it is no longer known.
Forget == expect' = [k \in Keys |-> IF k \in known' THEN expect[k] ELSE {}]

-----------------------------------------------------------------------------
(* What follows once set knows its adapter: append takes the key lock, the  *)
(* others store.  The data of a patch was merged before.                   *)
Routed(c, op) ==
    IF op = "append"
    THEN /\ Goto(c, "takeKeyLock")
         /\ UNCHANGED loc
    ELSE /\ Goto(c, "store")
         /\ loc' = [loc EXCEPT ![c].val = IF op = "overwrite" THEN {c} ELSE @]

\* getSchema is called by routeData, getAdapterForKey and the two RMW handlers.
CallGetSchema(c, from) ==
    /\ Goto(c, "getSchema")
    /\ loc' = [loc EXCEPT ![c] = [FreshLocals EXCEPT
                  !.ret = from,
                  !.val = IF from = "route" THEN loc[c].val ELSE {}]]

Targets(op, k) == IF op \in Setters THEN Routes[k] ELSE {Default}

(* Entry of the operations.  A set with an explicit adapter option does    *)
(* not read the collection metadata (routeData, priority 1).               *)
Start(c, op, k, to) ==
    /\ pc[c] = "idle"
    /\ req' = [req EXCEPT ![c] = [op |-> op, key |-> k, to |-> to]]
    /\ \/ op \in {"overwrite", "append"} /\ CallGetSchema(c, "route")
       \/ op \in {"overwrite", "append"} /\ Routed(c, op)
       \/ op = "patch" /\ Goto(c, "takeKeyLock") /\ UNCHANGED loc
       \/ op \in {"get", "delete"} /\ CallGetSchema(c, "locate")
    /\ LET rebuilders == {d \in Calls : Rebuilding(d)}
           away == op \in Setters /\ to # home[k]
       IN
         /\ strays' = IF away THEN strays \cup {k} ELSE strays
         /\ known' = IF /\ \A d \in Users(k) : Compatible(d, op)
                       /\ ~away /\ ~(op = "delete" /\ k \in strays)
                     THEN known ELSE known \ {k}
         /\ swept' = IF rebuilders = {} THEN swept ELSE swept \cup {k}
         /\ alone' = (IF Users(k) \cup rebuilders = {}
                      THEN alone \cup {c} ELSE alone) \ Users(k)
    /\ Forget
    /\ UNCHANGED <<files, locks, home>>

\* Mutant: the read-modify-write of append and patch takes no lock.
TakeKeyLockUntested(c) ==
    /\ pc[c] = "takeKeyLock"
    /\ IF Op(c) = "append"
       THEN Goto(c, "readTarget") /\ UNCHANGED loc
       ELSE CallGetSchema(c, "locate")
    /\ UNCHANGED <<files, locks, req, history>>

\* keyLock.acquire(`${collection}:${key}`)
TakeKeyLock(c) ==
    /\ pc[c] = "takeKeyLock"
    /\ locks[Key(c)] = Free
    /\ locks' = [locks EXCEPT ![Key(c)] = c]
    /\ IF Op(c) = "append"
       THEN Goto(c, "readTarget") /\ UNCHANGED loc
       ELSE CallGetSchema(c, "locate")
    /\ UNCHANGED <<files, req, history>>

-----------------------------------------------------------------------------
(* getAdapterForKey: the schema's path entry, else the first adapter that  *)
(* has the key, else the default adapter.                                  *)
Found(c, a) ==
    /\ loc' = [loc EXCEPT ![c].at = a, ![c].pos = 1, ![c].snap = NoPaths,
                             ![c].ret = "locate"]
    /\ Goto(c, IF Op(c) = "delete" THEN "remove" ELSE "readLocated")

Scan(c) ==
    /\ pc[c] = "scan"
    /\ LET a == AdapterSeq[loc[c].pos] IN
       IF store[a][Key(c)] # {} THEN Found(c, a)
       ELSE IF loc[c].pos = Len(AdapterSeq) THEN Found(c, Default)
       ELSE /\ loc' = [loc EXCEPT ![c].pos = @ + 1]
            /\ UNCHANGED pc
    /\ UNCHANGED <<files, locks, req, history>>

\* Mutant: getAdapterForKey looks for the key in the adapters alone.
NoPathEntry(c, paths) == None

\* The paths of nested keys are spelled so that getAdapterForKey finds none of them.
PathEntry(c, paths) == IF Key(c) \in FlatKeys THEN paths[Key(c)] ELSE None

\* getSchema returned these paths to routeData, getAdapterForKey or a handler.
GotSchema(c, paths) ==
    \/ /\ loc[c].ret = "route"
       /\ Goto(c, IF Op(c) = "append" THEN "takeKeyLock" ELSE "store")
       /\ loc' = [loc EXCEPT
              ![c].snap = NoPaths,
              ![c].val = IF Op(c) = "overwrite" THEN {c} ELSE @]
    \/ /\ loc[c].ret = "locate"
       /\ IF PathEntry(c, paths) # None
          THEN Found(c, PathEntry(c, paths))
          ELSE /\ Goto(c, "scan")
               /\ loc' = [loc EXCEPT ![c].snap = NoPaths, ![c].pos = 1]
    \/ /\ loc[c].ret = "savePaths"
       /\ Goto(c, "savePaths")
       /\ loc' = [loc EXCEPT ![c].snap = paths, ![c].pos = 1]

-----------------------------------------------------------------------------
(* getSchema, and reconstructMetadata when there is no schema.             *)
ReadSchema(c) ==
    /\ pc[c] = "getSchema"
    /\ schema.exists
    /\ GotSchema(c, schema.paths)
    /\ UNCHANGED <<files, locks, req, history>>

MissSchema(c) ==
    /\ pc[c] = "getSchema"
    /\ ~schema.exists
    /\ loc' = [loc EXCEPT ![c].pos = 1, ![c].snap = NoPaths]
    /\ Goto(c, "rebuild")
    /\ LET others == {d \in Calls \ {c} : Running(d)} IN
         /\ swept' = swept \cup {Key(d) : d \in others}
         /\ alone' = alone \ others
    /\ UNCHANGED <<files, locks, req, expect, known, home, strays>>

(* List one adapter and index what it holds; an adapter that throws is     *)
(* skipped, and so is a key whose read throws or finds nothing any more.   *)
RebuildScan(c) ==
    /\ pc[c] = "rebuild"
    /\ LET a == AdapterSeq[loc[c].pos]
           held == {k \in Keys : store[a][k] # {}}
           last == loc[c].pos = Len(AdapterSeq) IN
       /\ \E missed \in SUBSET held :
            /\ loc' = [loc EXCEPT
                 ![c].pos = IF last THEN 1 ELSE @ + 1,
                 ![c].snap = [k \in Keys |->
                                IF k \in held \ missed THEN a ELSE @[k]]]
            /\ swept' = swept \cup missed
       /\ Goto(c, IF last THEN "rebuildSchema" ELSE "rebuild")
    /\ UNCHANGED <<files, locks, req, expect, known, alone, home, strays>>

\* All the rebuilt paths are spelled so that getAdapterForKey finds none of them.
RebuildSchema(c) ==
    /\ pc[c] = "rebuildSchema"
    /\ schema' = [exists |-> TRUE, paths |-> NoPaths]
    /\ Goto(c, "rebuildIndex")
    /\ UNCHANGED <<store, index, locks, req, loc, history>>

\* saveIndex without the key index lock.
RebuildIndex(c) ==
    /\ pc[c] = "rebuildIndex"
    /\ index' = loc[c].snap
    /\ GotSchema(c, NoPaths)
    /\ UNCHANGED <<store, schema, locks, req, history>>

\* getSchema catches a failed rebuild and goes on with an empty schema.
RebuildFails(c) ==
    /\ Rebuilding(c)
    /\ GotSchema(c, NoPaths)
    /\ UNCHANGED <<files, locks, req, history>>

-----------------------------------------------------------------------------
(* get, alone or inside patch.                                             *)

\* What follows the get: the caller has its answer, or patch calls set.
GotData(c, v) ==
    IF Op(c) = "get"
    THEN /\ loc' = [loc EXCEPT ![c] = [FreshLocals EXCEPT !.val = v]]
         /\ Goto(c, "return")
    ELSE /\ loc' = [loc EXCEPT ![c] = [FreshLocals EXCEPT !.val = v \cup {c},
                                                          !.ret = "route"]]
         /\ \/ Goto(c, "getSchema")
            \/ Goto(c, "store")    \* explicit adapter option

ReadLocated(c) ==
    /\ pc[c] = "readLocated"
    /\ LET v == store[loc[c].at][Key(c)] IN
       IF v = {}
       THEN Goto(c, "checkIndex") /\ UNCHANGED loc
       ELSE GotData(c, v)
    /\ UNCHANGED <<files, locks, req, history>>

\* Auto-cleanup: no data but an index entry.
CheckIndex(c) ==
    /\ pc[c] = "checkIndex"
    /\ IF index[Key(c)] # None
       THEN /\ loc' = [loc EXCEPT ![c].ret = "cleaned"]
            /\ Goto(c, "takeIndexLock")
       ELSE GotData(c, {})
    /\ UNCHANGED <<files, locks, req, history>>

-----------------------------------------------------------------------------
(* set: read the existing data under the lock, store, update the metadata.  *)
ReadTarget(c) ==
    /\ pc[c] = "readTarget"
    /\ loc' = [loc EXCEPT ![c].val = store[Target(c)][Key(c)] \cup {c}]
    /\ Goto(c, "store")
    /\ UNCHANGED <<files, locks, req, history>>

\* adapter.set; a retryable error after the effect repeats it.
Store(c) ==
    /\ pc[c] = "store"
    /\ store' = [store EXCEPT ![Target(c)][Key(c)] = loc[c].val]
    /\ \/ CallGetSchema(c, "savePaths")
       \/ UNCHANGED <<pc, loc>>
    /\ UNCHANGED <<schema, index, locks, req, history>>

\* adapter.delete, likewise.
Remove(c) ==
    /\ pc[c] = "remove"
    /\ store' = [store EXCEPT ![loc[c].at][Key(c)] = {}]
    /\ \/ CallGetSchema(c, "savePaths")
       \/ UNCHANGED <<pc, loc>>
    /\ UNCHANGED <<schema, index, locks, req, history>>

\* updateMetadata and removeFromMetadata: no lock around read and write.
SavePaths(c) ==
    /\ pc[c] = "savePaths"
    /\ schema' = [exists |-> TRUE,
                  paths |-> [loc[c].snap EXCEPT
                      ![Key(c)] = IF Op(c) = "delete" THEN None ELSE Target(c)]]
    /\ loc' = [loc EXCEPT
                 ![c].snap = NoPaths,
                 ![c].ret = IF Op(c) = "delete" THEN "dropped" ELSE "added"]
    /\ Goto(c, "takeIndexLock")
    /\ known' = known \ {k \in strays \ {Key(c)} : loc[c].snap[k] # schema.paths[k]}
    /\ Forget
    /\ UNCHANGED <<store, index, locks, req, swept, alone, home, strays>>

-----------------------------------------------------------------------------
(* updateKeyIndex and removeFromKeyIndex, under the key index lock.        *)
\* Mutant: the index is read and written back without its lock.
TakeIndexLockUntested(c) ==
    /\ pc[c] = "takeIndexLock"
    /\ locks' = [locks EXCEPT ![IndexLock] = c]
    /\ Goto(c, "loadIndex")
    /\ UNCHANGED <<files, req, loc, history>>

TakeIndexLock(c) ==
    /\ pc[c] = "takeIndexLock"
    /\ locks[IndexLock] = Free
    /\ locks' = [locks EXCEPT ![IndexLock] = c]
    /\ Goto(c, "loadIndex")
    /\ UNCHANGED <<files, req, loc, history>>

LoadIndex(c) ==
    /\ pc[c] = "loadIndex"
    /\ loc' = [loc EXCEPT ![c].snap = index]
    /\ Goto(c, "saveIndex")
    /\ UNCHANGED <<files, locks, req, history>>

Edited(c) == IF loc[c].ret = "validated" THEN loc[c].cur ELSE Key(c)

\* Mutant: the index maps a key to a set of adapters.
SaveIndexMistyped(c) ==
    /\ pc[c] = "saveIndex"
    /\ index' = [loc[c].snap EXCEPT ![Edited(c)] = {Target(c)}]
    /\ locks' = [locks EXCEPT ![IndexLock] = Free]
    /\ loc' = [loc EXCEPT ![c].snap = NoPaths]
    /\ Goto(c, "return")
    /\ UNCHANGED <<store, schema, req, history>>

SaveIndex(c) ==
    /\ pc[c] = "saveIndex"
    /\ index' = [loc[c].snap EXCEPT
                   ![Edited(c)] = IF loc[c].ret = "added"
                                  THEN Target(c) ELSE None]
    /\ locks' = [locks EXCEPT ![IndexLock] = Free]
    /\ CASE loc[c].ret = "validated" ->
              /\ loc' = [loc EXCEPT ![c].snap = NoPaths]
              /\ Goto(c, "validate")
         [] loc[c].ret = "cleaned" ->
              GotData(c, {})
         [] OTHER ->
              /\ loc' = [loc EXCEPT ![c].snap = NoPaths]
              /\ Goto(c, "return")
    /\ UNCHANGED <<store, schema, req, history>>
-----------------------------------------------------------------------------
(* Errors that survive the retries.                                        *)

CanThrow == {"getSchema", "scan", "readLocated", "checkIndex", "readTarget",
             "store", "remove", "savePaths", "loadIndex", "saveIndex"}

IndexLockReleased(c) ==
    IF locks[IndexLock] = c THEN [locks EXCEPT ![IndexLock] = Free] ELSE locks

\* The inner try block of set.
InTry(c) ==
    /\ Op(c) \in Setters
    /\ \/ pc[c] \in {"store", "savePaths"}
       \/ pc[c] = "getSchema" /\ loc[c].ret = "savePaths"
       \/ pc[c] \in {"loadIndex", "saveIndex"} /\ loc[c].ret = "added"

\* getCollectionMetadata and the loop of validateAndCleanup go on.
Caught(c) ==
    \/ pc[c] = "getSchema" /\ loc[c].ret = "route"
    \/ pc[c] \in {"loadIndex", "saveIndex"} /\ loc[c].ret = "validated"

GoOn(c) ==
    /\ pc[c] \in CanThrow
    /\ Caught(c)
    /\ locks' = IndexLockReleased(c)
    /\ IF pc[c] = "getSchema"
       THEN GotSchema(c, NoPaths)
       ELSE /\ Goto(c, "validate")
            /\ loc' = [loc EXCEPT ![c].snap = NoPaths]
    /\ UNCHANGED <<files, req, history>>

ThrowInSet(c) ==
    /\ pc[c] \in CanThrow
    /\ InTry(c)
    /\ locks' = IndexLockReleased(c)
    /\ Goto(c, "loadSeen")
    /\ loc' = [loc EXCEPT ![c].snap = NoPaths]
    /\ LET others == {d \in Calls \ {c} : Running(d)} IN
         /\ known' = known \ ({Key(c)} \cup {Key(d) : d \in others})
         /\ alone' = alone \ others
    /\ Forget
    /\ UNCHANGED <<files, req, swept, home, strays>>

(* The end of a call: the finally blocks release its locks, and it returns *)
(* or throws.                                                              *)
Leave(c) ==
    /\ Goto(c, "done")
    /\ locks' = [n \in LockNames |-> IF locks[n] = c THEN Free ELSE locks[n]]
    /\ loc' = [loc EXCEPT ![c] = FreshLocals]
    /\ req' = [req EXCEPT ![c] = NoRequest]
    /\ UNCHANGED files

ThrowToCaller(c) ==
    /\ pc[c] \in CanThrow
    /\ ~InTry(c) /\ ~Caught(c)
    /\ Leave(c)
    /\ known' = IF Op(c) = "get" THEN known ELSE known \ {Key(c)}
    /\ alone' = alone \ {c}
    /\ Forget
    /\ UNCHANGED <<swept, home, strays>>

\* The end of a set that failed.
Rethrow(c) ==
    /\ Leave(c)
    /\ alone' = alone \ {c}
    /\ UNCHANGED <<expect, known, swept, home, strays>>

\* validateAndCleanup: copy the index ...
LoadSeen(c) ==
    /\ pc[c] = "loadSeen"
    /\ \/ /\ loc' = [loc EXCEPT ![c].seen = index]
          /\ Goto(c, "validate")
          /\ UNCHANGED <<files, locks, req, history>>
       \/ Rethrow(c)                  \* the index cannot be read

\* ... and remove each entry whose adapter does not have the key.
Validate(c) ==
    /\ pc[c] = "validate"
    /\ \E k \in Keys :
         /\ loc[c].seen[k] # None
         /\ \/ /\ loc' = [loc EXCEPT ![c].seen[k] = None]
               /\ UNCHANGED pc     \* present, or has() threw
            \/ /\ store[loc[c].seen[k]][k] = {}
               /\ loc' = [loc EXCEPT ![c].seen[k] = None, ![c].cur = k,
                                     ![c].ret = "validated"]
               /\ Goto(c, "takeIndexLock")
    /\ UNCHANGED <<files, locks, req, history>>

\* The end of the loop: set throws the error it caught.
Validated(c) ==
    /\ pc[c] = "validate"
    /\ loc[c].seen = NoPaths
    /\ Rethrow(c)

-----------------------------------------------------------------------------
After(c) ==
    CASE Op(c) = "overwrite" -> {c}
      [] Op(c) \in Locked -> expect[Key(c)] \cup {c}
      [] Op(c) = "get" -> expect[Key(c)]
      [] Op(c) = "delete" -> {}

\* A set or delete that ran alone fixes the key, whatever happened before; one
\* that an adapter elsewhere may hold, only a set that the schema points to.
Fixes(c) ==
    /\ c \in alone
    /\ \/ Op(c) \in {"overwrite", "delete"} /\ Key(c) \notin strays
       \/ /\ Op(c) = "overwrite" /\ Key(c) \in FlatKeys
          /\ schema.exists /\ schema.paths[Key(c)] = Target(c)

Return(c) ==
    /\ pc[c] = "return"
    /\ Leave(c)
    /\ alone' = alone \ {c}
    /\ known' = IF Fixes(c) THEN known \cup {Key(c)} ELSE known
    /\ swept' = IF Fixes(c) THEN swept \ {Key(c)} ELSE swept
    /\ home' = IF Fixes(c) /\ Op(c) = "overwrite" THEN [home EXCEPT ![Key(c)] = Target(c)] ELSE home
    /\ UNCHANGED strays
    /\ expect' = [expect EXCEPT
                    ![Key(c)] = IF Key(c) \in known' THEN After(c) ELSE {}]

\* The process dies: its calls and its locks are gone, the adapters stay.
Crash ==
    /\ \E c \in Calls : Running(c)
    /\ pc' = [c \in Calls |-> IF Running(c) THEN "done" ELSE pc[c]]
    /\ locks' = [n \in LockNames |-> Free]
    /\ loc' = [c \in Calls |-> FreshLocals]
    /\ known' = known \ {Key(c) : c \in {d \in Calls : Running(d) /\ Op(d) # "get"}}
    /\ alone' = {}
    /\ req' = [c \in Calls |-> NoRequest]
    /\ Forget
    /\ UNCHANGED <<files, swept, home, strays>>

-----------------------------------------------------------------------------
\* The steps a call takes when no adapter fails.
Step(c) ==
    \/ TakeKeyLock(c)
    \/ ReadSchema(c) \/ MissSchema(c)
    \/ RebuildScan(c) \/ RebuildSchema(c) \/ RebuildIndex(c)
    \/ Scan(c) \/ ReadLocated(c) \/ CheckIndex(c)
    \/ ReadTarget(c) \/ Store(c) \/ Remove(c) \/ SavePaths(c)
    \/ TakeIndexLock(c) \/ LoadIndex(c) \/ SaveIndex(c)
    \/ LoadSeen(c) \/ Validate(c) \/ Validated(c)
    \/ Return(c)

Failure(c) ==
    RebuildFails(c) \/ GoOn(c) \/ ThrowInSet(c) \/ ThrowToCaller(c)

Finished ==
    /\ \A c \in Calls : pc[c] = "done"
    /\ UNCHANGED vars

Next ==
    \/ \E c \in Calls : \/ \E op \in OpNames, k \in Keys :
                               \E to \in Targets(op, k) : Start(c, op, k, to)
                        \/ Step(c)
                        \/ Failure(c)
    \/ Crash
    \/ Finished

Spec == Init /\ [][Next]_vars
-----------------------------------------------------------------------------
\* append before it asks for the key lock: it may still be reading the schema.
Routing(c) ==
    pc[c] = "getSchema" \/ Rebuilding(c)

InKeyLock(c) ==
    /\ Running(c) /\ pc[c] # "takeKeyLock"
    /\ \/ Op(c) = "patch"
       \/ Op(c) = "append" /\ ~(Routing(c) /\ loc[c].ret = "route")

\* Everything append does from the read of the old data on, and everything patch
\* does, metadata, errors and cleanup included, happens under the key lock; and
\* whoever reads and writes the index for one key owns the index lock.
LockDiscipline ==
    \A c \in Calls :
        /\ InKeyLock(c) => locks[Key(c)] = c
        /\ pc[c] \in {"loadIndex", "saveIndex"} <=> locks[IndexLock] = c

\* What a holder of the index lock is about to write back was read after the
\* last change of the index, unless a metadata rebuild came in between: no
\* update of the index by one call erases the update of another.
IndexCopyCurrent ==
    \A c \in Calls :
        pc[c] = "saveIndex" /\ Key(c) \notin swept => loc[c].snap = index

\* Concurrent calls on other keys, crashes and failures of other calls do not
\* disturb a key: when nobody works on it, the adapter that its sets are routed
\* to holds exactly what the calls that returned put there (all appends and
\* patches, however they overlapped), and the key index lists it there iff it
\* exists.
Settled(k) == k \in known \ swept /\ Users(k) = {}

KeysAreIsolated ==
    \A k \in Keys : Settled(k) =>
        /\ store[home[k]][k] = expect[k]
        /\ index[k] = IF expect[k] = {} THEN None ELSE home[k]

\* A get that no writer of its key overlaps returns what the key holds, and not
\* the copy that stayed behind when the key was set in another adapter: of a key
\* with a copy behind, as long as no other call has lost its entry in the schema.
GetReturnsLatest ==
    \A c \in Calls :
        /\ pc[c] = "return" /\ Op(c) = "get"
        /\ Key(c) \in known \ swept
        /\ \A d \in Users(Key(c)) : Op(d) = "get"
        => loc[c].val = expect[Key(c)]

\* Only a call that removes a key's entry removes it: concurrent changes of the
\* index do not lose entries.
IndexEntriesKept ==
    [][\A k \in Keys :
         index[k] # None /\ index'[k] = None =>
             \E c \in Calls : pc[c] = "saveIndex" /\ Edited(c) = k]_vars
=============================================================================
