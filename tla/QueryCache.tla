----------------------------- MODULE QueryCache -----------------------------
(***************************************************************************)
(* The query cache of src/utils/cache-manager.ts and the code of           *)
(* src/router.ts that fills it (query) and empties it (the end of set,     *)
(* patch, append and delete, and the calls that clear it).                 *)
(*                                                                         *)
(* A step is one call of the cache's adapter or of the data's, or the      *)
(* synchronous code between two of them.  `store' is what the adapter      *)
(* holds, `tracked' the manager's own account of it (the size of each key, *)
(* 0 for one it does not track), `total' the number of bytes it believes   *)
(* to be in use, `lock' the chain of promises that set() builds.  An       *)
(* entry's time to live may run out at any moment.  The order of last      *)
(* access is left out, so that any entry may be the one evicted next, and  *)
(* so are the hit and miss counters.                                       *)
(***************************************************************************)
EXTENDS Integers, FiniteSets, Sequences, SequencesExt

CONSTANTS
    Tasks,            \* calls in progress
    Paths,            \* collection paths, nested ones included
    Top(_),           \* the collection of a path (its first segment)
    Under(_),         \* the paths whose keys begin with the key of a path
    Queries,
    Cached,           \* the queries asked with cache: true
    Native,           \* those handed to the adapter, which reads a key prefix
    SizeOf(_),        \* estimateSize
    LargestEntry, MaxBytes,
    MaxWrites,        \* bound: changes of the data
    MaxFaults,        \* bound: failing calls
    None

ASSUME CacheAssumption ==
    /\ Cached \cup Native \subseteq Queries
    /\ MaxBytes \in Nat \ {0} /\ MaxWrites \in Nat \ {0} /\ MaxFaults \in Nat
    /\ \A p \in Paths : Top(p) \in Paths /\ p \in Under(p) /\ Under(p) \subseteq Paths

Versions == -MaxWrites .. MaxWrites
Answers == UNION {[ps -> Versions] : ps \in SUBSET Paths}

\* A run names finitely many paths and queries; an answer is some bytes of JSON.
ASSUME SizeAssumption ==
    /\ IsFiniteSet(Paths) /\ IsFiniteSet(Queries)
    /\ LargestEntry \in Nat /\ \A a \in Answers : SizeOf(a) \in 1 .. LargestEntry

VARIABLES
    data,       \* each path: the number of its last write, negated if it deleted
    writes,     \* how many changes were made
    store, tracked, total, lock,
    pc, loc,    \* where each task is, and its local variables
    faults      \* how many calls failed

cacheVars == <<store, tracked, total, lock>>
world == <<data, writes>>

-----------------------------------------------------------------------------
Keys == Paths \X Queries                   \* generateQueryCacheKey
KeyPath(k) == k[1]

Scope(k) == IF k[2] \in Native THEN Under(k[1]) ELSE {k[1]}

\* What the query returns when it is computed now.
Answer(k) == [p \in Scope(k) |-> data[p]]

\* query() answers an absent value with an empty list, and does not cache that.
Uncacheable(k, a) == k[2] \notin Native /\ a[k[1]] <= 0

\* The keys with the prefix of a collection: queries of the collection's own path.
Prefixed(c) == {k \in Keys : KeyPath(k) = c}

Present == {k \in Keys : store[k] # None}

\* The sum of the sizes in an account, over the keys in some order.
KeyOrder == SetToSeq(Keys)
RunningSizes(sizes) ==
    LET sum[n \in 0 .. Cardinality(Keys)] ==
            IF n = 0 THEN 0 ELSE sum[n - 1] + sizes[KeyOrder[n]]
    IN  sum
Sizes(sizes) == RunningSizes(sizes)[Cardinality(Keys)]

Accounts == [Keys -> 0 .. LargestEntry]
NoneTracked == [k \in Keys |-> 0]
Only(sizes, keys) == [k \in Keys |-> IF k \in keys THEN sizes[k] ELSE 0]

Untrack(keys) ==
    /\ tracked' = Only(tracked, Keys \ keys)
    /\ total' = total - Sizes(Only(tracked, keys))

SomeKey == CHOOSE k \in Keys : TRUE
Fresh == [key |-> SomeKey, op |-> "none", answer |-> None,
          wide |-> FALSE, todo |-> {}, left |-> {},
          victims |-> {}, victim |-> SomeKey, need |-> 0, freed |-> 0,
          saved |-> NoneTracked, savedTotal |-> 0]

Entry(k, a) == [val |-> a, late |-> FALSE, current |-> a = Answer(k)]

\* Any cache of right answers.  After a restart the manager tracks none of them.
CacheInit ==
    /\ writes = 1
    /\ data \in [Paths -> 0..1]
    /\ \E warm \in SUBSET {k \in Keys : k[2] \in Cached /\ ~Uncacheable(k, Answer(k))} :
        /\ store = [k \in Keys |-> IF k \in warm THEN Entry(k, Answer(k)) ELSE None]
        /\ tracked \in {NoneTracked, Only([k \in Keys |-> SizeOf(Answer(k))], warm)}
    /\ total = Sizes(tracked)
    /\ total <= MaxBytes
    /\ lock = <<>>
    /\ faults = 0

Goto(t, label) == pc' = [pc EXCEPT ![t] = label]
Fault == faults < MaxFaults /\ faults' = faults + 1

-----------------------------------------------------------------------------
(* query(): look in the cache, else read and store the result.            *)

StartQuery(t, k) ==
    /\ loc' = [loc EXCEPT ![t] = [Fresh EXCEPT !.op = "query", !.key = k]]
    /\ Goto(t, IF k[2] \in Cached THEN "look" ELSE "read")
    /\ UNCHANGED <<world, cacheVars, faults>>

\* CacheManager.get
Hit(t, k) ==
    /\ loc' = [loc EXCEPT ![t].answer = store[k].val]
    /\ Goto(t, "answered")
    /\ UNCHANGED cacheVars

Look(t) ==
    LET k == loc[t].key
        Miss == Goto(t, "read") /\ UNCHANGED <<loc, cacheVars>>
    IN  /\ pc[t] = "look"
        /\ UNCHANGED world
        /\ \/ UNCHANGED faults /\ store[k] = None /\ Miss
           \/ /\ UNCHANGED <<faults, loc, cacheVars>>
              /\ store[k] # None /\ store[k].late
              /\ Goto(t, "dropLate")
           \/ UNCHANGED faults /\ store[k] # None /\ ~store[k].late /\ Hit(t, k)
           \/ Fault /\ Miss

\* The expired entry is deleted, then forgotten.
DropLate(t) ==
    /\ pc[t] = "dropLate"
    /\ UNCHANGED <<world, tracked, total, lock, loc>>
    /\ \/ /\ store' = [store EXCEPT ![loc[t].key] = None]
          /\ Goto(t, "forgetLate")
          /\ UNCHANGED faults
       \/ Fault /\ Goto(t, "read") /\ UNCHANGED store

ForgetLate(t) ==
    /\ pc[t] = "forgetLate"
    /\ Untrack({loc[t].key})
    /\ Goto(t, "read")
    /\ UNCHANGED <<world, store, lock, loc, faults>>

\* The result is computed and, if it is to be cached, set() joins the chain.
Read(t) ==
    LET k == loc[t].key
        a == Answer(k)
    IN  /\ pc[t] = "read"
        /\ loc' = [loc EXCEPT ![t].answer = a]
        /\ IF k[2] \in Cached /\ ~Uncacheable(k, a)
           THEN Goto(t, "queued") /\ lock' = Append(lock, t)
           ELSE Goto(t, "answered") /\ UNCHANGED lock
        /\ UNCHANGED <<world, store, tracked, total, faults>>

(* set() and evictUntilFits, in the order of the chain.                   *)

Need(t) == SizeOf(loc[t].answer) - tracked[loc[t].key]

\* Mutant: only the new entry is measured against the cap.
CrowdedAlone(need) == need > MaxBytes

Crowded(need) == need > 0 /\ total + need > MaxBytes

Enter(t) ==
    /\ pc[t] = "queued" /\ Head(lock) = t
    /\ loc' = [loc EXCEPT ![t] = [@ EXCEPT
                  !.saved = tracked, !.savedTotal = total, !.need = Need(t),
                  !.victims = IF Crowded(Need(t))
                              THEN {k \in Keys \ {loc[t].key} : tracked[k] > 0} ELSE {}]]
    /\ Goto(t, "evict")
    /\ UNCHANGED <<world, cacheVars, faults>>

\* The test of the loop.  `total' has shrunk by `freed' already.
Fits(t) == total + loc[t].need - loc[t].freed <= MaxBytes

\* A failing deletion is ignored.
Evict(t) ==
    /\ pc[t] = "evict" /\ ~Fits(t)
    /\ \E victim \in loc[t].victims :
        /\ loc' = [loc EXCEPT ![t].victim = victim]
        /\ \/ store' = [store EXCEPT ![victim] = None] /\ UNCHANGED faults
           \/ Fault /\ UNCHANGED store
    /\ Goto(t, "evicted")
    /\ UNCHANGED <<world, tracked, total, lock>>

\* The victim's bytes are subtracted whether or not it is still tracked.
Evicted(t) ==
    LET victim == loc[t].victim
        size == loc[t].saved[victim]
    IN  /\ pc[t] = "evicted"
        /\ tracked' = [tracked EXCEPT ![victim] = 0]
        /\ total' = total - size
        /\ loc' = [loc EXCEPT ![t].victims = @ \ {victim}, ![t].freed = @ + size]
        /\ Goto(t, "evict")
        /\ UNCHANGED <<world, store, lock, faults>>

Leave(t) ==
    /\ lock' = Tail(lock)
    /\ Goto(t, "answered")
    /\ loc' = [loc EXCEPT ![t].saved = NoneTracked]

\* adapter.set; when it fails, with or without effect, the account goes back to
\* what it was before the evictions.
Put(t) ==
    LET k == loc[t].key
        entry == Entry(k, loc[t].answer)
    IN  /\ pc[t] = "evict" /\ (loc[t].victims = {} \/ Fits(t))
        /\ UNCHANGED world
        /\ \/ /\ store' = [store EXCEPT ![k] = entry]
              /\ Goto(t, "put")
              /\ UNCHANGED <<tracked, total, lock, loc, faults>>
           \/ /\ Fault
              /\ store' \in {store, [store EXCEPT ![k] = entry]}
              /\ tracked' = loc[t].saved
              /\ total' = loc[t].savedTotal
              /\ Leave(t)

\* Mutant: the chain is not released.
TrackUnreleased(t) ==
    LET k == loc[t].key
        size == SizeOf(loc[t].answer)
    IN  /\ pc[t] = "put"
        /\ tracked' = [tracked EXCEPT ![k] = size]
        /\ total' = total - tracked[k] + size
        /\ Goto(t, "answered")
        /\ loc' = [loc EXCEPT ![t].saved = NoneTracked]
        /\ UNCHANGED <<world, store, lock, faults>>

Track(t) ==
    LET k == loc[t].key
        size == SizeOf(loc[t].answer)
    IN  /\ pc[t] = "put"
        /\ tracked' = [tracked EXCEPT ![k] = size]
        /\ total' = total - tracked[k] + size
        /\ Leave(t)
        /\ UNCHANGED <<world, store, faults>>

-----------------------------------------------------------------------------
(* Writes, and clearing.                                                  *)

\* The change, with all that the router does before it clears the cache.  A
\* failure of its bookkeeping (schema, key index) throws after the change.
Change(t, p, op) ==
    /\ pc[t] = "idle" /\ writes < MaxWrites
    /\ writes' = writes + 1
    /\ data' = [data EXCEPT ![p] = IF op = "delete" THEN -(writes + 1) ELSE writes + 1]
    /\ UNCHANGED cacheVars
    /\ \/ /\ loc' = [loc EXCEPT ![t] = [Fresh EXCEPT !.op = op, !.key = <<p, @[2]>>]]
          /\ Goto(t, "list")
          /\ UNCHANGED faults
       \/ Fault /\ UNCHANGED <<pc, loc>>

\* clearCollectionCache and clearAllCaches, called by the application.
StartClear(t, p, wide) ==
    /\ pc[t] = "idle"
    /\ loc' = [loc EXCEPT ![t] = [Fresh EXCEPT !.op = "clear", !.key = <<p, @[2]>>,
                                               !.wide = wide]]
    /\ Goto(t, "list")
    /\ UNCHANGED <<world, cacheVars, faults>>

Cleared(t) == Goto(t, IF loc[t].op = "clear" THEN "answered" ELSE "cleared")

Clearable(t) == IF loc[t].wide THEN Keys ELSE Prefixed(Top(KeyPath(loc[t].key)))

\* Mutant: the prefix is that of the path that was written.
ListNarrow(t) ==
    /\ pc[t] = "list"
    /\ UNCHANGED <<world, cacheVars>>
    /\ \/ /\ loc' = [loc EXCEPT ![t].todo = Present \cap Prefixed(KeyPath(loc[t].key)),
                                ![t].left = Present \cap Prefixed(KeyPath(loc[t].key))]
          /\ Goto(t, "wipe")
          /\ UNCHANGED faults
       \/ Fault /\ Cleared(t) /\ UNCHANGED loc

\* adapter.keys; a failure of it or of a deletion ends the clearing quietly.
List(t) ==
    /\ pc[t] = "list"
    /\ UNCHANGED <<world, cacheVars>>
    /\ \/ /\ loc' = [loc EXCEPT ![t].todo = Present \cap Clearable(t),
                                ![t].left = Present \cap Clearable(t)]
          /\ Goto(t, "wipe")
          /\ UNCHANGED faults
       \/ Fault /\ Cleared(t) /\ UNCHANGED loc

\* Promise.all: the deletions take effect one by one; one that fails leaves its
\* entry, and the manager does not forget the others either.
Wipe(t) ==
    /\ pc[t] = "wipe"
    /\ UNCHANGED <<world, tracked, total, lock>>
    /\ \E k \in loc[t].left :
        \/ /\ store' = [store EXCEPT ![k] = None]
           /\ loc' = [loc EXCEPT ![t].left = @ \ {k}]
           /\ UNCHANGED <<pc, faults>>
        \/ /\ Fault
           /\ store' = [j \in Keys |-> IF j \in loc[t].left \ {k} THEN None ELSE store[j]]
           /\ Cleared(t)
           /\ UNCHANGED loc

Forget(t) ==
    /\ pc[t] = "wipe" /\ loc[t].left = {}
    /\ IF loc[t].wide THEN tracked' = NoneTracked /\ total' = 0 ELSE Untrack(loc[t].todo)
    /\ Cleared(t)
    /\ UNCHANGED <<world, store, lock, loc, faults>>

\* clearQuery: one deletion, then the entry is forgotten.
ClearQuery(t, k) ==
    /\ pc[t] = "idle"
    /\ store' = [store EXCEPT ![k] = None]
    /\ loc' = [loc EXCEPT ![t] = [Fresh EXCEPT !.op = "clear", !.key = k, !.todo = {k}]]
    /\ Goto(t, "wipe")
    /\ UNCHANGED <<world, tracked, total, lock, faults>>

\* The time to live of an entry runs out; an adapter that knows of it drops it.
Expire(k) ==
    /\ store[k] # None
    /\ \/ ~store[k].late /\ store' = [store EXCEPT ![k].late = TRUE]
       \/ store[k].late /\ store' = [store EXCEPT ![k] = None]
    /\ UNCHANGED <<world, tracked, total, lock, pc, loc, faults>>

CacheStep(t) ==
    \/ Look(t) \/ DropLate(t) \/ ForgetLate(t) \/ Read(t)
    \/ Enter(t) \/ Evict(t) \/ Evicted(t) \/ Put(t) \/ Track(t)
    \/ List(t) \/ Wipe(t) \/ Forget(t)

-----------------------------------------------------------------------------
\* A write that changed what k reads and has yet to delete the cached answer.
ClearPending(k) ==
    \E t \in Tasks :
        \/ pc[t] = "list" /\ loc[t].op # "clear" /\ k \in Clearable(t)
        \/ pc[t] = "wipe" /\ k \in loc[t].left

(* The query reads only the collection it names.  A query of a nested path  *)
(* does not name one, and a native query also reads the collections whose   *)
(* names begin with the one it names (router.ts:1459).                     *)
Inside(k) == \A p \in Scope(k) : Top(p) = KeyPath(k)

(* CacheFollowsData: while nothing fails, a cached answer to a query inside *)
(* its collection that was right when it was stored and is wrong now is     *)
(* about to be deleted by the write that made it wrong: clearing the        *)
(* collection after each write (router.ts:581, 661, 734, 770) leaves none.  *)
CacheFollowsData ==
    faults = 0 =>
        \A k \in Present :
            (store[k].current /\ Inside(k) /\ store[k].val # Answer(k))
                => ClearPending(k)

(* CapIsNearlyKept: the count of bytes never claims more than is tracked,  *)
(* and passes maxCacheSize by less than one entry, whatever other calls     *)
(* clear or find expired while set() evicts and whatever fails.  The cap    *)
(* itself does not hold: the loop of evictUntilFits deducts each victim     *)
(* twice (cache-manager.ts:237) and frees half of what is needed.           *)
CapIsNearlyKept ==
    /\ total <= Sizes(tracked)
    /\ total < MaxBytes + LargestEntry
=============================================================================
