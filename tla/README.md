# A verification of Smallstore in TLA+

Smallstore is a storage router in TypeScript: one `get`/`set`/`delete` interface over
many storage adapters, with collections, routing rules, a key index, synchronisation
between adapters, and a messaging layer (inboxes, mirrors, feeds) built on the same
adapters. Everything runs on one JavaScript event loop per process or worker; there are no
threads, but every `await` of an adapter call lets other calls run, a worker can be
evicted between any two awaits, and an adapter call can fail before or after its effect.
That is where this project looks: at orders of awaits, failures and evictions that no unit
test sets up.

This file lists the parts of the system, says which module models which part, what each TLC
run shows, what is proved with TLAPS and from what, and what is left out and why.
`PROJECT.json` holds the same facts by line of source: components, runs, the mutants that
show each property to have teeth, the map from definitions to code, findings, hazards and
theorems.

## 1. The system

| Part | Source | State | Operations | How it meets the others |
|---|---|---|---|---|
| Key lock | `utils/async-lock.ts` | a map from names to promises | acquire, release | the router takes it per key and per key index |
| Router | `router.ts`, `keyindex/`, `utils/retry.ts`, `utils/path.ts` | none of its own: data, one schema and one key index per collection, all in adapters | get, set (overwrite, append, merge), patch, delete, resync, rebuild | calls adapters; clears the query cache; refreshes views |
| Query cache | `utils/cache-manager.ts` | cached results, LRU order | get, set, clear, evict | filled by `query`, cleared by `set` and `delete` |
| Views | `views/` | view definitions and their materialized data | create, refresh, getData | refreshed by the router on write |
| Adapters | `adapters/` | the data | get, set, delete, has, keys, clear | called by everything |
| Overlay | `adapters/overlay.ts` | overlay, tombstones, snapshots over a base adapter | get, set, delete, commit, discard, snapshot, restore | is an adapter, wraps two |
| Sync | `sync.ts` | a baseline per pair of adapters | push, pull, legacy merge, three-way sync | called by `serve.ts`, the CLI and users, beside users of both adapters |
| Inbox | `messaging/inbox.ts` | items, index, pending markers, blobs in adapters; a promise chain in memory | ingest, fields-only ingest, delete, recoverOrphans, list, query | fed by sinks, sweeps and mirrors |
| Mail pipeline | `messaging/dispatch.ts`, `sinks.ts`, `quarantine.ts`, `rules*.ts`, `unread*.ts`, `auto-confirm.ts` | labels of items, rules | hooks and sinks per message | ends in `Inbox._ingest` |
| Mirror, pull runner | `messaging/mirror.ts`, `pull-runner.ts` | one in-flight promise; remote notes | run by timers and by hand | read inboxes, call peers |
| Vault | `vault-graph/` | notes, links, manifests | parse, store, sync with a remote | own store, HTTP remote |
| Graph | `graph/store.ts` | nodes, edges, two adjacency lists per node, each a key of the router | add, update, remove, import, clear | on top of the router, no lock of its own |
| Episodic | `episodic/store.ts` | episodes and sequences as keys of the router; one lock per episode in memory | remember, recall, boost, update, decay, sequences | on top of the router |
| Disclosure | `disclosure/` | summaries in collections of the router | store, disclose | on top of the router |
| Search, retrieval, validation, blobs | `search/`, `retrieval/`, `retrievers/`, `materializers/`, `validation/`, `blob-middleware/` | search indexes | pure functions of data mostly | called by the router |
| HTTP, MCP, peers, clients, explorer | `http/`, `mcp/`, `peers/`, `clients/`, `explorer/` | response cache, rate counters | translate requests | call everything above |

What is hard in each of the core parts, and what correctness means there:

* **Key lock.** A released name may be taken by a call that never waited, before the calls
  woken by the release run. Correct: one owner per name, no wakeup lost, waiters resumed.
* **Router.** A `set` is four or more awaits: schema read (possibly a rebuild of lost
  metadata that lists every adapter), data read, data write, schema write, index read, index
  write. Only append, merge and patch lock the key; only index updates lock the index;
  nothing locks the schema. `get` repairs the index as a side effect, a failed `set`
  validates all of it. Correct: what a key holds depends only on the calls made on that key,
  never on other keys' calls, failures or crashes; appends never lose each other; the index
  lists exactly the keys that exist; `get` finds the data where `set` put it. Each `set` picks its
  adapter anew, by its options, the collection's metadata and the type and size of the data, and
  deletes no copy elsewhere: whether a `get` then finds the new data or the old is up to the schema.
* **Inbox.** Marker, item, index and marker again are four writes with an eviction possible
  between any two; index updates queue in a promise chain. Correct: an item in storage is
  listed or recoverable, an acknowledged one is kept, the list shows only stored items, and
  a failed update never blocks the queue.
* **Sync.** Reads both sides key by key, decides, then writes key by key, while users edit
  both sides; the new baseline is read back after the writes. Correct: a key nobody touched
  ends as the three-way merge of both sides and the last baseline, and the new baseline says
  what both sides hold, so that the next run leaves the key alone.
* **Overlay.** A read is up to three calls, a write two or three, a commit or a snapshot one
  or more per key, and only commit and snapshot are serialized. Correct: a reader sees the
  last write of a key whatever commits do meanwhile, a commit that breaks off changes nothing
  for readers and loses nothing, a snapshot is the view of one moment and a restore brings it back.
* **Query cache and views.** The answers of queries are kept beside the data, with a count of
  bytes that get, set, eviction and clearing change across awaits; a write clears the cache and
  then refreshes the views over its path. Correct: a cached answer does not outlive the write
  that made it wrong, the count stays near what is cached, one refresh of a view runs at a time,
  a writer that returns finds its write in the views it refreshed, and every call returns.
* **Graph.** An edge is three records (itself and two lists), a removal of a node is a walk over
  its edges, and nothing is locked. Correct: an edge has its nodes, and is in the lists of both.
* **Episodes.** A recall rewrites every episode it finds. Correct: every boost is counted, the lock
  of an episode is released however its holder ends, no deletion of a sequence leaves an episode naming it.
* **Labels of the mail pipeline.** Deliveries, a dozen routes, quarantine and paged sweeps read an
  item and write all of it back. Correct: a sweep reaches all it should, and what a user has read
  stays read.
* **Mirror.** Timers and people start runs that push and then prune. Correct: after an undisturbed
  run the peer shows the inbox, as far as its query reads it, and a run that fails does not keep later ones out.

## 2. Plan

1. `AsyncKeyLock`, implementing `KeyMutex` - done, proved.
2. `SmartRouter`: get, set, patch, delete with all their metadata - done; type, locks,
   index copies, isolation of the keys and current gets proved.
3. `Inbox` - done; all its safety invariants proved.
4. `Sync` - done; all its safety invariants proved.
5. `Overlay`: copy-on-write reads beside commits, snapshots, failures and a crash - done; all
   its safety properties proved, and that it implements `CopyOnWrite`.
6. `QueryCache` and `Views`, composed with the router's writes - done; type and all safety
   properties proved.
7. The records on top of the router and the mail pipeline - `Graph`, `Episodic`, `Labels` and
   `Mirror` done, in one run that takes them one at a time; their safety properties proved.
8. Vault sync by manifests, in the style of `Sync` - open.
9. Proofs: no safety property of a run is open. Liveness stays with TLC (section 6).

Each module has CONSTANTS with one named assumption, one action per step of the code, invariants
that are conjunctions of named parts, and no RECURSIVE operator, so that it can be proved about.

## 3. The modules

In all modules a step is the code between two awaits, and an action is guarded by where the
call is (`pc` or `state`). An adapter call may fail before its effect (the call throws, the
data is unchanged) or after it (the call throws, the data is written). Histories
(`acked`, `expect`, `start`...) are read by no guard.

### AsyncKeyLock, KeyMutex (`src/src/utils/async-lock.ts`)

`locks` is the Map, with the owner in the place of its promise; a call is `idle`,
`awaiting` the promise, `runnable` once it is resolved, or `owner`. `Acquire` and `Resume`
run the `while` test up to the next await; `Release` deletes the entry and makes all waiters
runnable. `KeyMutex` says what the router assumes: a name has one holder, and only a free
name is taken. `SmartRouter` uses that abstraction (`TakeKeyLock`, `TakeIndexLock` test for
a free name); `ImplementsMutex` is what justifies it.

Fairness: `Resume` (microtasks run) and `Release` (every owner in `router.ts` releases in a
`finally`). Not assumed: that a resumed call gets the name. Barging can starve it, so the
liveness property says *resumed*, not *served*.

### SmartRouter (`src/src/router.ts`)

One collection. `store` holds what each adapter has under each key, `schema` and `index` are
the two metadata files, `locks` the key locks and the index lock, `loc[c]` the local variables of a call.
`req[c].to` is the adapter that `routeData` picks for a set: any of `Routes[k]`, anew for each call, since the pick
depends on options, metadata and data that the model leaves out.
A stored value is the set of the calls whose data it contains, so a lost append is a
missing element. Actions follow the code: `Start` (entry and routing), `TakeKeyLock`,
`ReadSchema`/`MissSchema`, `RebuildScan`/`RebuildSchema`/`RebuildIndex`/`RebuildFails`
(`reconstructMetadata` with its skipped adapters), `Scan` (`getAdapterForKey`),
`ReadLocated`, `CheckIndex` (auto-cleanup of `get`), `ReadTarget`, `Store`, `Remove`,
`SavePaths`, `TakeIndexLock`/`LoadIndex`/`SaveIndex`, then the failures: `GoOn` (errors the
code swallows), `ThrowInSet` with `LoadSeen`/`Validate`/`Validated` (`validateAndCleanup`),
`ThrowToCaller`, `Rethrow`, and `Crash`.

Two details of the code the model keeps because properties depend on them: a rebuild spells
its schema paths so that `getAdapterForKey` finds none of them (the key has `:` where the
rebuild strips `/`), and only keys with exactly one path segment (`FlatKeys`) are found in
the schema at all (`PathEntry`). All others rely on the scan of the adapters.

What a key *should* hold is `expect[k]`, kept only while it is determined (`known`): calls
on one key that overlap in ways the code does not order (an overwrite beside anything, a
delete beside anything), a failed write, or a crash make it undetermined, until a call that
runs alone fixes it. `swept` marks keys that a metadata rebuild may have missed. `home[k]` is the adapter that
the last set that fixed the key was routed to. A set routed away from it makes the key one of `strays`, for good: a
copy may lie in another adapter. Such a key is known again only when an overwrite has run
alone and the schema leads to its copy (`Fixes`); it is forgotten when it is deleted (the delete removes one copy, and
the scan may find another) and when another call saves a schema without its entry (`SavePaths`).

### Inbox (`src/src/messaging/inbox.ts`)

`items`, `blobs`, `pending` and `index` survive an eviction; `chain` (indexWriteChain), `pc`,
`snap` and `todo` do not. Content is abstracted to "stored or not". Five operations:
ingest, forced ingest, fields-only ingest, delete, recoverOrphans. `exposed` collects ids
whose guarantees the code does not give: a delete beside other calls rewrites the index
outside the chain, and a recovery beside a live ingest may take its marker
(see the findings).

Fairness: every step of a live call; that is, adapter calls settle (possibly with an error,
which is `Fail` and needs no fairness) and microtasks run.

### Sync (`src/src/sync.ts`)

`data` is both sides, `base` the saved baseline, the rest the local variables of the run.
`Edit` is a user of either adapter, at any time. `ListSource` ... `Load`, `Decide` with
`Diff` (computeSyncDiff), then the five loops of writes (`Apply`, `SkipConflict`,
`Resolve`, with `EndLoop` between them), then `Rebase`/`RebaseTarget` and `Save`. The
one-way copies are `CopyList`, `Copy`, `CopyHas`, `CopyCompare`, `CopySet`. Writes may fail
(`ApplyFails`, `CopyFails`), baselines may be lost (`SaveFails`, second branch of `Load`), a
run may be cut off anywhere (`Abort`). Only one run works on a pair at a time, which
`serve.ts` enforces.

`Hash` is a constant: the hash of a value is what `stableHash` makes of it, which need not
tell two values apart: no assumption makes it injective. Values with equal hashes occur in the `sync_nested` run; in
`sync` hashes differ. `BaselineDescribes` says of a key nobody touched that its new entry is what both sides hold and
that `Diff` then plans nothing for it (`Planned`). The exception is a conflict of an edit with a deletion
that was skipped, or left to a callback that wrote one side: it is recorded as if it were settled, and the next run
deletes the value that is left, which is the finding of `sync_skip`.

### Overlay (`src/src/adapters/overlay.ts`)

`base` and `over` are the two inner adapters (values; `None` is null), `tomb` the tombstones
kept in the overlay, `saved` the snapshot, `queue` the promise chain of `_withLock`. `Start`
begins any operation; then `GetTomb`, `GetOver`, `GetBase`; `HasTomb`, `DropTomb`, `Write` for
set; `HasOver`, `DropOver`, `Bury` for delete; `Clear` and `Replay` for discard and restore;
`Enter` with `ListOver`, `ReadOver`, `Publish`, `ListTomb`, `Unpublish`, `Wipe` for commit and
with `SnapTomb`, `SnapBase`, `Capture` (and the same gets) for snapshot. Every call of an inner
adapter may fail, before or after its effect (`Fail`), and `Crash` ends all calls and forgets
the snapshot.

`View` is what a get that nothing interrupts returns. The code leaves it to its callers to avoid
writes during a commit or snapshot (`overlay.ts:85-87`), and two writes of one key at once are
not ordered by anything: keys with such calls are `exposed`, and the properties leave them out.
`expect` is what the last write of a key left, `Unknown` while one runs or after one failed.
A get beside a set may return the base's old value of a deleted key, visible
between the removal of the tombstone and the write; `GetIsRegular` allows what was visible, no more.

`CopyOnWrite` says what an application relies on: readers see a map whose keys change only by
their own writes, to what these leave (`coming`) or, on the way, to what the base has; and nothing
reaches the base but what readers see of a key that nobody writes. `ImplementsCopyOnWrite` maps its
`shown` to `View` and `coming` to `Coming`, what the running writes of a key are to leave. A commit, a
snapshot, a failure and a crash are then steps in which readers see nothing change.

### QueryCache, Views (`src/src/utils/cache-manager.ts`, `src/src/views/materialized.ts`)

`QueryCache` has the data (for each path the number of its last write), what the cache's adapter
holds (`store`), the sizes the manager has on its own list (`tracked`, 0 for an answer that is not on it), its
byte count (`total`) and the chain of promises of `set` (`lock`). A query is `Look`, `DropLate`/`ForgetLate`, `Read`, then the
`set` of the manager: `Enter` (snapshot and plan), `Evict`/`Evicted` for each victim, `Put` with its
rollback, `Track`. The order of access is left out, so that any tracked answer may be the next victim. A write is `Change` and then `List`, `Wipe`, `Forget`; the calls that clear the
cache by hand take the same way. Time to live runs out by `Expire`.

`Views` EXTENDS it with the definitions (`meta`), results (`view`) and `inFlight` flags of the
materialized views. `Begin` is the synchronous start of `refresh`, `GetMeta`, the query steps of
`QueryCache`, `StoreResult` and `SaveMeta` the rest; `Finish` is its `finally`. `AfterWrite` is where the
router's `set`, `patch` and `delete` call `refreshBySource`; `append` does not.

Fairness: `WF(Progress)`, one weak fairness for all steps of calls that have begun: reads and
writes of the adapters are answered, and microtasks run. No call need be made.

The four modules that follow model stores that keep several records in step. The variables and properties of
three of them are in modules of their own (`GraphState`, `LabelsState`, `MirrorState`), so that
one run and several proofs state the same definitions; `RecordCalls` has the tasks and
`None`.

### Graph (`src/src/graph/store.ts`)

`nodes`, `edges` and `index` (the lists "out" and "in") are the records; a step is one get, set or
delete of one of them. `addEdge` is `HasSource`, `HasTarget`, `Create`, `SetEdge`, `GetList`/`SetList` twice,
`RecheckSource`, `RecheckTarget`; `removeNode` is `GetNode`, `List`, `ListOut`, `NextEdge` with the steps of
`removeEdge`, twice, and `DeleteNode`. Every step may fail (`Fail`). `clashed` names the lists that
lost an update, `loose` the edges that were being added when a removal took its last look, or on
which a call failed; the properties speak of all others. `addEdge` generates a new id; `import` keeps
the ids of its data (`EdgeIds`), which may be those of stored edges, of removed ones or of edges in use.
An import over a stored edge with other ends, or beside a call on it, makes the edge `loose`: nobody takes it off its
old lists.

### Episodic (`src/src/episodic/store.ts`)

`episodes` (recall count and sequence), `sequences` and `keyLocks`. `boost` is `Lock`, `BoostRead`,
`BoostWrite`; recall, decay and deleteSequence go through a list by `NextEpisode`. `Lock` needs a
free lock: the `while` of `withKeyLock` tests again after every await, which is `AsyncKeyLock`'s
algorithm. `boosted` counts the boosts since an episode was remembered, `mixed` names the episodes
that a call without the lock wrote from a stale read, or between the read and write of a boost.
`remember` and `updateEpisode` store any name of a sequence they are given (`regroup` is an update with one), whether
or not it exists. `torn` holds the sequences deleted while a call used them or before their members let go of
them, and the names given that nothing had.

Fairness: weak fairness of each task's steps. It makes waiting calls go on because each task makes
one call; a lock taken again and again by others could starve a waiter.

### Labels (`src/src/messaging/dispatch.ts`, `http-routes.ts`, `quarantine.ts`, `unread-sweep.ts`, `rules.ts`, `inbox.ts`)

The labels of each item, with `_ingest` and `delete` as one step each (`Inbox` takes them apart).
`Hooks` and `Put` deliver, `Get` and `Save` are every edit of one item, `Query`, `Hydrate`, `HandleItem`,
`NullItem`, `NextPage` the three paged walks. A page is a set of positions of the index, the first ones
that match; an item of it is handled when no earlier one is left. `missed` collects items that a walk had to change, nobody
else wrote, and the walk left as they were; `read` the items marked read. `stale` marks, for
a call, the items that someone wrote since it read them.

### Mirror (`src/src/messaging/mirror.ts`)

One peer and one slug or more, `files` what the peer has, `inFlight` the promise of each process.
`Start` (or skip), `NoPeer`, `Query`, `PushIndex`, `PushPage`, `PushRecent`, `ListFiles`, `Prune`; requests may
fail before or after their effect, `Throw` is what the code does not catch, `Crash` ends a process.
`mirrored` is true from the end of a run without trouble to the next start or change.
The query reads the newest 10_000 items: `beyond` are the slugs that have older ones, and of these a run reads
some items or none (`Newest`). A slug may be called `index` or `recent`; its file is then that of the summary, and
whichever is pushed last stays (`FilesOf`).

Fairness: weak fairness of each run's steps (requests end).

## 4. The runs

| Run | Bounds | Shows |
|---|---|---|
| `keylock` | 3 callers, 2 names | `MutualExclusion`, `NoLostWakeup`, refinement of `KeyMutex`, `WaitersResume` |
| `router` | 2 calls, 2 keys (one flat), 2 adapters; sets of the flat key go to either, those of the other to the second; four starts: empty or with the flat key, and no schema; full or with the other key, and a schema | `LockDiscipline`, `IndexCopyCurrent`, `KeysAreIsolated`, `GetReturnsLatest` |
| `router_index_entries` | the same, empty start | violation of `IndexEntriesKept` |
| `inbox` | 3 calls of any of the five operations, 2 ids | `ChainSerializes`, `Recoverable`, `AckedKept`, `ListedIsStored`, `InboxBecomesIdle` |
| `inbox_recovery` | 3 calls of ingest and recover, 2 ids | violation of `RecoverySafe` |
| `sync` | 2 keys, 2 values, 2 edits, 2 runs, 7 option records over all modes and resolutions | `UntouchedKeysMerge`, `BaselineDescribes` |
| `sync_skip` | resolution `skip`, 2 edits, 3 runs | violation of `SkipPreserves` |
| `sync_nested` | two values with equal hashes, one run | violation of `PushCopies` |
| `overlay` | 3 calls of any operation, 2 keys, 2 values; one key in any state, the other not in the base at first | `GetIsRegular`, `WritesKept`, `CommitIsComplete`, `SnapshotIsView`, refinement of `CopyOnWrite` |
| `overlay_restore` | the same | violation of `RestoreRestores` |
| `views` | 2 clients, 2 calls, 1 failure, collection `a` with nested path `a/x`, 3 queries, 1 view, cap of 4 with entries of 2 and 3; either calls of the cache or calls of the view | `CacheFollowsData`, `CapIsNearlyKept`, `OneRefreshPerView`, `WriterSeesItsWrite`, `CallsReturn` |
| `records` | one of: 2 calls on 2 nodes and 3 edges; 2 calls on 2 episodes and a sequence; 2 calls on 3 items with pages of 1; 3 mirror runs in 2 processes with 1 trouble | `EdgesAnchored`, `ListsMatchEdges`, `BoostsCounted`, `SequencesStand`, `SweepsAreComplete`, `ReadStaysRead`, `MirrorFollowsInbox`, `LocksAreReleased` |

Why the bounds are enough. The router's interference is pairwise: a call between two steps of
another, on the same key or on the other key of the same index; both are there, as are a
failure or rebuild of either and a crash of both. The flat key moves from the first adapter, which a scan asks first,
to the second and back, so that a get after the move meets the old copy; the key that stays shows what others' moves
leave alone. With two calls a later call can be made after a first one
ended, so what it left behind is observed. Three inbox calls give two queued updates behind a failing one,
and a delete or a recovery beside two ingests. For sync, two runs let the second see the
baseline of the first, and two edits change both sides of a key, or one key twice, or both
keys, before, between and during the runs; keys meet only in the loops over
them, so a third key adds nothing new. Three overlay calls give a commit and a get beside a
write of the other key, a commit after one that broke off, and a snapshot with a delete before
it and a restore after it. Symmetry is used over calls (router, overlay), values (overlay) and
keys (sync), which the specifications treat alike, and only with safety properties. `MaxEdits` and `MaxRuns`
bound `Sync`, which is why its runs do not check for deadlock: with edits and runs used up the
system is at rest.

In `views` a client's call is many steps, and a query that fills the cache beside a write,
a clear, an expiry or another query is what two calls give; a cap of 4 makes every second entry
evict the first. `MaxWrites` bounds the writes (a patch after a set is the longest), `MaxFaults` the failing calls,
and in the cache part calls and failures together are two. In `records` every hazard is a pair of calls;
three items with pages of one give a walk two cursors to lose; two mirror runs in one process and
one in another give both kinds of overlap. The one slug is now within the limit of the query, now beyond it. `MaxRecalls` is never reached, for two calls boost
an episode at most twice. Larger instances were checked while the modules were written (the router with both keys and no schema, three
label tasks, pages of two, two troubles of the mirror, slugs called `index` and `recent`, three graph edges with any
start) without a violation. Neither run checks for deadlock: with the calls used up the system is at rest.

Each property is checked against a mutant of the code as well (PROJECT.json,
"mutants"): for instance an append without lock, an index lock that does not test, a get
that ignores the schema's path, an inbox without markers, a write chain that a failure poisons, a
deletion propagated without comparing hashes, a baseline not read back. The mutant
definitions stand beside the ones they replace and are used by nothing else.

## 5. What the runs found

* **Rebuilds ignore the index lock** (`router_index_entries`). The race list of the
  repository marks key index races as done by a per-collection lock. `reconstructMetadata`
  (`router.ts:2619`) saves the index without it, and `getSchema` calls it from ordinary
  sets and gets on a collection that has no schema yet: two first sets suffice to lose an entry.
  `OnlyRebuildsLoseEntries` proves that only rebuilds, and copies of the index they made stale, do so.
* **recoverOrphans beside a live ingest** (`inbox_recovery`). Its comment calls it
  safe from cron or an admin endpoint; it reaps the marker of an ingest that has not stored
  its item yet, and if that ingest then dies the item is stored, unlisted and unrecoverable.
* **Skip does not preserve** (`sync_skip`). A conflict skipped in one run enters the baseline
  and becomes a deletion of the edited value in the next. `OnlyKnownValuesAreDeleted` proves that
  a run deletes no value that its baseline does not record.
* **Equal up to nested fields** (`sync_nested`). `stableHash` passes an array as the replacer
  of `JSON.stringify`, which drops nested properties; `skipUnchanged` then skips a write it should do.
* **Restore does not restore deletions** (`overlay_restore`). A snapshot has entries only, and
  restore clears the tombstones: a key that was deleted when the snapshot was taken is back
  after it, with the base's value. `RestoresKeepValues` proves that the captured values do come back.

The following were met while modelling. They are not runs of their own: the code may intend them,
or the text they contradict says too little; the models contain the behaviour, and the properties
are worded so that they do not deny it.

* **Old copies after a move.** `routeData` (`router.ts:1968-2048`) picks an adapter for each set, by explicit option,
  metadata, type and size; the copy in the adapter picked before stays. Only the schema's entry tells the copies apart.
  It is never found for nested keys and after a rebuild, and a concurrent set of another key may write
  the schema without it; then `getAdapterForKey` takes the first adapter that has the key (`router.ts:2294-2299`), and a
  get returns the old data. A delete removes one copy, and the next get may find the other.
* **Cleanups beside other calls.** A `get` that finds an index entry and no data removes the entry
  (`router.ts:365`), and a failed `set` removes entries by an old copy of the index (`router.ts:3684`): a key
  stored in between exists and is not listed, until its next set.
* **Nested queries are never cleared.** A write clears the prefix of its collection
  (`_cache/query:<collection>:`), but a query of a nested path is cached under its whole path, and so outlives
  every write. A native query with prefix `a` also reads a collection `ab` (`router.ts:1459`), whose
  writes do not clear it. `CacheFollowsData` speaks of queries inside the collection they name. An answer read
  before a write and stored after its clear stays as well, until its ttl. With `caching` unset
  `autoInvalidate` is off although `CacheManager` defaults it to on (`router.ts:581`, `cache-manager.ts:46`).
* **The cap of the cache.** The loop of `evictUntilFits` (`cache-manager.ts:217-221`) subtracts each victim from
  the total and adds it to `freed`, frees half of what is needed, and the total passes the cap
  by less than one entry: `CapIsNearlyKept`. A clear during an eviction subtracts an entry twice.
* **Skipped refreshes.** A write whose view is being refreshed does not wait and is not followed by
  another refresh; the view may stay without it (`materialized.ts:216`). A refresh that is running
  revives a deleted view and undoes an update of its definition. `append` refreshes no view, and a view
  over a collection is not refreshed by a write to a path below it.
* **Edges without nodes.** The race list marks dangling edges as fixed; an edge whose
  `addEdge` finishes while `removeNode` is past its second listing still dangles, `import` has no second look,
  and two updates of one adjacency list lose one. `EdgesAnchored` names these exceptions.
* **Imports over stored edges.** `import` keeps the ids of its data (`graph/store.ts:850`). An edge imported under a
  stored id with other ends stays in the lists of the old ends, and removing it takes it off the new lists only.
* **Names of sequences.** `remember` (`episodic/store.ts:141`) and `updateEpisode` (`episodic/store.ts:264`) look up no
  sequence: an episode may name one that never existed or was deleted before.
* **Episodes.** The lock of `boost` is not taken by `updateEpisode`, `forget` or `addToSequence`: a boost that
  overlaps a `forget` writes the episode back, and `addToSequence` writes back a deleted sequence.
* **Labels.** A page item deleted between scan and hydration is null and ends a sweep, a read-all or a
  retroactive rule with an error (`inbox.ts:181`); a walk writes back page items as it read them, and so
  revives deleted ones. An item that a hook quarantines is stamped unread all the same
  (`dispatch.ts:169`, after the hooks), which `unread.ts:38` calls misleading.
* **Mirror.** A page whose push fails is not among the active files and is pruned if the peer has an
  older copy; files of others are pruned too. Past the 10_000 items of the query (`mirror.ts:231`) a run
  rewrites the page of a slug from part of its items, and prunes it when all of them are older. When the summaries are
  not asked for, `index.md` and `recent.md` of an earlier run are pruned; the comment at `mirror.ts:63-64` says prune
  skips them, while `messaging-mirror.test.ts:615` expects the deletion. A newsletter slug `index` or `recent` shares
  its file with the summary of that name.

## 6. What is proved

TLAPS proves the following for every value of the constants allowed by the modules'
assumptions (`FreeIsNoCaller`, `RouterAssumption`, `EveryAdapterListed`, `InboxAssumption`, `SyncAssumption`,
`OverlayAssumption`, `CacheAssumption`, `SizeAssumption`, `ViewAssumption`, `EpisodicAssumption`,
`MirrorAssumption`, `LabelsAssumption`, `GraphAssumption`, all evaluated by the runs as well). The last four are hypotheses
of their theorems, and `records` evaluates them on its instances.

* `AsyncKeyLockProofs`: `TypeCorrect`, `Exclusive`, `WakeupsKept`, `LockImplementsMutex`. The inductive
  invariant is type, mutual exclusion and `NoLostWakeup`; the refinement maps each step to
  `Take`, `Drop` or a stutter.
* `SmartRouterProofs`: `TypeCorrect`, `LocksHeld`, `CopiesAreCurrent`, `KeysKeepTheirContent`,
  `GetsAreCurrent`. `LockDiscipline` is inductive with the
  type invariant. `IndexCopyCurrent` is not: a rebuild writes the index without
  the lock, so the invariant must say that during a rebuild every other running call's key is
  in `swept` (`RebuildSwept`), and for that what the calls in `alone` exclude (`AloneIsAlone`),
  since a key leaves `swept` only by a call that ran alone. `KeysAreIsolated` and `GetReturnsLatest` come
  from `IsolationInv` on top of that: which overlaps a known key rules out (`KnownCompatible`), what a
  running call has read and written of its key at each place (`OnTrack`), which adapter it aims at (`Aims`),
  what an idle key holds
  (`IdleKeys`), what the index, or a copy of it that is about to be saved, says of a key
  (`Entries`), what a rebuild has gathered so far (`Rebuilt`), and, of a known key that may have a copy
  elsewhere, that the schema leads home (`Signposts`) and so does what a validation has read (`SeenHome`). `OnlyRebuildsLoseEntries` is what
  remains of `IndexEntriesKept`: an entry disappears by the call that edits it, by a rebuild, or by
  a call whose copy of the index a rebuild may have made stale (its key is in `swept`).
* `InboxProofs`: `TypeCorrect`, `ChainIsSerial`, `NothingIsLost`, `AcknowledgedIsKept`,
  `NothingIsListedInVain`. The inductive invariant adds to the five properties: which pc belongs to which
  operation, that the chain lists exactly the queued calls, once each and in order
  (`ChainOrder`), that the head's copy of the index is current (`CopiesFresh`), what each
  operation has already stored at each pc (`IngestProgress`, `RecoverProgress`,
  `FieldsProgress`, `DeleteProgress`), and that two clashing live calls have exposed their ids
  (`Exposure`). `Recoverable` needs all of them: an item leaves the index only by a delete, and a
  marker only after its id was seen in the index, or its item missing, by the call that removes it.
* `SyncProofs`: `TypeCorrect`, `UntouchedKeysAreMerged`, `BaselineIsTrue`,
  `PushCopiesUnlessHashesMeet`. For a key that nobody touched the invariant says what the
  run has read (`ReadSoFar`), planned (`Decided`), written (`WrittenSoFar`: as it was while its loop is
  ahead, one of the pairs of `Fate` after it), read back (`RebasedSoFar`) and copied (`CopiedSoFar`).
  `BaselineIsTrue` takes `Planned` apart along `Diff`: what both sides hold and the new entry says is a key that
  `Diff` keeps, but for the one-sided conflicts named in section 3.
  `PushCopiesUnlessHashesMeet` is what remains of the property that `sync_nested` violates: for every hash function, one that
  drops nested fields included, a push copies unless the two values have one hash, so that nothing but `stableHash` is to blame.
  `OnlyKnownValuesAreDeleted` bounds what a run can destroy: of a key that nobody touched it deletes a value only in
  mode `sync` with deletions detected, when the other side has none and the baseline it loaded records this very value.
* `OverlayProofs`: `TypeCorrect`, `ReadsAreRegular`, `LastWriteIsVisible`, `WipeIsSafe`,
  `SnapshotsAreViews`, `RestoresKeepValues`, the action property `BaseIsNeverAhead` and the refinement
  `OverlayIsCopyOnWrite`. For keys that are not exposed: a tombstone and a value exclude
  each other (`OneOrOther`), and each operation has a progress predicate; the core is that of a commit
  (`CommitProgress`: what is not yet in the base is still to be published, and a tombstone goes
  only after its key has left the base) and that of a get (`GetProgress`: what it may still
  answer was visible since it began). The refinement maps the start of a call to `Begin`, a write to the base to
  `Publish`, all other steps to `Proceed` or a stutter; what a write has already done (`WriteProgress`)
  says that the view moves within what its call leaves, and that a commit publishes no key anyone writes.
* `ViewsProofs`: `ViewsTypeCorrect`, `RefreshesAreSingle`, `CachedAnswersFollow`, `WritersSeeTheirWrites`,
  `CapIsAlmostKept`. A view's flag is
  set iff exactly one client refreshes it (`RefreshInv`). A cached answer goes wrong only by a
  write, whose clear lists the answers it must delete before anything else can return
  (`CacheInv`). The stamps of the data only grow, and a refresh that a writer waits for queries the
  data after the write, with nothing cached to answer it (`WriterInv`, `FreshQuery`). `TypeInv` adds to the
  type what each step holds in its local variables. For the cap, `CapInv` says that the byte count is no more than
  the sizes tracked, and that the `set` holding the lock has planned to evict nothing or all that is tracked (`Planned`), that
  what it has freed is gone from the count (`Spent`) and that its entry fits once it stops (`Fitting`); all
  other calls only take sizes out meanwhile (`Shrinks`). The
  sums over answers go through an order of the keys and the least key at which a
  claim would fail (`WFMin`), for the induction theorems need an operator as parameter.
* `GraphProofs`: `GraphTypeCorrect`, `ListsAreTrue`, `EdgesKeepTheirNodes`. `ListsInv`: a stored edge is
  listed on both sides, or its own call has still to file it, or a removal that took it off has still
  to delete it (`ListsComplete`); a list names stored edges, with their end there (`ListsTrue`);
  for these, what a removal holds of an edge must be what is stored (`HeldTrue`), a list from
  which an edge was cut stays without it (`CutDone`), and no two calls add one edge that is not `loose`
  (`AddsApart`), although imports bring any ids. `NodesInv`: an edge whose node is gone is about to be removed or
  looked at again by its `addEdge` (`Anchored`), because a removal that takes its second look
  has found each edge of the node or counts it among those being added (`Swept`, `Noticed`).
* `RecordsProofs`, of `Episodic`: `TypeCorrect`, `BoostsAreCounted`, `SequencesAreNamed`. The two properties are not inductive.
  A boost counts because its reader owns the episode's lock and what it read is still stored
  unless a call without the lock came in between, which then marks it stale (`Boosting`). A
  sequence can be deleted because of what the deletion has established before: the members it has still to clear
  are in its list or in its hands (`DropProgress`), and nobody names the sequence anew without tearing
  it (`UseStands`, `ClashesTorn`).
* `RecordsProofs`, of `Mirror`: `MirrorTypeCorrect`, `PeerFollows`. The promise of a process names the run that is in it
  (`Held`), so a run without trouble is alone (`CleanAlone`); what it has pushed, has still to push, holds active and
  must prune is fixed by where it is (`Progress`, `Pending`); once it has ended, nobody
  runs and the peer follows the inbox.
* `RecordsProofs`, of `Labels`: `LabelsTypeCorrect`, `WalksAreComplete`, `ReadItemsStayRead`. What a call has read of an
  item is what is stored unless the item is in `stale` (`ReadsAt`), so that only a stale write can bring
  back an old `unread`. An item that a walk owes still matches as it did (`Owes`), for everyone who writes it takes it off,
  and lies in the page in hand or after the cursor (`WalkAt`), wherever the cursor's
  item has gone: a walk that ends for want of items owes none.

Proofs are by action, then by conjunct; facts shared by many actions are lemmas.

Only model-checked: the liveness properties `WaitersResume`, `InboxBecomesIdle`, `CallsReturn` and
`LocksAreReleased`, since liveness under fairness is beyond this prover; and `TypeOK` of `MCRecords` as it stands: it
is the conjunction of the types of the four record modules, which are proved one by one (`GraphTypeCorrect`,
`TypeCorrect`, `LabelsTypeCorrect`, `MirrorTypeCorrect`). All other properties of the passing runs are theorems,
`ImplementsMutex` and `ImplementsCopyOnWrite` included.

## 7. What is not modelled

* In the router: deleting array elements and properties, `resyncMetadata` and
  `validateMetadata` (maintenance calls), `search`, `slice`, `split`, `merge` and `deduplicate` of
  collections, external sources, `ttl`. Data that is present but falsy (`0`, `''`) counts as missing in
  `get`; the model has no such data. Why `routeData` picks
  an adapter: each set picks any of `Routes[k]`.
* In the inbox: reading (list, attachments) and the content of items; labels and the query's cursor
  are in `Labels`.
* In the cache and views: statistics, the order of access (any tracked answer may be evicted next), the `ttl-only` policy, the hash of the query options (equal
  hashes, and formats that share a key), `views/manager.ts` and `views/storage.ts`, filters of `refreshAll`.
* In the graph: traversal, paths and queries (they change nothing), batch helpers, an import that
  clears first. In the episodic store: relevance, decay scores and time.
* In the mail pipeline: classification, other sinks and attachments, auto-confirm, the sender
  index and its counters, the registry. In the mirror: several peers in one run, rendering and its caps;
  the pull runner.
* In sync: prefixes, transforms, dry runs, explicit baselines; that one-way copies also copy the
  baseline's own key when it is stored in the source.
* In the overlay: prefixes, `ttl`, clear with a prefix, `diff`, `has`, `keys` as a call of its own (it is
  part of snapshot), several snapshots and their removal.
* The components listed as not modelled in PROJECT.json: adapters (their interface is the
  environment of all models), pure functions (detection, search, parsing, conversion), vault
  sync (step 8 of the plan), the job log, peers and the interfaces to people and services.
