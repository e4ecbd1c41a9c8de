-------------------------------- MODULE Views --------------------------------
(***************************************************************************)
(* MaterializedViewManager of src/views/materialized.ts, over the queries  *)
(* and writes of QueryCache: named results that are stored, and computed   *)
(* again on demand, by age, or after a write to their source.              *)
(*                                                                         *)
(* A refresh runs for the call that asked for it, so there is one task for *)
(* each client and view beside the clients' own; `step' is where that      *)
(* refresh is and `copy' the definition it works with.  Listing the views  *)
(* is one step.  Descriptions and statistics are left out.                 *)
(***************************************************************************)
EXTENDS QueryCache

CONSTANTS
    Clients,
    ViewNames,
    Strategies(_),    \* the refresh strategies a view may be defined with
    Sources(_),       \* the keys (source and query) it may be defined over
    MaxCalls          \* bound: calls made by all clients together

Refreshers == Clients \X ViewNames

ASSUME ViewAssumption ==
    /\ Tasks = Clients \cup Refreshers /\ Clients \cap Refreshers = {}
    /\ \A v \in ViewNames : Strategies(v) # {} /\ Sources(v) # {} /\ Sources(v) \subseteq Keys

VARIABLES
    meta,       \* the stored definitions: [source, strategy, old]
    view,       \* the stored results
    inFlight,   \* refreshInFlight
    step, copy, \* where each refresh is; the definition it works with
    calls,      \* how many calls were made
    job         \* local variables of the clients' calls; `started' (history):
                \* the views they refresh whose results are computed anew since

viewVars == <<meta, view, inFlight, step, copy, job>>
vars == <<world, cacheVars, pc, loc, faults, viewVars, calls>>

-----------------------------------------------------------------------------
Definitions(v) == [source : Sources(v), strategy : Strategies(v), old : {FALSE}]
SomeDefinition(v) == CHOOSE d \in Definitions(v) : TRUE
Exists(v) == meta[v] # None

SomeView == CHOOSE v \in ViewNames : TRUE
NoJob == [view |-> SomeView, def |-> None, what |-> "all", next |-> "idle",
          force |-> TRUE, started |-> {}, stamp |-> 0]

Labels == {"idle", "look", "dropLate", "forgetLate", "read", "queued", "evict",
           "evicted", "put", "answered", "list", "wipe", "cleared", "written",
           "create", "update", "save", "lookup", "fetch", "delete", "deleteData",
           "refresh", "refreshAll", "refreshing", "return"}
AllDefinitions ==
    UNION {[source : Sources(v), strategy : Strategies(v), old : BOOLEAN] : v \in ViewNames}

TypeOK ==
    /\ data \in [Paths -> Versions]
    /\ store \in [Keys -> {None} \cup [val : Answers, late : BOOLEAN, current : BOOLEAN]]
    /\ tracked \in Accounts
    /\ total \in Int
    /\ lock \in Seq(Tasks)
    /\ pc \in [Tasks -> Labels]
    /\ \A t \in Tasks : /\ loc[t].answer \in Answers \cup {None}
                         /\ loc[t].victims \subseteq Keys /\ loc[t].saved \in Accounts
                         /\ loc[t].left \subseteq loc[t].todo /\ loc[t].todo \subseteq Keys
    /\ meta \in [ViewNames -> AllDefinitions \cup {None}]
    /\ view \in [ViewNames -> Answers \cup {None}]
    /\ step \in [Refreshers -> {"idle", "meta", "query", "save"}]
    /\ copy \in [Refreshers -> AllDefinitions \cup {None}]
    /\ \A c \in Clients : job[c].started \subseteq ViewNames /\ job[c].next \in Labels

Init ==
    /\ CacheInit
    /\ pc = [t \in Tasks |-> "idle"]
    /\ loc = [t \in Tasks |-> Fresh]
    /\ calls = 0
    /\ meta \in [ViewNames -> UNION {Definitions(v) : v \in ViewNames} \cup {None}]
    /\ \A v \in ViewNames : Exists(v) => meta[v] \in Definitions(v)
    /\ view = [v \in ViewNames |-> IF Exists(v) THEN Answer(meta[v].source) ELSE None]
    /\ inFlight = {}
    /\ step = [r \in Refreshers |-> "idle"]
    /\ copy = [r \in Refreshers |-> None]
    /\ job = [c \in Clients |-> NoJob]

-----------------------------------------------------------------------------
(* refresh().  The flag is tested and set before the first await, so each  *)
(* call starts the refreshes that are not running and leaves the rest.     *)

\* Mutant: the flag is not tested.
BeginAnyway(c, vs) ==
    /\ step' = [r \in Refreshers |->
                    IF r[1] = c /\ r[2] \in vs THEN "meta" ELSE step[r]]
    /\ inFlight' = inFlight \cup vs

Begin(c, vs) ==
    /\ step' = [r \in Refreshers |->
                    IF r[1] = c /\ r[2] \in vs \ inFlight THEN "meta" ELSE step[r]]
    /\ inFlight' = inFlight \cup vs

\* The finally block.
Finish(r) ==
    /\ step' = [step EXCEPT ![r] = "idle"]
    /\ copy' = [copy EXCEPT ![r] = None]
    /\ inFlight' = inFlight \ {r[2]}

\* No such view, or a lazy one whose ttl still runs and no force.
NothingToDo(r) ==
    LET v == r[2] IN
    ~Exists(v) \/ (~job[r[1]].force /\ meta[v].strategy = "lazy" /\ ~meta[v].old)

GetMeta(r) ==
    /\ step[r] = "meta"
    /\ IF NothingToDo(r)
       THEN /\ Finish(r)
            /\ job' = [job EXCEPT ![r[1]].started = @ \ {r[2]}]
            /\ UNCHANGED <<world, cacheVars, pc, loc, faults>>
       ELSE /\ StartQuery(r, meta[r[2]].source)
            /\ copy' = [copy EXCEPT ![r] = meta[r[2]]]
            /\ step' = [step EXCEPT ![r] = "query"]
            /\ UNCHANGED inFlight
            /\ job' = IF meta[r[2]].source[2] \in Cached
                      THEN [c \in Clients |-> [job[c] EXCEPT !.started = @ \ {r[2]}]]
                      ELSE job
    /\ UNCHANGED <<meta, view>>

Free(r) ==
    /\ Goto(r, "idle")
    /\ loc' = [loc EXCEPT ![r] = Fresh]

StoreResult(r) ==
    /\ step[r] = "query" /\ pc[r] = "answered"
    /\ view' = [view EXCEPT ![r[2]] = loc[r].answer]
    /\ step' = [step EXCEPT ![r] = "save"]
    /\ Free(r)
    /\ UNCHANGED <<world, cacheVars, faults, meta, inFlight, copy, job>>

\* Mutant: the result is saved where the definition belongs.
SaveMetaMistyped(r) ==
    /\ step[r] = "save"
    /\ meta' = [meta EXCEPT ![r[2]] = view[r[2]]]
    /\ Finish(r)
    /\ UNCHANGED <<world, cacheVars, pc, loc, faults, view, job>>

\* The definition is saved as it was read.
SaveMeta(r) ==
    /\ step[r] = "save"
    /\ meta' = [meta EXCEPT ![r[2]] = [copy[r] EXCEPT !.old = FALSE]]
    /\ Finish(r)
    /\ UNCHANGED <<world, cacheVars, pc, loc, faults, view, job>>

RefreshFails(r) ==
    /\ step[r] \in {"meta", "save"} \/ (step[r] = "query" /\ pc[r] = "answered")
    /\ Fault
    /\ Finish(r)
    /\ Free(r)
    /\ UNCHANGED <<world, cacheVars, meta, view, job>>

-----------------------------------------------------------------------------
(* The other calls.                                                       *)

Cache == <<world, cacheVars, loc, faults>>

Ask(c, label, j) ==
    /\ pc[c] = "idle"
    /\ job' = [job EXCEPT ![c] = j]
    /\ Goto(c, label)
    /\ UNCHANGED <<Cache, meta, view, inFlight, step, copy>>

Await(c, vs, next) ==
    /\ Begin(c, vs)
    /\ job' = [job EXCEPT ![c].next = next, ![c].started = vs \ inFlight]
    /\ Goto(c, "refreshing")

Stop(c) ==
    /\ Goto(c, "idle")
    /\ job' = [job EXCEPT ![c] = NoJob]
    /\ UNCHANGED <<inFlight, step>>

Return(c) ==
    /\ pc[c] \in {"answered", "return"}
    /\ Free(c)
    /\ job' = [job EXCEPT ![c] = NoJob]
    /\ UNCHANGED <<world, cacheVars, faults, meta, view, inFlight, step, copy>>

\* Mutant: the refreshes are started and not awaited.
AwaitedEarly(c) ==
    /\ pc[c] = "refreshing"
    /\ Goto(c, job[c].next)
    /\ UNCHANGED <<Cache, meta, view, inFlight, step, copy, job>>

Awaited(c) ==
    /\ pc[c] = "refreshing"
    /\ \A v \in ViewNames : step[<<c, v>>] = "idle"
    /\ Goto(c, job[c].next)
    /\ UNCHANGED <<Cache, meta, view, inFlight, step, copy, job>>

\* create and update read the definition, then save one.
Create(c) ==
    LET v == job[c].view IN
    /\ pc[c] = "create"
    /\ IF Exists(v) THEN Stop(c)
       ELSE Goto(c, "save") /\ UNCHANGED <<inFlight, step, job>>
    /\ UNCHANGED <<Cache, meta, view, copy>>

\* update merges the new source, or the new strategy, into the old definition.
Update(c) ==
    LET v == job[c].view IN
    /\ pc[c] = "update"
    /\ IF ~Exists(v) THEN Stop(c)
       ELSE /\ job' = [job EXCEPT ![c].def =
                          IF job[c].what = "source"
                          THEN [meta[v] EXCEPT !.source = job[c].def.source]
                          ELSE [meta[v] EXCEPT !.strategy = job[c].def.strategy]]
            /\ Goto(c, "save")
            /\ UNCHANGED <<inFlight, step>>
    /\ UNCHANGED <<Cache, meta, view, copy>>

Save(c) ==
    LET v == job[c].view IN
    /\ pc[c] = "save"
    /\ meta' = [meta EXCEPT ![v] = job[c].def]
    /\ IF job[c].what = "strategy" THEN Stop(c) ELSE Await(c, {v}, "return")
    /\ UNCHANGED <<Cache, view, copy>>

\* getData
Lookup(c) ==
    LET v == job[c].view IN
    /\ pc[c] = "lookup"
    /\ IF ~Exists(v) THEN Stop(c)
       ELSE IF meta[v].strategy = "lazy" /\ meta[v].old THEN Await(c, {v}, "fetch")
       ELSE Goto(c, "fetch") /\ UNCHANGED <<inFlight, step, job>>
    /\ UNCHANGED <<Cache, meta, view, copy>>

Fetch(c) ==
    LET v == job[c].view IN
    /\ pc[c] = "fetch"
    /\ IF view[v] = None THEN Await(c, {v}, "return") ELSE Stop(c)
    /\ UNCHANGED <<Cache, meta, view, copy>>

\* delete: the definition, then, unless it is to be kept, the result.
Delete(c) ==
    /\ pc[c] = "delete"
    /\ meta' = [meta EXCEPT ![job[c].view] = None]
    /\ Goto(c, "deleteData")
    /\ UNCHANGED <<Cache, view, inFlight, step, copy, job>>

DeleteData(c) ==
    /\ pc[c] = "deleteData"
    /\ view' \in {view, [view EXCEPT ![job[c].view] = None]}
    /\ Stop(c)
    /\ UNCHANGED <<Cache, meta, copy>>

RefreshAll(c) ==
    /\ pc[c] = "refreshAll"
    /\ Await(c, {v \in ViewNames : Exists(v)}, "return")
    /\ UNCHANGED <<Cache, meta, view, copy>>

Refresh(c) ==
    /\ pc[c] = "refresh"
    /\ Await(c, {job[c].view}, "return")
    /\ UNCHANGED <<Cache, meta, view, copy>>

\* The end of a write: set, patch and delete refresh the views over the path
\* they wrote; patch, whose inner set has done so, clears the cache once more.
Dependents(p) ==
    {v \in ViewNames : Exists(v) /\ meta[v].strategy = "on-write"
                                 /\ KeyPath(meta[v].source) = p}

AfterWrite(c) ==
    LET op == loc[c].op IN
    /\ pc[c] = "cleared"
    /\ IF op \in {"append", "patched"}
       THEN Goto(c, "answered") /\ UNCHANGED <<job, inFlight, step>>
       ELSE Await(c, Dependents(KeyPath(loc[c].key)), "written")
    /\ UNCHANGED <<Cache, meta, view, copy>>

Written(c) ==
    /\ pc[c] = "written"
    /\ IF loc[c].op = "patch"
       THEN /\ loc' = [loc EXCEPT ![c].op = "patched"]
            /\ Goto(c, "list")
       ELSE Goto(c, "answered") /\ UNCHANGED loc
    /\ UNCHANGED <<world, cacheVars, faults, meta, view, inFlight, step, copy, job>>

\* A view of the lazy strategy outlives its ttl.
Age(v) ==
    /\ Exists(v) /\ meta[v].strategy = "lazy" /\ ~meta[v].old
    /\ meta' = [meta EXCEPT ![v].old = TRUE]
    /\ UNCHANGED <<Cache, pc, view, inFlight, step, copy, job>>

Write(c, p, op) ==
    /\ Change(c, p, op)
    /\ job' = [job EXCEPT ![c] = [NoJob EXCEPT !.stamp = writes + 1]]
    /\ UNCHANGED <<meta, view, inFlight, step, copy>>

Query(c, k) ==
    /\ pc[c] = "idle"
    /\ StartQuery(c, k)
    /\ UNCHANGED <<meta, view, inFlight, step, copy, job>>

Clear(c, p, wide) == StartClear(c, p, wide) /\ UNCHANGED viewVars
ClearOne(c, k) == ClearQuery(c, k) /\ UNCHANGED viewVars

CallView(c, v) ==
    \/ \E label \in {"lookup", "delete"} : Ask(c, label, [NoJob EXCEPT !.view = v])
    \/ \E force \in BOOLEAN :
            Ask(c, "refresh", [NoJob EXCEPT !.view = v, !.force = force])
    \/ \E def \in Definitions(v) :
            Ask(c, "create", [NoJob EXCEPT !.view = v, !.def = def])
    \/ \E s \in Sources(v) :
            Ask(c, "update", [NoJob EXCEPT !.view = v, !.what = "source",
                                           !.def = [SomeDefinition(v) EXCEPT !.source = s]])
    \/ \E s \in Strategies(v) :
            Ask(c, "update", [NoJob EXCEPT !.view = v, !.what = "strategy",
                                           !.def = [SomeDefinition(v) EXCEPT !.strategy = s]])

ViewStep(c) ==
    /\ \/ Return(c) \/ Awaited(c) \/ Create(c) \/ Update(c) \/ Save(c) \/ Lookup(c)
       \/ Fetch(c) \/ Delete(c) \/ DeleteData(c) \/ Refresh(c) \/ RefreshAll(c)
       \/ AfterWrite(c) \/ Written(c)
    /\ UNCHANGED calls

RefreshStep(r) ==
    /\ GetMeta(r) \/ StoreResult(r) \/ SaveMeta(r) \/ RefreshFails(r)
    /\ UNCHANGED calls

CacheTask(t) == CacheStep(t) /\ UNCHANGED <<viewVars, calls>>

Call(c) ==
    /\ calls < MaxCalls
    /\ calls' = calls + 1
    /\ \/ \E p \in Paths, op \in {"set", "patch", "append", "delete"} : Write(c, p, op)
       \/ \E k \in Keys : Query(c, k) \/ ClearOne(c, k)
       \/ \E p \in Paths, wide \in BOOLEAN : Clear(c, p, wide)
       \/ \E v \in ViewNames : CallView(c, v)
       \/ Ask(c, "refreshAll", NoJob)

Time ==
    /\ \/ \E k \in Keys : Expire(k) /\ UNCHANGED viewVars
       \/ \E v \in ViewNames : Age(v)
    /\ UNCHANGED calls

Progress ==
    \/ \E c \in Clients : ViewStep(c)
    \/ \E r \in Refreshers : RefreshStep(r)
    \/ \E t \in Tasks : CacheTask(t)

Next ==
    \/ \E c \in Clients : Call(c)
    \/ Progress
    \/ Time

Spec == Init /\ [][Next]_vars

\* A call whose awaits are answered runs on.
Fairness == WF_vars(Progress)

-----------------------------------------------------------------------------
(* OneRefreshPerView: refreshInFlight names exactly the views that one call *)
(* is refreshing, whatever fails, so that no view is refreshed twice at a   *)
(* time (TASKS-RACES.done.md:33) and none is left unrefreshable.            *)
OneRefreshPerView ==
    \A v \in ViewNames :
        Cardinality({c \in Clients : step[<<c, v>>] # "idle"})
            = IF v \in inFlight THEN 1 ELSE 0

Abs(n) == IF n < 0 THEN -n ELSE n

(* WriterSeesItsWrite: while nothing fails, set, patch and delete return    *)
(* only when each on-write view that they refreshed, and that has not been   *)
(* answered from the query cache since, shows their write or a later one.   *)
WriterSeesItsWrite ==
    faults = 0 =>
        \A c \in Clients : pc[c] = "written" =>
            \A v \in job[c].started :
                LET p == KeyPath(loc[c].key) IN
                (view[v] # None /\ p \in DOMAIN view[v]) => Abs(view[v][p]) >= job[c].stamp

(* CallsReturn: when no further call is made, all calls of the cache and of *)
(* the views return and no view stays in flight: the chain of set() goes on *)
(* after a failure, and a refresh that is skipped or fails lets its caller  *)
(* go (cache-manager.ts:145, materialized.ts:302).                         *)
CallsReturn == []<>(inFlight = {} /\ \A t \in Tasks : pc[t] = "idle")
=============================================================================
