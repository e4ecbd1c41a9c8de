------------------------------ MODULE MCViews ------------------------------
(* A collection "a" with a nested path "a/x", queries that are cached (in), *)
(* not cached (by) and cached and native (nat), and one view.  Two clients  *)
(* make two calls: of the cache, or of the view.                            *)
EXTENDS Views

CONSTANTS c1, c2, v1

VARIABLE part

MCClients == {c1, c2}
MCViewNames == {v1}
MCTasks == MCClients \cup (MCClients \X MCViewNames)
MCTop(p) == "a"
MCUnder(p) == IF p = "a" THEN {"a", "a/x"} ELSE {p}
MCSizeOf(a) == IF DOMAIN a = Paths THEN 3 ELSE 2
MCStrategies(v) == {"lazy", "on-write"}
MCSources(v) == {<<"a", "in">>, <<"a", "by">>}

\* A cold cache, a full one, and a full one after a restart.
Asked == {<<"a", "in">>, <<"a", "nat">>, <<"a/x", "in">>}
CacheStart ==
    /\ \A v \in ViewNames : meta[v] = None
    /\ Present \in {{}, {<<"a", "in">>, <<"a/x", "in">>}}

MCInit ==
    /\ Init
    /\ \A p \in Paths : data[p] = 1
    /\ \/ part = "cache" /\ CacheStart
       \/ part = "views" /\ Present = {}

CacheCalls ==
    \A c \in Clients : pc[c] = "idle" /\ pc'[c] # "idle" =>
        LET l == loc'[c] IN
        \/ l.op = "set"
        \/ l.op = "delete" /\ l.key[1] = "a"
        \/ l.op = "query" /\ l.key \in Asked
        \/ l.op = "clear" /\ l.key = <<"a", "in">>

ViewCalls ==
    \A c \in Clients : loc'[c].op \notin {"query", "clear"} /\ loc'[c].key[1] = "a"

\* One entry at a time grows old.
OneLate == Cardinality({k \in Present' : store'[k].late}) <= 1

MCNext ==
    /\ Next
    /\ part = "cache" => calls' + faults' <= 2 /\ CacheCalls /\ OneLate /\ meta' = meta /\ inFlight' = inFlight
    /\ part = "views" => ViewCalls /\ \A k \in Present' : ~store'[k].late
    /\ UNCHANGED part

MCSpec == MCInit /\ [][MCNext]_<<vars, part>> /\ Fairness
=============================================================================
