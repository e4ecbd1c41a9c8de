---------------------------- MODULE ViewsProofs ----------------------------
(* The query cache and the views for any number of clients, views, paths    *)
(* and queries: one refresh of a view at a time, no cached answer that a    *)
(* write has outdated and will not delete, writers that return when the     *)
(* views they refresh show their write, the types of the state, and a count *)
(* of cached bytes that passes its cap by less than one entry.              *)
EXTENDS Views, FiniteSetTheorems, WellFoundedInduction, TLAPS

-----------------------------------------------------------------------------
(* One refresh of a view at a time.                                         *)

Refreshing(c, v) == step[<<c, v>>] # "idle"

StepFunction == step = [r \in Refreshers |-> step[r]]

RefreshInv ==
    /\ StepFunction
    /\ \A v \in ViewNames : v \in inFlight => \E c \in Clients : Refreshing(c, v)
    /\ \A v \in ViewNames, c \in Clients : Refreshing(c, v) =>
         v \in inFlight /\ \A d \in Clients \ {c} : ~Refreshing(d, v)

\* What a step may do to the refreshes.
Started == \E c \in Clients : \E vs : Begin(c, vs)

Ending(r) == step[r] # "idle" /\ step' = [step EXCEPT ![r] = "idle"]
                              /\ inFlight' = inFlight \ {r[2]}

Advancing(r) == \E label : /\ step[r] # "idle" /\ label # "idle"
                           /\ step' = [step EXCEPT ![r] = label]
                           /\ UNCHANGED inFlight

RefreshMoves ==
    \/ UNCHANGED <<step, inFlight>>
    \/ Started
    \/ \E r \in Refreshers : Ending(r) \/ Advancing(r)

LEMMA CacheLeavesRefreshes ==
    ASSUME NEW t \in Tasks, CacheTask(t)
    PROVE  UNCHANGED viewVars
BY DEF CacheTask

LEMMA CallLeavesRefreshes ==
    ASSUME NEW c \in Clients, Call(c)
    PROVE  UNCHANGED <<step, inFlight>>
BY DEF Call, Write, Query, Clear, ClearOne, CallView, Ask, viewVars

LEMMA ClientMoves ==
    ASSUME NEW c \in Clients, ViewStep(c)
    PROVE  RefreshMoves
<1>1. ASSUME NEW vs, NEW next, Await(c, vs, next)
      PROVE  Started
    BY <1>1 DEF Await, Started
<1>2. CASE Return(c) \/ Awaited(c) \/ Create(c) \/ Update(c) \/ Delete(c) \/ DeleteData(c)
           \/ Written(c)
    BY <1>2 DEF Return, Awaited, Create, Update, Delete, DeleteData, Written, Stop,
       RefreshMoves
<1>3. CASE Save(c) \/ Lookup(c) \/ Fetch(c)
    BY <1>1, <1>3 DEF Save, Lookup, Fetch, Stop, RefreshMoves
<1>4. CASE Refresh(c) \/ RefreshAll(c) \/ AfterWrite(c)
    BY <1>1, <1>4 DEF Refresh, RefreshAll, AfterWrite, RefreshMoves
<1> QED  BY <1>2, <1>3, <1>4 DEF ViewStep

LEMMA RefresherMoves ==
    ASSUME NEW r \in Refreshers, RefreshStep(r)
    PROVE  Ending(r) \/ Advancing(r)
<1>1. CASE GetMeta(r)
    BY <1>1 DEF GetMeta, Finish, Ending, Advancing
<1>2. CASE StoreResult(r)
    BY <1>2 DEF StoreResult, Advancing
<1>3. CASE SaveMeta(r) \/ RefreshFails(r)
    BY <1>3 DEF SaveMeta, RefreshFails, Finish, Ending
<1> QED  BY <1>1, <1>2, <1>3 DEF RefreshStep

LEMMA NextMoves ==
    ASSUME [Next]_vars
    PROVE  RefreshMoves
<1>1. CASE \E c \in Clients : Call(c)
    BY <1>1, CallLeavesRefreshes DEF RefreshMoves
<1>2. CASE \E c \in Clients : ViewStep(c)
    BY <1>2, ClientMoves
<1>3. CASE \E r \in Refreshers : RefreshStep(r)
    BY <1>3, RefresherMoves DEF RefreshMoves
<1>4. CASE \E t \in Tasks : CacheTask(t)
    BY <1>4, CacheLeavesRefreshes DEF RefreshMoves, viewVars
<1>5. CASE Time
    BY <1>5 DEF Time, Age, RefreshMoves, viewVars
<1>6. CASE UNCHANGED vars
    BY <1>6 DEF vars, RefreshMoves, viewVars
<1> QED  BY <1>1, <1>2, <1>3, <1>4, <1>5, <1>6 DEF Next, Progress

LEMMA BeginSteps ==
    ASSUME NEW c, NEW vs, Begin(c, vs), NEW d \in Clients, NEW v \in ViewNames
    PROVE  step'[<<d, v>>] = IF d = c /\ v \in vs \ inFlight THEN "meta"
                             ELSE step[<<d, v>>]
<1>1. step' = [r \in Refreshers |-> IF r[1] = c /\ r[2] \in vs \ inFlight
                                   THEN "meta" ELSE step[r]]
    BY DEF Begin
<1>2. <<d, v>> \in Refreshers
    BY DEF Refreshers
<1> QED  BY <1>1, <1>2

LEMMA MovesKeepRefreshes ==
    ASSUME RefreshInv, RefreshMoves
    PROVE  RefreshInv'
<1> USE DEF RefreshInv, Refreshing
<1>1. CASE UNCHANGED <<step, inFlight>>
    BY <1>1 DEF StepFunction
<1>2. CASE Started
  <2>0. PICK c \in Clients : \E vs : Begin(c, vs)
      BY <1>2 DEF Started
  <2>1. PICK vs : Begin(c, vs)
      BY <2>0
  <2>2. ASSUME NEW d \in Clients, NEW v \in ViewNames
        PROVE  step'[<<d, v>>] = IF d = c /\ v \in vs \ inFlight THEN "meta"
                                 ELSE step[<<d, v>>]
      BY <2>1, BeginSteps
  <2>3. StepFunction'
      BY <2>1 DEF Begin, StepFunction
  <2>4. inFlight' = inFlight \cup vs
      BY <2>1 DEF Begin
  <2>5. ASSUME NEW v \in ViewNames
        PROVE  /\ v \in inFlight' => \E d \in Clients : step'[<<d, v>>] # "idle"
               /\ \A d \in Clients : step'[<<d, v>>] # "idle" =>
                    v \in inFlight' /\ \A e \in Clients \ {d} : step'[<<e, v>>] = "idle"
    <3>1. CASE v \in inFlight
        BY <2>2, <2>4, <3>1
    <3>2. CASE v \notin inFlight
        BY <2>2, <2>4, <3>2
    <3> QED  BY <3>1, <3>2
  <2> QED  BY <2>3, <2>5
<1>3. CASE \E r \in Refreshers : Ending(r) \/ Advancing(r)
  <2>1. PICK r \in Refreshers : Ending(r) \/ Advancing(r)
      BY <1>3
  <2>4. PICK c \in Clients, v \in ViewNames : r = <<c, v>>
      BY DEF Refreshers
  <2>5. \A d \in Clients, w \in ViewNames :
          <<d, w>> \in Refreshers /\ (<<d, w>> = r <=> d = c /\ w = v)
      BY <2>4 DEF Refreshers
  <2>2. CASE Ending(r)
    <3>1. \A d \in Clients, w \in ViewNames :
            step'[<<d, w>>] = IF d = c /\ w = v THEN "idle" ELSE step[<<d, w>>]
        BY <2>4, <2>2, <2>5 DEF Ending, StepFunction
    <3>2. inFlight' = inFlight \ {v} /\ StepFunction' /\ step[<<c, v>>] # "idle"
        BY <2>4, <2>2 DEF Ending, StepFunction
    <3> QED  BY <3>1, <3>2
  <2>3. CASE Advancing(r)
    <3>1. PICK label : /\ label # "idle" /\ step' = [step EXCEPT ![r] = label]
                       /\ UNCHANGED inFlight /\ step[<<c, v>>] # "idle"
        BY <2>4, <2>3 DEF Advancing
    <3>2. \A d \in Clients, w \in ViewNames :
            step'[<<d, w>>] = IF d = c /\ w = v THEN label ELSE step[<<d, w>>]
        BY <2>4, <3>1, <2>5 DEF StepFunction
    <3>3. StepFunction'
        BY <3>1 DEF StepFunction
    <3> QED  BY <3>1, <3>2, <3>3
  <2> QED  BY <2>1, <2>2, <2>3
<1> QED  BY <1>1, <1>2, <1>3 DEF RefreshMoves

LEMMA InitRefreshes == Init => RefreshInv
BY DEF Init, RefreshInv, Refreshing, StepFunction, Refreshers

\* refreshInFlight names exactly the views that one call is refreshing: no view is
\* refreshed twice at a time, and none is left unrefreshable.
THEOREM RefreshesAreSingle == Spec => []OneRefreshPerView
<1>1. RefreshInv /\ [Next]_vars => RefreshInv'
    BY NextMoves, MovesKeepRefreshes
<1>2. RefreshInv => OneRefreshPerView
  <2> SUFFICES ASSUME RefreshInv, NEW v \in ViewNames
               PROVE  Cardinality({c \in Clients : step[<<c, v>>] # "idle"})
                          = IF v \in inFlight THEN 1 ELSE 0
      BY DEF OneRefreshPerView
  <2>1. CASE v \in inFlight
    <3>1. PICK c \in Clients : Refreshing(c, v)
        BY <2>1 DEF RefreshInv
    <3>2. {d \in Clients : step[<<d, v>>] # "idle"} = {c}
        BY <3>1 DEF RefreshInv, Refreshing
    <3> QED  BY <2>1, <3>2, FS_Singleton
  <2>2. CASE v \notin inFlight
    <3>1. {d \in Clients : step[<<d, v>>] # "idle"} = {}
        BY <2>2 DEF RefreshInv, Refreshing
    <3> QED  BY <2>2, <3>1, FS_EmptySet
  <2> QED  BY <2>1, <2>2
<1> QED  BY <1>1, <1>2, InitRefreshes, PTL DEF Spec

-----------------------------------------------------------------------------
(* The shape of the state, and what a step leaves alone.                    *)

Fields == {"key", "op", "answer", "wide", "todo", "left",
           "victims", "victim", "need", "freed", "saved", "savedTotal"}

Shaped(l) == l = [f \in Fields |-> l[f]]
EntryShaped(e) == e = [f \in {"val", "late", "current"} |-> e[f]]

TaskShapes ==
    /\ pc = [t \in Tasks |-> pc[t]]
    /\ loc = [t \in Tasks |-> loc[t]]
    /\ \A t \in Tasks : Shaped(loc[t])

StoreShapes ==
    /\ store = [k \in Keys |-> store[k]]
    /\ \A k \in Keys : store[k] # None => EntryShaped(store[k])

\* What a step leaves alone of the tasks it is not a step of.
Same(u) == pc'[u] = pc[u] /\ loc'[u] = loc[u]

SetLoc(t, l) == loc' = [loc EXCEPT ![t] = l]

\* A step of t alone, which goes to label with the local variables l.
Alone(t, label, l) == Goto(t, label) /\ SetLoc(t, l) /\ Shaped(l)

LEMMA AloneMoves ==
    ASSUME TaskShapes, NEW t \in Tasks, NEW label, NEW l, Alone(t, label, l)
    PROVE  /\ TaskShapes'
           /\ \A u \in Tasks \ {t} : Same(u)
           /\ pc'[t] = label /\ loc'[t] = l
<1>1. pc' = [pc EXCEPT ![t] = label] /\ loc' = [loc EXCEPT ![t] = l]
    BY DEF Alone, Goto, SetLoc
<1>2. /\ pc' = [u \in Tasks |-> pc'[u]] /\ loc' = [u \in Tasks |-> loc'[u]]
      /\ pc'[t] = label /\ loc'[t] = l
      /\ \A u \in Tasks \ {t} : pc'[u] = pc[u] /\ loc'[u] = loc[u]
    BY <1>1 DEF TaskShapes
<1>3. \A u \in Tasks : Shaped(loc'[u])
    BY <1>2 DEF TaskShapes, Alone
<1> QED  BY <1>2, <1>3 DEF TaskShapes, Same

LEMMA GotoMoves ==
    ASSUME TaskShapes, NEW t \in Tasks, NEW label, Goto(t, label), UNCHANGED loc
    PROVE  Alone(t, label, loc[t])
<1>1. Shaped(loc[t]) /\ loc' = [loc EXCEPT ![t] = loc[t]]
    BY DEF TaskShapes
<1> QED  BY <1>1 DEF Alone, SetLoc

LEMMA FreshIsShaped ==
    ASSUME NEW k, NEW op, NEW wide, NEW todo
    PROVE  /\ Shaped(Fresh)
           /\ Shaped([Fresh EXCEPT !.op = op, !.key = k])
           /\ Shaped([Fresh EXCEPT !.op = op, !.key = k, !.wide = wide])
           /\ Shaped([Fresh EXCEPT !.op = op, !.key = k, !.todo = todo])
BY DEF Shaped, Fresh, Fields

LEMMA ChangedFields ==
    ASSUME NEW l, Shaped(l), NEW x, NEW y, NEW z, NEW w
    PROVE  /\ Shaped([l EXCEPT !.answer = x]) /\ Shaped([l EXCEPT !.saved = x])
           /\ Shaped([l EXCEPT !.op = x]) /\ Shaped([l EXCEPT !.left = x])
           /\ Shaped([l EXCEPT !.victim = x])
           /\ Shaped([l EXCEPT !.saved = x, !.savedTotal = y, !.need = z, !.victims = w])
           /\ Shaped([l EXCEPT !.victims = x, !.freed = y])
           /\ Shaped([l EXCEPT !.todo = x, !.left = y])
BY DEF Shaped, Fields

Moves(t) == TaskShapes' /\ \A u \in Tasks \ {t} : Same(u)

LEMMA HitMoves ==
    ASSUME TaskShapes, NEW t \in Tasks, NEW k, Hit(t, k)
    PROVE  /\ Moves(t) /\ pc'[t] = "answered"
           /\ loc'[t] = [loc[t] EXCEPT !.answer = store[k].val]
<1> DEFINE answer == store[k].val
           l == [loc[t] EXCEPT !.answer = answer]
<1>1. Goto(t, "answered") /\ SetLoc(t, l)
    BY DEF Hit, SetLoc
<1>2. Shaped(l)
  <2>1. Shaped(loc[t])
      BY DEF TaskShapes
  <2> HIDE DEF answer
  <2> QED  BY <2>1, ChangedFields
<1> HIDE DEF l
<1>3. Moves(t) /\ pc'[t] = "answered" /\ loc'[t] = l
    BY <1>1, <1>2, AloneMoves DEF Alone, Moves
<1> QED  BY <1>3 DEF l

LEMMA StepMoves ==
    ASSUME TaskShapes, NEW t \in Tasks, CacheStep(t)
    PROVE  Moves(t)
<1>1. Shaped(loc[t])
    BY DEF TaskShapes
<1>2. (\E label, l : Alone(t, label, l)) => Moves(t)
    BY AloneMoves DEF Moves
<1>3. \A label : Goto(t, label) /\ UNCHANGED loc => Moves(t)
    BY <1>2, GotoMoves
<1>4. CASE Look(t)
    BY <1>3, <1>4, HitMoves DEF Look
<1>5. CASE DropLate(t) \/ ForgetLate(t)
    BY <1>3, <1>5 DEF DropLate, ForgetLate
<1>6. CASE Forget(t)
    BY <1>3, <1>6 DEF Forget, Cleared
<1>7. CASE Read(t)
  <2>1. PICK label : Goto(t, label)
      BY <1>7 DEF Read
  <2>2. SetLoc(t, [loc[t] EXCEPT !.answer = Answer(loc[t].key)])
      BY <1>7 DEF Read, SetLoc
  <2>3. Shaped([loc[t] EXCEPT !.answer = Answer(loc[t].key)])
      BY <1>1, ChangedFields
  <2> QED  BY <1>2, <2>1, <2>2, <2>3 DEF Alone
<1>8. CASE Enter(t)
  <2> DEFINE victims == IF Crowded(Need(t))
                        THEN {k \in Keys \ {loc[t].key} : tracked[k] > 0} ELSE {}
             l == [loc[t] EXCEPT !.saved = tracked, !.savedTotal = total,
                                 !.need = Need(t), !.victims = victims]
  <2>1. Goto(t, "evict") /\ SetLoc(t, l)
      BY <1>8 DEF Enter, SetLoc
  <2> HIDE DEF victims
  <2>2. Shaped(l)
      BY <1>1, ChangedFields
  <2> QED  BY <1>2, <2>1, <2>2 DEF Alone
<1>9. CASE Evicted(t)
  <2> DEFINE victims == loc[t].victims \ {loc[t].victim}
             freed == loc[t].freed + loc[t].saved[loc[t].victim]
             l == [loc[t] EXCEPT !.victims = victims, !.freed = freed]
  <2>1. loc' = [loc EXCEPT ![t].victims = victims, ![t].freed = freed]
      BY <1>1, <1>9 DEF Evicted, TaskShapes, Shaped, Fields
  <2>2. Goto(t, "evict") /\ SetLoc(t, l)
      BY <1>9, <2>1 DEF Evicted, SetLoc, TaskShapes
  <2> HIDE DEF victims, freed
  <2>3. Shaped(l)
      BY <1>1, ChangedFields
  <2> QED  BY <1>2, <2>2, <2>3 DEF Alone
<1>10. ASSUME Leave(t)
       PROVE  Moves(t)
  <2>1. Goto(t, "answered") /\ SetLoc(t, [loc[t] EXCEPT !.saved = NoneTracked])
      BY <1>10 DEF Leave, SetLoc
  <2>2. Shaped([loc[t] EXCEPT !.saved = NoneTracked])
      BY <1>1, ChangedFields
  <2> QED  BY <1>2, <2>1, <2>2 DEF Alone
<1>11. CASE Put(t) \/ Track(t)
    BY <1>3, <1>10, <1>11 DEF Put, Track
<1>12. CASE List(t)
  <2>1. CASE UNCHANGED loc
      BY <1>3, <1>12, <2>1 DEF List, Cleared
  <2>2. CASE loc' = [loc EXCEPT ![t].todo = Present \cap Clearable(t),
                                ![t].left = Present \cap Clearable(t)] /\ Goto(t, "wipe")
    <3> DEFINE l == [loc[t] EXCEPT !.todo = Present \cap Clearable(t),
                                   !.left = Present \cap Clearable(t)]
    <3>1. SetLoc(t, l)
        BY <2>2 DEF SetLoc, TaskShapes
    <3>2. Shaped(l)
        BY <1>1, ChangedFields
    <3> QED  BY <1>2, <2>2, <3>1, <3>2 DEF Alone
  <2> QED  BY <1>12, <2>1, <2>2 DEF List
<1>13. CASE Wipe(t)
  <2>1. PICK k \in loc[t].left :
            \/ loc' = [loc EXCEPT ![t].left = @ \ {k}] /\ UNCHANGED pc
            \/ Cleared(t) /\ UNCHANGED loc
      BY <1>13 DEF Wipe
  <2>2. CASE loc' = [loc EXCEPT ![t].left = @ \ {k}] /\ UNCHANGED pc
    <3>1. Goto(t, pc[t]) /\ SetLoc(t, [loc[t] EXCEPT !.left = loc[t].left \ {k}])
        BY <2>2 DEF Goto, SetLoc, TaskShapes
    <3>2. Shaped([loc[t] EXCEPT !.left = loc[t].left \ {k}])
        BY <1>1, ChangedFields
    <3> QED  BY <1>2, <3>1, <3>2 DEF Alone
  <2> QED  BY <1>3, <2>1, <2>2 DEF Cleared
<1>14. CASE Evict(t)
  <2>1. PICK victim : Goto(t, "evicted") /\ SetLoc(t, [loc[t] EXCEPT !.victim = victim])
      BY <1>14 DEF Evict, SetLoc
  <2>2. Shaped([loc[t] EXCEPT !.victim = victim])
      BY <1>1, ChangedFields
  <2> QED  BY <1>2, <2>1, <2>2 DEF Alone
<1> QED  BY <1>4, <1>5, <1>6, <1>7, <1>8, <1>9, <1>11, <1>12, <1>13, <1>14 DEF CacheStep

-----------------------------------------------------------------------------
(* Cached answers follow the data.                                          *)

\* What a step that leaves the data alone does to the cache.
CacheKept ==
    \A k \in Present' :
        \/ /\ k \in Present
           /\ store'[k].val = store[k].val /\ store'[k].current = store[k].current
        \/ store'[k].current => store'[k].val = Answer(k)

Dropped == \A k \in Keys : store'[k] = store[k] \/ store'[k] = None

LEMMA DroppedIsKept ==
    ASSUME StoreShapes, store' = [k \in Keys |-> store'[k]], Dropped
    PROVE  StoreShapes' /\ CacheKept
<1>1. \A k \in Keys : store'[k] # None => EntryShaped(store'[k])
    BY DEF StoreShapes, Dropped
<1> QED  BY <1>1 DEF StoreShapes, Dropped, CacheKept, Present

LEMMA PutIsKept ==
    ASSUME StoreShapes, NEW k, NEW a, store' = [store EXCEPT ![k] = Entry(k, a)]
    PROVE  StoreShapes' /\ CacheKept
<1> DEFINE e == Entry(k, a)
<1>1. EntryShaped(e) /\ (e.current => e.val = Answer(k))
    BY DEF Entry, EntryShaped
<1>2. store' = [store EXCEPT ![k] = e]
    OBVIOUS
<1> HIDE DEF e
<1>3. store' = [j \in Keys |-> store'[j]]
    BY <1>2 DEF StoreShapes
<1>4. \A j \in Keys : store'[j] = IF j = k THEN e ELSE store[j]
    BY <1>2 DEF StoreShapes
<1> QED  BY <1>1, <1>3, <1>4 DEF StoreShapes, CacheKept, Present

LEMMA ExpireIsKept ==
    ASSUME StoreShapes, NEW k \in Keys, Expire(k)
    PROVE  StoreShapes' /\ CacheKept
<1>1. CASE store' = [store EXCEPT ![k] = None]
  <2>1. Dropped /\ store' = [j \in Keys |-> store'[j]]
      BY <1>1 DEF StoreShapes, Dropped
  <2> QED  BY <2>1, DroppedIsKept
<1>2. CASE store' = [store EXCEPT ![k].late = TRUE]
  <2> DEFINE e == [store[k] EXCEPT !.late = TRUE]
  <2>1. EntryShaped(e) /\ e.val = store[k].val /\ e.current = store[k].current
      BY DEF Expire, StoreShapes, EntryShaped
  <2>2. store' = [store EXCEPT ![k] = e] /\ store[k] # None
      BY <1>2 DEF StoreShapes, Expire
  <2> HIDE DEF e
  <2>3. store' = [j \in Keys |-> store'[j]]
      BY <2>2 DEF StoreShapes
  <2>4. \A j \in Keys : store'[j] = IF j = k THEN e ELSE store[j]
      BY <2>2 DEF StoreShapes
  <2> QED  BY <2>1, <2>2, <2>3, <2>4 DEF StoreShapes, CacheKept, Present
<1> QED  BY <1>1, <1>2 DEF Expire

LEMMA StepKeepsCache ==
    ASSUME StoreShapes, NEW t \in Tasks, CacheStep(t)
    PROVE  StoreShapes' /\ CacheKept /\ UNCHANGED world
<1>1. ASSUME NEW k, store' = [store EXCEPT ![k] = None]
      PROVE  StoreShapes' /\ CacheKept
  <2>1. Dropped /\ store' = [j \in Keys |-> store'[j]]
      BY <1>1 DEF StoreShapes, Dropped
  <2> QED  BY <2>1, DroppedIsKept
<1>2. ASSUME UNCHANGED store
      PROVE  StoreShapes' /\ CacheKept
  <2>1. Dropped /\ store' = [j \in Keys |-> store'[j]]
      BY <1>2 DEF StoreShapes, Dropped
  <2> QED  BY <2>1, DroppedIsKept
<1>3. CASE Look(t) \/ ForgetLate(t) \/ Read(t) \/ Enter(t) \/ Evicted(t) \/ Track(t) \/ List(t)
           \/ Forget(t)
    BY <1>2, <1>3 DEF Look, ForgetLate, Read, Enter, Evicted, Track, List, Forget, Hit,
       world, cacheVars
<1>4. CASE DropLate(t) \/ Evict(t)
    BY <1>1, <1>2, <1>4 DEF DropLate, Evict, world
<1>5. CASE Put(t)
    BY <1>2, <1>5, PutIsKept DEF Put, world
<1>6. CASE Wipe(t)
  <2>1. PICK k : \/ store' = [store EXCEPT ![k] = None]
                 \/ store' = [j \in Keys |-> IF j \in loc[t].left \ {k} THEN None ELSE store[j]]
      BY <1>6 DEF Wipe
  <2>2. ASSUME store' = [j \in Keys |-> IF j \in loc[t].left \ {k} THEN None ELSE store[j]]
        PROVE  StoreShapes' /\ CacheKept
    <3>1. store' = [j \in Keys |-> store'[j]] /\ Dropped
        BY <2>2 DEF Dropped
    <3> QED  BY <3>1, DroppedIsKept
  <2>3. UNCHANGED world
      BY <1>6 DEF Wipe
  <2> QED  BY <1>1, <2>1, <2>2, <2>3
<1> QED  BY <1>3, <1>4, <1>5, <1>6 DEF CacheStep

\* A pending clearing is left alone by the steps of other tasks.
Pending(t, k) ==
    \/ pc[t] = "list" /\ loc[t].op # "clear" /\ k \in Clearable(t)
    \/ pc[t] = "wipe" /\ k \in loc[t].left

LEMMA SamePending ==
    ASSUME NEW t, Same(t), NEW k, Pending(t, k)
    PROVE  Pending(t, k)'
<1>1. Clearable(t)' = Clearable(t)
    BY DEF Same, Clearable
<1> QED  BY <1>1 DEF Same, Pending

\* The clearing that a task has begun it carries out, unless a call fails.
LEMMA StepKeepsPending ==
    ASSUME TaskShapes, StoreShapes, NEW t \in Tasks, CacheStep(t), UNCHANGED faults,
           faults \in Nat, NEW k \in Present, k \in Present', Pending(t, k)
    PROVE  Pending(t, k)'
<1>1. pc[t] \in {"list", "wipe"} /\ Shaped(loc[t])
    BY DEF Pending, TaskShapes
<1>2. ~Fault
    BY DEF Fault
<1>3. CASE List(t)
  <2> DEFINE l == [loc[t] EXCEPT !.todo = Present \cap Clearable(t),
                                 !.left = Present \cap Clearable(t)]
  <2>1. loc' = [loc EXCEPT ![t] = l] /\ pc' = [pc EXCEPT ![t] = "wipe"] /\ pc[t] = "list"
      BY <1>2, <1>3 DEF List, Goto, TaskShapes
  <2>2. loc'[t] = l /\ pc'[t] = "wipe" /\ l.left = Present \cap Clearable(t)
      BY <1>1, <2>1 DEF TaskShapes, Shaped, Fields
  <2> QED  BY <2>1, <2>2 DEF Pending
<1>4. CASE Wipe(t)
  <2>1. PICK j \in loc[t].left : /\ store' = [store EXCEPT ![j] = None]
                                 /\ loc' = [loc EXCEPT ![t].left = @ \ {j}]
                                 /\ UNCHANGED pc
      BY <1>2, <1>4 DEF Wipe
  <2>2. j # k /\ pc[t] = "wipe" /\ k \in loc[t].left
      BY <1>4, <2>1 DEF Present, StoreShapes, Pending, Wipe
  <2>3. loc'[t].left = loc[t].left \ {j}
      BY <1>1, <2>1 DEF TaskShapes, Shaped, Fields
  <2> QED  BY <2>1, <2>2, <2>3 DEF Pending
<1>5. ~Forget(t)
    BY DEF Forget, Pending
<1> QED  BY <1>1, <1>3, <1>4, <1>5 DEF CacheStep, Look, DropLate, ForgetLate, Read, Enter,
            Evict, Evicted, Put, Track

\* The steps of the views leave the cache and the data alone.
LEMMA Tasked ==
    /\ \A c \in Clients : c \in Tasks /\ c \notin Refreshers
    /\ \A r \in Refreshers : r \in Tasks
BY ViewAssumption

LEMMA FreeMoves ==
    ASSUME TaskShapes, NEW t \in Tasks, Free(t)
    PROVE  Moves(t) /\ pc'[t] = "idle" /\ loc'[t] = Fresh
<1>1. Alone(t, "idle", Fresh)
    BY FreshIsShaped DEF Free, Alone, SetLoc
<1> QED  BY <1>1, AloneMoves DEF Moves

LEMMA StayMoves ==
    ASSUME TaskShapes, UNCHANGED <<pc, loc>>, NEW t \in Tasks
    PROVE  Moves(t) /\ Same(t)
BY DEF TaskShapes, Moves, Same

LEMMA LabelMoves ==
    ASSUME TaskShapes, NEW t \in Tasks, NEW label, Goto(t, label), UNCHANGED loc
    PROVE  Moves(t) /\ pc'[t] = label /\ loc'[t] = loc[t]
BY GotoMoves, AloneMoves DEF Moves

LEMMA ViewStepMoves ==
    ASSUME TaskShapes, NEW c \in Clients, ViewStep(c)
    PROVE  /\ Moves(c) /\ UNCHANGED <<world, cacheVars, faults>>
           /\ pc[c] \notin {"list", "wipe"}
<1> c \in Tasks
    BY Tasked
<1>1. \A label : Goto(c, label) /\ UNCHANGED loc => Moves(c)
    BY LabelMoves
<1>2. CASE Return(c)
    BY <1>2, FreeMoves DEF Return
<1>3. CASE Awaited(c) \/ Delete(c)
    BY <1>1, <1>3 DEF Awaited, Delete, Cache
<1>4. CASE Create(c) \/ Update(c) \/ DeleteData(c)
    BY <1>1, <1>4 DEF Create, Update, DeleteData, Stop, Cache
<1>5. CASE Save(c) \/ Lookup(c) \/ Fetch(c)
    BY <1>1, <1>5 DEF Save, Lookup, Fetch, Stop, Await, Cache
<1>6. CASE Refresh(c) \/ RefreshAll(c) \/ AfterWrite(c)
    BY <1>1, <1>6 DEF Refresh, RefreshAll, AfterWrite, Await, Cache
<1>7. CASE Written(c)
  <2>1. CASE UNCHANGED loc
      BY <1>1, <1>7, <2>1 DEF Written
  <2>2. CASE loc' = [loc EXCEPT ![c].op = "patched"] /\ Goto(c, "list")
    <3>1. Shaped(loc[c])
        BY DEF TaskShapes
    <3>2. Shaped([loc[c] EXCEPT !.op = "patched"])
        BY <3>1, ChangedFields
    <3>3. Alone(c, "list", [loc[c] EXCEPT !.op = "patched"])
        BY <2>2, <3>2 DEF Alone, SetLoc, TaskShapes
    <3> QED  BY <1>7, <3>3, AloneMoves DEF Moves, Written
  <2> QED  BY <1>7, <2>1, <2>2 DEF Written
<1> QED  BY <1>2, <1>3, <1>4, <1>5, <1>6, <1>7 DEF ViewStep

LEMMA StartQueryMoves ==
    ASSUME TaskShapes, NEW t \in Tasks, NEW k, StartQuery(t, k)
    PROVE  /\ Moves(t) /\ UNCHANGED <<world, cacheVars, faults>>
           /\ pc'[t] = IF k[2] \in Cached THEN "look" ELSE "read"
           /\ loc'[t] = [Fresh EXCEPT !.op = "query", !.key = k]
<1> DEFINE label == IF k[2] \in Cached THEN "look" ELSE "read"
           l == [Fresh EXCEPT !.op = "query", !.key = k]
<1>1. Alone(t, label, l)
    BY FreshIsShaped DEF StartQuery, Alone, SetLoc
<1> HIDE DEF label, l
<1>2. Moves(t) /\ pc'[t] = label /\ loc'[t] = l
    BY <1>1, AloneMoves DEF Moves
<1> QED  BY <1>2 DEF label, l, StartQuery

LEMMA RefreshStepMoves ==
    ASSUME TaskShapes, NEW r \in Refreshers, RefreshStep(r)
    PROVE  /\ Moves(r) /\ UNCHANGED <<world, cacheVars>>
           /\ pc'[r] \in {pc[r], "look", "read", "idle"}
<1> r \in Tasks
    BY Tasked
<1>1. CASE GetMeta(r)
  <2>1. CASE UNCHANGED <<world, cacheVars, pc, loc, faults>>
      BY <2>1, StayMoves
  <2>2. CASE StartQuery(r, meta[r[2]].source)
      BY <2>2, StartQueryMoves
  <2> QED  BY <1>1, <2>1, <2>2 DEF GetMeta
<1>2. CASE StoreResult(r) \/ RefreshFails(r)
    BY <1>2, FreeMoves DEF StoreResult, RefreshFails
<1>3. CASE SaveMeta(r)
    BY <1>3, StayMoves DEF SaveMeta
<1> QED  BY <1>1, <1>2, <1>3 DEF RefreshStep

Writes == {"set", "patch", "append", "delete"}

\* A write that does not fail: its local variables.
WriteLocals(p, op) == [Fresh EXCEPT !.op = op, !.key = <<p, Fresh.key[2]>>]

LEMMA ChangeMoves ==
    ASSUME TaskShapes, faults \in Nat, NEW t \in Tasks, NEW p, NEW op, Change(t, p, op)
    PROVE  /\ Moves(t) /\ pc[t] = "idle" /\ UNCHANGED cacheVars
           /\ faults' = faults => pc'[t] = "list" /\ loc'[t] = WriteLocals(p, op)
           /\ faults' = faults \/ Fault
<1>1. CASE Fault /\ UNCHANGED <<pc, loc>>
    BY <1>1, StayMoves DEF Change, Fault
<1>2. CASE ~(Fault /\ UNCHANGED <<pc, loc>>)
  <2>1. SetLoc(t, WriteLocals(p, op)) /\ Goto(t, "list")
      BY <1>2 DEF Change, SetLoc, WriteLocals
  <2>2. Shaped(WriteLocals(p, op))
      BY FreshIsShaped DEF WriteLocals
  <2> QED  BY <1>2, <2>1, <2>2, AloneMoves DEF Alone, Moves, Change
<1> QED  BY <1>1, <1>2

LEMMA CallMoves ==
    ASSUME TaskShapes, StoreShapes, faults \in Nat, NEW c \in Clients, Call(c)
    PROVE  /\ Moves(c) /\ pc[c] = "idle"
           /\ \/ \E p \in Paths, op \in Writes : Write(c, p, op)
              \/ UNCHANGED <<world, faults>> /\ StoreShapes' /\ CacheKept
<1> c \in Tasks
    BY Tasked
<1>1. UNCHANGED store => StoreShapes' /\ CacheKept
    BY DEF StoreShapes, CacheKept, Present
<1>2. ASSUME NEW p \in Paths, NEW op \in Writes, Write(c, p, op)
      PROVE  Moves(c) /\ pc[c] = "idle"
    BY <1>2, ChangeMoves DEF Write
<1>3. ASSUME NEW k \in Keys, Query(c, k)
      PROVE  Moves(c) /\ pc[c] = "idle" /\ UNCHANGED <<world, cacheVars, faults>>
    BY <1>3, StartQueryMoves DEF Query
<1>4. ASSUME NEW p \in Paths, NEW wide \in BOOLEAN, Clear(c, p, wide)
      PROVE  Moves(c) /\ pc[c] = "idle" /\ UNCHANGED <<world, cacheVars, faults>>
  <2> DEFINE q == Fresh.key[2]
             l == [Fresh EXCEPT !.op = "clear", !.key = <<p, q>>, !.wide = wide]
  <2>1. SetLoc(c, l) /\ Goto(c, "list")
      BY <1>4 DEF Clear, StartClear, SetLoc
  <2>2. Shaped(l)
    <3> DEFINE k == <<p, q>>
    <3>1. Shaped([Fresh EXCEPT !.op = "clear", !.key = k, !.wide = wide])
      <4> HIDE DEF k
      <4> QED  BY FreshIsShaped
    <3> QED  BY <3>1
  <2> QED  BY <1>4, <2>1, <2>2, AloneMoves DEF Alone, Moves, Clear, StartClear
<1>5. ASSUME NEW k \in Keys, ClearOne(c, k)
      PROVE  Moves(c) /\ pc[c] = "idle" /\ UNCHANGED <<world, faults>>
             /\ StoreShapes' /\ CacheKept
  <2> DEFINE l == [Fresh EXCEPT !.op = "clear", !.key = k, !.todo = {k}]
  <2>1. SetLoc(c, l) /\ Goto(c, "wipe")
      BY <1>5 DEF ClearOne, ClearQuery, SetLoc
  <2>2. Shaped(l)
    <3> DEFINE todo == {k}
    <3>1. Shaped([Fresh EXCEPT !.op = "clear", !.key = k, !.todo = todo])
      <4> HIDE DEF todo
      <4> QED  BY FreshIsShaped
    <3> QED  BY <3>1
  <2>3. Dropped /\ store' = [j \in Keys |-> store'[j]]
      BY <1>5 DEF ClearOne, ClearQuery, StoreShapes, Dropped
  <2> QED  BY <1>5, <2>1, <2>2, <2>3, AloneMoves, DroppedIsKept
           DEF Alone, Moves, ClearOne, ClearQuery
<1>6. ASSUME NEW label, NEW j, Ask(c, label, j)
      PROVE  Moves(c) /\ pc[c] = "idle" /\ UNCHANGED <<world, cacheVars, faults>>
    BY <1>6, LabelMoves DEF Ask, Cache
<1>7. ASSUME NEW v \in ViewNames, CallView(c, v)
      PROVE  Moves(c) /\ pc[c] = "idle" /\ UNCHANGED <<world, cacheVars, faults>>
    BY <1>6, <1>7 DEF CallView
<1>8. UNCHANGED cacheVars => UNCHANGED store
    BY DEF cacheVars
<1>9. \/ \E p \in Paths, op \in Writes : Write(c, p, op)
      \/ \E k \in Keys : Query(c, k) \/ ClearOne(c, k)
      \/ \E p \in Paths, wide \in BOOLEAN : Clear(c, p, wide)
      \/ \E v \in ViewNames : CallView(c, v)
      \/ Ask(c, "refreshAll", NoJob)
    BY DEF Call, Writes
<1>10. CASE \E p \in Paths, op \in Writes : Write(c, p, op)
    BY <1>2, <1>10
<1>11. CASE \E k \in Keys : Query(c, k) \/ ClearOne(c, k)
    BY <1>1, <1>3, <1>5, <1>8, <1>11
<1>12. CASE \E p \in Paths, wide \in BOOLEAN : Clear(c, p, wide)
    BY <1>1, <1>4, <1>8, <1>12
<1>13. CASE (\E v \in ViewNames : CallView(c, v)) \/ Ask(c, "refreshAll", NoJob)
    BY <1>1, <1>6, <1>7, <1>8, <1>13
<1> QED  BY <1>9, <1>10, <1>11, <1>12, <1>13

CacheInv ==
    /\ TaskShapes /\ StoreShapes
    /\ data = [p \in Paths |-> data[p]]
    /\ faults \in Nat
    /\ \A r \in Refreshers : pc[r] \notin {"list", "wipe"}
    /\ CacheFollowsData

LEMMA StepFaults ==
    ASSUME NEW t \in Tasks, CacheStep(t)
    PROVE  UNCHANGED faults \/ Fault
BY DEF CacheStep, Look, DropLate, ForgetLate, Read, Enter, Evict, Evicted, Put, Track,
   List, Wipe, Forget

LEMMA NextFaults ==
    ASSUME TaskShapes, StoreShapes, faults \in Nat, [Next]_vars
    PROVE  UNCHANGED faults \/ Fault
<1>1. CASE \E c \in Clients : Call(c)
  <2>1. PICK c \in Clients : Call(c)
      BY <1>1
  <2>2. CASE \E p \in Paths, op \in Writes : Write(c, p, op)
      BY <2>2, ChangeMoves, Tasked DEF Write
  <2> QED  BY <2>1, <2>2, CallMoves
<1>2. CASE \E c \in Clients : ViewStep(c)
    BY <1>2, ViewStepMoves
<1>3. CASE \E r \in Refreshers : RefreshStep(r)
    BY <1>3 DEF RefreshStep, GetMeta, StartQuery, StoreResult, SaveMeta, RefreshFails
<1>4. CASE \E t \in Tasks : CacheTask(t)
    BY <1>4, StepFaults DEF CacheTask
<1>5. CASE Time
    BY <1>5 DEF Time, Expire, Age, Cache
<1>6. CASE UNCHANGED vars
    BY <1>6 DEF vars
<1> QED  BY <1>1, <1>2, <1>3, <1>4, <1>5, <1>6 DEF Next, Progress

\* No step of the cache begins a clearing.
LEMMA StepBeginsNone ==
    ASSUME TaskShapes, NEW t \in Tasks, CacheStep(t), pc[t] \notin {"list", "wipe"}
    PROVE  pc'[t] \notin {"list", "wipe"}
<1>1. \A label : Goto(t, label) => pc'[t] = label
    BY DEF Goto, TaskShapes
<1> QED  BY <1>1 DEF CacheStep, Look, Hit, DropLate, ForgetLate, Read, Enter, Evict, Evicted,
            Put, Leave, Track, List, Wipe, Forget

LEMMA PendingIsAll ==
    ASSUME NEW k PROVE ClearPending(k) <=> \E t \in Tasks : Pending(t, k)
BY DEF ClearPending, Pending

LEMMA PendingIsAllNext ==
    ASSUME NEW k PROVE ClearPending(k)' <=> \E t \in Tasks : Pending(t, k)'
BY DEF ClearPending, Pending

LEMMA FollowingIsKept ==
    ASSUME CacheFollowsData, faults = 0, UNCHANGED data, CacheKept,
           \A t \in Tasks, k \in Present :
                k \in Present' /\ Pending(t, k) => Pending(t, k)'
    PROVE  CacheFollowsData'
<1> SUFFICES ASSUME NEW k \in Keys, k \in Present',
                    store'[k].current, Inside(k)', store'[k].val # Answer(k)'
             PROVE  ClearPending(k)'
    BY DEF CacheFollowsData, Present
<1>1. Answer(k)' = Answer(k) /\ Inside(k)' = Inside(k)
    BY DEF Answer, Inside, Scope, KeyPath
<1>2. k \in Present /\ store'[k].val = store[k].val /\ store'[k].current = store[k].current
    BY <1>1 DEF CacheKept
<1>3. ClearPending(k)
    BY <1>1, <1>2 DEF CacheFollowsData
<1> QED  BY <1>2, <1>3, PendingIsAll, PendingIsAllNext

\* A write that changes what a cached answer was read from goes on to clear it.
LEMMA WriteKeepsFollowing ==
    ASSUME CacheInv, faults = 0, UNCHANGED faults, NEW c \in Tasks, NEW p \in Paths,
           NEW op \in Writes, Change(c, p, op)
    PROVE  CacheFollowsData'
<1>1. /\ Moves(c) /\ pc[c] = "idle" /\ UNCHANGED store /\ pc'[c] = "list"
      /\ loc'[c] = WriteLocals(p, op)
    BY ChangeMoves DEF CacheInv, cacheVars
<1>2. loc'[c].op # "clear" /\ loc'[c].key[1] = p /\ loc'[c].wide = FALSE
    BY <1>1 DEF WriteLocals, Fresh, Writes
<1> SUFFICES ASSUME NEW k \in Keys, k \in Present',
                    store'[k].current, Inside(k)', store'[k].val # Answer(k)'
             PROVE  \E t \in Tasks : Pending(t, k)'
    BY PendingIsAllNext DEF CacheFollowsData, Present
<1>3. k \in Present /\ store[k].current /\ Inside(k) /\ store[k].val = store'[k].val
    BY <1>1 DEF Present, Inside, Scope, KeyPath
<1>4. CASE Answer(k)' = Answer(k)
  <2>1. PICK t \in Tasks : Pending(t, k)
      BY <1>3, <1>4, PendingIsAll DEF CacheInv, CacheFollowsData
  <2>2. t # c
      BY <1>1, <2>1 DEF Pending
  <2> QED  BY <1>1, <2>1, <2>2, SamePending DEF Moves
<1>5. CASE Answer(k)' # Answer(k)
  <2>1. Scope(k) \subseteq Paths
      BY CacheAssumption DEF Scope, Keys
  <2>2. PICK q \in Scope(k) : data'[q] # data[q]
      BY <1>5 DEF Answer
  <2>3. q = p
      BY <2>1, <2>2 DEF CacheInv, Change
  <2>4. KeyPath(k) = Top(p)
      BY <1>3, <2>2, <2>3 DEF Inside
  <2>5. k \in Clearable(c)'
      BY <1>2, <2>4 DEF Clearable, Prefixed, KeyPath
  <2> QED  BY <1>1, <1>2, <2>5 DEF Pending
<1> QED  BY <1>4, <1>5

LEMMA NextKeepsCache ==
    ASSUME CacheInv, [Next]_vars
    PROVE  CacheInv'
<1> USE DEF CacheInv
<1>1. faults' \in Nat /\ (faults' = 0 => faults = 0 /\ UNCHANGED faults /\ ~Fault)
    BY NextFaults DEF Fault
<1>2. ASSUME NEW t \in Tasks, Moves(t), StoreShapes', CacheKept, UNCHANGED world,
             \A k \in Present : k \in Present' /\ Pending(t, k) /\ faults' = 0 => Pending(t, k)',
             t \in Refreshers => pc'[t] \notin {"list", "wipe"}
      PROVE  CacheInv'
  <2>1. data' = [p \in Paths |-> data'[p]]
      BY <1>2 DEF world
  <2>2. \A r \in Refreshers : pc'[r] \notin {"list", "wipe"}
      BY <1>2, Tasked DEF Moves, Same
  <2>3. CASE faults' = 0
    <3>1. \A u \in Tasks, k \in Present : k \in Present' /\ Pending(u, k) => Pending(u, k)'
        BY <1>2, <2>3, SamePending DEF Moves
    <3>2. CacheFollowsData'
        BY <1>1, <1>2, <2>3, <3>1, FollowingIsKept DEF world
    <3> QED  BY <1>1, <1>2, <2>1, <2>2, <3>2 DEF Moves
  <2>4. CASE faults' # 0
    <3>1. CacheFollowsData'
        BY <2>4 DEF CacheFollowsData
    <3> QED  BY <1>1, <1>2, <2>1, <2>2, <3>1 DEF Moves
  <2> QED  BY <2>3, <2>4
<1>3. UNCHANGED <<world, cacheVars>> => StoreShapes' /\ CacheKept /\ UNCHANGED world
    BY DEF StoreShapes, CacheKept, Present, cacheVars
<1>4. CASE \E t \in Tasks : CacheTask(t)
  <2>1. PICK t \in Tasks : CacheStep(t)
      BY <1>4 DEF CacheTask
  <2>2. \A k \in Present : k \in Present' /\ Pending(t, k) /\ faults' = 0 => Pending(t, k)'
      BY <1>1, <2>1, StepKeepsPending
  <2>3. Moves(t) /\ StoreShapes' /\ CacheKept /\ UNCHANGED world
      BY <2>1, StepMoves, StepKeepsCache
  <2>4. t \in Refreshers => pc'[t] \notin {"list", "wipe"}
      BY <2>1, StepBeginsNone
  <2> QED  BY <1>2, <2>2, <2>3, <2>4
<1>5. CASE \E c \in Clients : ViewStep(c)
  <2>1. PICK c \in Clients : ViewStep(c)
      BY <1>5
  <2>2. /\ Moves(c) /\ pc[c] \notin {"list", "wipe"} /\ c \in Tasks /\ c \notin Refreshers
        /\ UNCHANGED <<world, cacheVars>>
      BY <2>1, ViewStepMoves, Tasked
  <2> QED  BY <1>2, <1>3, <2>2 DEF Pending
<1>6. CASE \E r \in Refreshers : RefreshStep(r)
  <2>1. PICK r \in Refreshers : RefreshStep(r)
      BY <1>6
  <2>2. /\ Moves(r) /\ pc[r] \notin {"list", "wipe"} /\ pc'[r] \notin {"list", "wipe"}
        /\ r \in Tasks /\ UNCHANGED <<world, cacheVars>>
      BY <2>1, RefreshStepMoves, Tasked
  <2> QED  BY <1>2, <1>3, <2>2 DEF Pending
<1>7. CASE \E c \in Clients : Call(c)
  <2>1. PICK c \in Clients : Call(c)
      BY <1>7
  <2>2. Moves(c) /\ pc[c] = "idle" /\ c \in Tasks /\ c \notin Refreshers
      BY <2>1, CallMoves, Tasked
  <2>3. CASE UNCHANGED <<world, faults>> /\ StoreShapes' /\ CacheKept
      BY <1>2, <2>2, <2>3 DEF Pending
  <2>4. CASE \E p \in Paths, op \in Writes : Write(c, p, op)
    <3>1. PICK p \in Paths, op \in Writes : Change(c, p, op)
        BY <2>4 DEF Write
    <3>2. CacheFollowsData'
      <4>1. CASE faults' = 0
          BY <1>1, <2>2, <3>1, <4>1, WriteKeepsFollowing
      <4>2. CASE faults' # 0
          BY <4>2 DEF CacheFollowsData
      <4> QED  BY <4>1, <4>2
    <3>3. data' = [q \in Paths |-> data'[q]] /\ UNCHANGED cacheVars
        BY <3>1 DEF Change
    <3>4. StoreShapes'
        BY <3>3 DEF StoreShapes, cacheVars
    <3>5. \A r \in Refreshers : pc'[r] \notin {"list", "wipe"}
        BY <2>2, Tasked DEF Moves, Same
    <3> QED  BY <1>1, <2>2, <3>2, <3>3, <3>4, <3>5 DEF Moves
  <2> QED  BY <2>1, <2>3, <2>4, CallMoves
<1>8. CASE Time \/ UNCHANGED vars
  <2>1. UNCHANGED <<world, pc, loc>>
      BY <1>8 DEF Time, Expire, Age, Cache, vars
  <2>2. StoreShapes' /\ CacheKept
    <3>1. CASE \E k \in Keys : Expire(k)
        BY <3>1, ExpireIsKept
    <3>2. CASE ~\E k \in Keys : Expire(k)
      <4>1. UNCHANGED <<world, cacheVars>>
          BY <1>8, <3>2 DEF Time, Age, Cache, vars
      <4> QED  BY <1>3, <4>1
    <3> QED  BY <3>1, <3>2
  <2>3. \A t \in Tasks : Moves(t) /\ Same(t)
      BY <2>1, StayMoves
  <2>4. CASE Tasks # {}
    <3>1. PICK t \in Tasks : TRUE
        BY <2>4
    <3>2. \A k \in Present : Pending(t, k) => Pending(t, k)'
        BY <2>3, SamePending
    <3>3. t \in Refreshers => pc'[t] \notin {"list", "wipe"}
        BY <2>1
    <3> QED  BY <1>2, <2>1, <2>2, <2>3, <3>2, <3>3
  <2>5. CASE Tasks = {}
    <3>1. faults' = 0 => CacheFollowsData'
        BY <1>1, <2>1, <2>2, <2>5, FollowingIsKept DEF world
    <3>2. CacheFollowsData'
        BY <3>1 DEF CacheFollowsData
    <3>3. data' = [p \in Paths |-> data'[p]] /\ TaskShapes'
        BY <2>1, <2>5 DEF world, TaskShapes
    <3> QED  BY <1>1, <2>1, <2>2, <3>2, <3>3
  <2> QED  BY <2>4, <2>5
<1> QED  BY <1>4, <1>5, <1>6, <1>7, <1>8 DEF Next, Progress

LEMMA InitCache == Init => CacheInv
<1> SUFFICES ASSUME Init PROVE CacheInv
    OBVIOUS
<1>1. TaskShapes
  <2>1. Shaped(Fresh)
      BY FreshIsShaped
  <2> QED  BY <2>1 DEF Init, TaskShapes
<1>2. PICK warm \in SUBSET Keys :
          store = [k \in Keys |-> IF k \in warm THEN Entry(k, Answer(k)) ELSE None]
    BY DEF Init, CacheInit
<1>3. StoreShapes
    BY <1>2 DEF StoreShapes, EntryShaped, Entry
<1>4. \A k \in Present : store[k].val = Answer(k)
    BY <1>2 DEF Present, Entry
<1>5. faults = 0 /\ data = [p \in Paths |-> data[p]]
    BY DEF Init, CacheInit
<1>6. \A r \in Refreshers : pc[r] = "idle"
    BY Tasked DEF Init
<1> QED  BY <1>1, <1>3, <1>4, <1>5, <1>6 DEF CacheInv, CacheFollowsData

\* While nothing fails, a cached answer to a query inside its collection that was
\* right when it was stored and is wrong now is about to be deleted by the write
\* that made it wrong (router.ts:581, 661, 734, 770): with any number of calls in
\* progress, no stale answer outlives the writes that outdated it.
THEOREM CachedAnswersFollow == Spec => []CacheFollowsData
<1>1. CacheInv => CacheFollowsData
    BY DEF CacheInv
<1> QED  BY <1>1, InitCache, NextKeepsCache, PTL DEF Spec

-----------------------------------------------------------------------------
(* A writer returns when the views that it refreshed show its write.        *)

JobFields == {"view", "def", "what", "next", "force", "started", "stamp"}
JobShaped(j) == j = [f \in JobFields |-> j[f]]

Writing(c) == pc[c] = "written" \/ (pc[c] = "refreshing" /\ job[c].next = "written")

Shows(a, p, stamp) == (a # None /\ p \in DOMAIN a) => Abs(a[p]) >= stamp
WrittenTo(c) == KeyPath(loc[c].key)

DataStamps ==
    /\ data \in [Paths -> Int] /\ writes \in Nat
    /\ \A p \in Paths : Abs(data[p]) <= writes

JobShapes == job = [c \in Clients |-> job[c]] /\ \A c \in Clients : JobShaped(job[c])

Stamped(c) ==
    /\ job[c].stamp \in Nat
    /\ pc[c] = "idle" => job[c].stamp = 0
    /\ job[c].stamp # 0 =>
         WrittenTo(c) \in Paths /\ job[c].stamp <= Abs(data[WrittenTo(c)])
    /\ \/ pc[c] \in {"list", "wipe"} /\ loc[c].op # "clear"
       \/ pc[c] = "cleared"
       \/ Writing(c)
       => job[c].stamp # 0
    /\ pc[c] = "refreshing" => job[c].next \in {"written", "return", "fetch"}
    /\ Writing(c) => job[c].started \subseteq ViewNames
    /\ \A v \in ViewNames : step[<<c, v>>] # "idle" => pc[c] = "refreshing"

FreshQuery(d, v, c) ==
    step[<<d, v>>] = "query" =>
        /\ loc[<<d, v>>].key[2] \notin Cached
        /\ \/ pc[<<d, v>>] = "read"
           \/ pc[<<d, v>>] = "answered"
              /\ Shows(loc[<<d, v>>].answer, WrittenTo(c), job[c].stamp)

RefreshedFor(c) ==
    \A v \in job[c].started :
        /\ step[<<c, v>>] \in {"save", "idle"} => Shows(view[v], WrittenTo(c), job[c].stamp)
        /\ \A d \in Clients : FreshQuery(d, v, c)

ViewShape == view = [v \in ViewNames |-> view[v]]

WriterInv ==
    faults = 0 =>
        /\ DataStamps /\ JobShapes /\ ViewShape
        /\ \A c \in Clients : Stamped(c) /\ (Writing(c) => RefreshedFor(c))

DataGrows == \A p \in Paths : Abs(data[p]) <= Abs(data'[p])

\* What a step leaves alone of a client's call, or takes from it.
SameJob(c) ==
    /\ job'[c].stamp = job[c].stamp /\ job'[c].next = job[c].next
    /\ job'[c].view = job[c].view /\ job'[c].def = job[c].def
    /\ job'[c].started \subseteq job[c].started

LEMMA StampedIsKept ==
    ASSUME NEW c \in Clients, Stamped(c), Same(c), SameJob(c), DataStamps, DataStamps',
           DataGrows,
           \A v \in ViewNames : step'[<<c, v>>] # "idle" => step[<<c, v>>] # "idle"
    PROVE  Stamped(c)' /\ (Writing(c)' <=> Writing(c))
<1>1. WrittenTo(c)' = WrittenTo(c)
    BY DEF Same, WrittenTo, KeyPath
<1>2. Writing(c)' <=> Writing(c)
    BY DEF Writing, Same, SameJob
<1>3. job'[c].stamp # 0 => job'[c].stamp <= Abs(data'[WrittenTo(c)]) /\ WrittenTo(c) \in Paths
    BY DEF SameJob, Stamped, DataGrows, DataStamps, Abs
<1>4. job'[c].stamp \in Nat /\ (pc'[c] = "idle" => job'[c].stamp = 0)
    BY DEF SameJob, Stamped, Same
<1>5. \/ pc'[c] \in {"list", "wipe"} /\ loc'[c].op # "clear"
      \/ pc'[c] = "cleared"
      \/ Writing(c)'
      => job'[c].stamp # 0
    BY <1>2 DEF SameJob, Stamped, Same
<1>6. /\ pc'[c] = "refreshing" => job'[c].next \in {"written", "return", "fetch"}
      /\ Writing(c)' => job'[c].started \subseteq ViewNames
      /\ \A v \in ViewNames : step'[<<c, v>>] # "idle" => pc'[c] = "refreshing"
    BY <1>2 DEF SameJob, Stamped, Same
<1> QED  BY <1>1, <1>2, <1>3, <1>4, <1>5, <1>6 DEF Stamped

LEMMA FreshIsKept ==
    ASSUME NEW c, NEW d, NEW v, FreshQuery(d, v, c), Same(<<d, v>>),
           WrittenTo(c)' = WrittenTo(c), job'[c].stamp = job[c].stamp,
           step'[<<d, v>>] = "query" => step[<<d, v>>] = "query"
    PROVE  FreshQuery(d, v, c)'
BY DEF FreshQuery, Same, Shows

\* A step of anything but a refresh: the views it leaves, or it empties them.
LEMMA RefreshedIsKept ==
    ASSUME NEW c \in Clients, RefreshedFor(c), job[c].started \subseteq ViewNames,
           WrittenTo(c)' = WrittenTo(c), SameJob(c),
           \A v \in ViewNames : view'[v] = view[v] \/ view'[v] = None,
           \A d \in Clients, v \in ViewNames :
               Same(<<d, v>>) /\ step'[<<d, v>>] \in {step[<<d, v>>], "meta"}
    PROVE  RefreshedFor(c)'
<1> SUFFICES ASSUME NEW v \in job'[c].started
             PROVE  /\ step'[<<c, v>>] \in {"save", "idle"} =>
                          Shows(view[v], WrittenTo(c), job[c].stamp)'
                    /\ \A d \in Clients : FreshQuery(d, v, c)'
    BY DEF RefreshedFor
<1>1. v \in ViewNames /\ v \in job[c].started
    BY DEF SameJob
<1>2. ASSUME step'[<<c, v>>] \in {"save", "idle"}
      PROVE  Shows(view[v], WrittenTo(c), job[c].stamp)'
  <2>1. Shows(view[v], WrittenTo(c), job[c].stamp)
      BY <1>1, <1>2 DEF RefreshedFor
  <2> QED  BY <1>1, <2>1 DEF Shows, SameJob
<1>3. ASSUME NEW d \in Clients
      PROVE  FreshQuery(d, v, c)'
  <2>1. FreshQuery(d, v, c)
      BY <1>1 DEF RefreshedFor
  <2>2. step'[<<d, v>>] = "query" => step[<<d, v>>] = "query"
      BY <1>1
  <2>3. job'[c].stamp = job[c].stamp
      BY DEF SameJob
  <2> QED  BY <1>1, <2>1, <2>2, <2>3, FreshIsKept
<1> QED  BY <1>2, <1>3

\* What a step of a client does to the calls, the refreshes and the results.
ClientEffect(e) ==
    /\ JobShapes'
    /\ \A c \in Clients \ {e} : job'[c] = job[c]
    /\ \A d \in Clients, v \in ViewNames :
          \/ step'[<<d, v>>] = step[<<d, v>>]
          \/ d = e /\ step'[<<d, v>>] = "meta"
    /\ view' = [v \in ViewNames |-> view'[v]]
    /\ \A v \in ViewNames : view'[v] = view[v] \/ view'[v] = None

SetJob(e, j) == job' = [job EXCEPT ![e] = j]

LEMMA NoJobIsShaped ==
    ASSUME NEW v, NEW d, NEW w, NEW f, NEW s
    PROVE  /\ JobShaped(NoJob) /\ JobShaped([NoJob EXCEPT !.view = v])
           /\ JobShaped([NoJob EXCEPT !.view = v, !.force = f])
           /\ JobShaped([NoJob EXCEPT !.view = v, !.def = d])
           /\ JobShaped([NoJob EXCEPT !.view = v, !.what = w, !.def = d])
           /\ JobShaped([NoJob EXCEPT !.stamp = s])
BY DEF JobShaped, JobFields, NoJob

LEMMA ChangedJob ==
    ASSUME NEW j, JobShaped(j), NEW x, NEW y
    PROVE  /\ JobShaped([j EXCEPT !.def = x]) /\ JobShaped([j EXCEPT !.started = x])
           /\ JobShaped([j EXCEPT !.next = x, !.started = y])
BY DEF JobShaped, JobFields

LEMMA SetJobEffect ==
    ASSUME JobShapes, NEW e \in Clients, NEW j, JobShaped(j), SetJob(e, j)
    PROVE  JobShapes' /\ job'[e] = j /\ \A c \in Clients \ {e} : job'[c] = job[c]
BY DEF JobShapes, SetJob

LEMMA AwaitEffect ==
    ASSUME JobShapes, ViewShape, NEW e \in Clients, NEW vs, NEW next, Await(e, vs, next),
           UNCHANGED view
    PROVE  /\ ClientEffect(e)
           /\ job'[e].stamp = job[e].stamp /\ job'[e].next = next
           /\ job'[e].started = vs \ inFlight
           /\ Goto(e, "refreshing") /\ Begin(e, vs)
<1> DEFINE started == vs \ inFlight
           j == [job[e] EXCEPT !.next = next, !.started = started]
<1>1. JobShaped(job[e])
    BY DEF JobShapes
<1>2. SetJob(e, j)
    BY DEF Await, SetJob, JobShapes
<1>3. JobShaped(j)
  <2> HIDE DEF started
  <2> QED  BY <1>1, ChangedJob
<1>4. JobShapes' /\ job'[e] = j /\ \A c \in Clients \ {e} : job'[c] = job[c]
  <2> HIDE DEF j
  <2> QED  BY <1>2, <1>3, SetJobEffect
<1>5. Begin(e, vs) /\ Goto(e, "refreshing")
    BY DEF Await
<1>6. ASSUME NEW d \in Clients, NEW v \in ViewNames
      PROVE  step'[<<d, v>>] = IF d = e /\ v \in vs \ inFlight THEN "meta" ELSE step[<<d, v>>]
    BY <1>5, BeginSteps
<1>7. j.stamp = job[e].stamp /\ j.next = next /\ j.started = vs \ inFlight
    BY <1>1 DEF JobShaped, JobFields
<1> QED  BY <1>4, <1>5, <1>6, <1>7 DEF ClientEffect, ViewShape

LEMMA StopEffect ==
    ASSUME JobShapes, ViewShape, NEW e \in Clients, UNCHANGED step, SetJob(e, NoJob),
           \/ UNCHANGED view
           \/ \E v : view' = [view EXCEPT ![v] = None]
    PROVE  ClientEffect(e) /\ job'[e] = NoJob
<1>1. JobShapes' /\ job'[e] = NoJob /\ \A c \in Clients \ {e} : job'[c] = job[c]
    BY SetJobEffect, NoJobIsShaped
<1>2. /\ view' = [v \in ViewNames |-> view'[v]]
      /\ \A v \in ViewNames : view'[v] = view[v] \/ view'[v] = None
    BY DEF ViewShape
<1> QED  BY <1>1, <1>2 DEF ClientEffect

LEMMA StillEffect ==
    ASSUME JobShapes, ViewShape, NEW e \in Clients, UNCHANGED <<step, view, job>>
    PROVE  ClientEffect(e)
BY DEF ClientEffect, JobShapes, ViewShape

\* What a client's own steps leave true of its call.
Answering(c) == Stamped(c)' /\ (Writing(c)' => RefreshedFor(c)')

LEMMA GoneIdle ==
    ASSUME NEW c \in Clients, pc'[c] = "idle", job'[c] = NoJob,
           \A v \in ViewNames : step'[<<c, v>>] = "idle"
    PROVE  Answering(c)
BY DEF Answering, Stamped, NoJob, Writing

LEMMA GoneOn ==
    ASSUME NEW c \in Clients, Stamped(c), UNCHANGED data, loc'[c] = loc[c],
           job'[c].stamp = job[c].stamp,
           pc'[c] \in {"save", "fetch", "deleteData", "answered"},
           \A v \in ViewNames : step'[<<c, v>>] = "idle"
    PROVE  Answering(c)
BY DEF Answering, Stamped, Writing, WrittenTo

LEMMA GoneWaiting ==
    ASSUME NEW c \in Clients, Stamped(c), UNCHANGED data, loc'[c] = loc[c],
           job'[c].stamp = job[c].stamp, pc'[c] = "refreshing",
           job'[c].next \in {"return", "fetch"}
    PROVE  Answering(c)
BY DEF Answering, Stamped, Writing, WrittenTo

\* The refreshes that follow a write read the data after it.
LEMMA GoneRefreshing ==
    ASSUME RefreshInv, NEW c \in Clients, Stamped(c), UNCHANGED data, loc'[c] = loc[c],
           pc[c] = "cleared", pc'[c] = "refreshing", job'[c].stamp = job[c].stamp,
           job'[c].next = "written", NEW vs \in SUBSET ViewNames,
           job'[c].started = vs \ inFlight, Begin(c, vs)
    PROVE  Answering(c)
<1>1. Stamped(c)'
    BY DEF Stamped, Writing, WrittenTo
<1>2. ASSUME NEW v \in vs \ inFlight, NEW d \in Clients
      PROVE  step'[<<d, v>>] \in {"meta", "idle"} /\ step'[<<c, v>>] = "meta"
  <2>1. step[<<d, v>>] = "idle"
      BY <1>2 DEF RefreshInv, Refreshing
  <2>2. step'[<<d, v>>] = IF d = c /\ v \in vs \ inFlight THEN "meta" ELSE step[<<d, v>>]
      BY BeginSteps
  <2>3. step'[<<c, v>>] = IF c = c /\ v \in vs \ inFlight THEN "meta" ELSE step[<<c, v>>]
      BY BeginSteps
  <2> QED  BY <2>1, <2>2, <2>3
<1>3. RefreshedFor(c)'
    BY <1>2 DEF RefreshedFor, FreshQuery
<1> QED  BY <1>1, <1>3 DEF Answering

\* The views are all refreshed when the writer goes on.
LEMMA GoneWritten ==
    ASSUME NEW c \in Clients, Stamped(c), Writing(c) => RefreshedFor(c), pc[c] = "refreshing",
           UNCHANGED <<data, loc, job, step, view>>, pc'[c] = job[c].next,
           \A d \in Clients, v \in ViewNames : pc'[<<d, v>>] = pc[<<d, v>>],
           \A v \in ViewNames : step[<<c, v>>] = "idle"
    PROVE  Answering(c)
<1>1. job[c].next \in {"written", "return", "fetch"}
    BY DEF Stamped
<1>2. CASE job[c].next = "written"
  <2>1. Writing(c) /\ RefreshedFor(c) /\ job[c].started \subseteq ViewNames
      BY <1>2 DEF Writing, Stamped
  <2>2. Stamped(c)'
      BY <1>2, <2>1 DEF Stamped, Writing, WrittenTo
  <2>3. WrittenTo(c)' = WrittenTo(c)
      BY DEF WrittenTo
  <2>4. RefreshedFor(c)'
      BY <2>1, <2>3 DEF RefreshedFor, FreshQuery, Shows
  <2> QED  BY <2>2, <2>4 DEF Answering
<1>3. CASE job[c].next # "written"
    BY <1>1, <1>3 DEF Answering, Stamped, Writing, WrittenTo
<1> QED  BY <1>2, <1>3

\* The second clearing of a patch.
LEMMA GoneAgain ==
    ASSUME NEW c \in Clients, Stamped(c), UNCHANGED <<data, job>>, loc'[c].key = loc[c].key,
           pc[c] = "written", pc'[c] = "list",
           \A v \in ViewNames : step'[<<c, v>>] = "idle"
    PROVE  Answering(c)
BY DEF Answering, Stamped, Writing, WrittenTo

LEMMA OwnViewStep ==
    ASSUME TaskShapes, JobShapes, ViewShape, RefreshInv, NEW c \in Clients, ViewStep(c),
           Stamped(c), Writing(c) => RefreshedFor(c)
    PROVE  ClientEffect(c) /\ Answering(c)
<1> c \in Tasks /\ c \notin Refreshers
    BY Tasked
<1>1. pc[c] # "refreshing" => \A v \in ViewNames : step[<<c, v>>] = "idle"
    BY DEF Stamped
<1>2. \A label : Goto(c, label) /\ UNCHANGED loc => pc'[c] = label /\ loc'[c] = loc[c]
    BY LabelMoves
<1>3. ASSUME Stop(c), UNCHANGED view \/ \E v : view' = [view EXCEPT ![v] = None],
             pc[c] # "refreshing"
      PROVE  ClientEffect(c) /\ Answering(c)
  <2>1. SetJob(c, NoJob) /\ UNCHANGED step /\ pc'[c] = "idle"
      BY <1>3 DEF Stop, SetJob, Goto, TaskShapes
  <2>2. ClientEffect(c) /\ job'[c] = NoJob
      BY <1>3, <2>1, StopEffect
  <2> QED  BY <1>1, <1>3, <2>1, <2>2, GoneIdle
<1>4. ASSUME NEW label \in {"save", "fetch", "deleteData", "answered"}, Goto(c, label),
             UNCHANGED <<data, loc, job, step, view>>, pc[c] # "refreshing"
      PROVE  ClientEffect(c) /\ Answering(c)
    BY <1>1, <1>2, <1>4, StillEffect, GoneOn
<1>5. ASSUME NEW vs, NEW next \in {"return", "fetch"}, Await(c, vs, next),
             UNCHANGED <<data, loc, view>>
      PROVE  ClientEffect(c) /\ Answering(c)
  <2>1. /\ ClientEffect(c) /\ Goto(c, "refreshing")
        /\ job'[c].stamp = job[c].stamp /\ job'[c].next = next
      BY <1>5, AwaitEffect
  <2> QED  BY <1>2, <1>5, <2>1, GoneWaiting
<1>6. CASE Return(c)
  <2>1. SetJob(c, NoJob) /\ UNCHANGED <<step, view>> /\ pc'[c] = "idle" /\ pc[c] # "refreshing"
      BY <1>6, FreeMoves DEF Return, SetJob
  <2>2. ClientEffect(c) /\ job'[c] = NoJob
      BY <2>1, StopEffect
  <2> QED  BY <1>1, <2>1, <2>2, GoneIdle
<1>7. CASE Awaited(c)
  <2>1. /\ UNCHANGED <<data, loc, job, step, view>> /\ Goto(c, job[c].next)
        /\ pc[c] = "refreshing" /\ \A v \in ViewNames : step[<<c, v>>] = "idle"
      BY <1>7 DEF Awaited, Cache, world
  <2>2. pc'[c] = job[c].next /\ \A d \in Clients, v \in ViewNames : pc'[<<d, v>>] = pc[<<d, v>>]
    <3>1. \A d \in Clients, v \in ViewNames : <<d, v>> \in Refreshers
        BY DEF Refreshers
    <3> QED  BY <2>1, <3>1 DEF Goto, TaskShapes
  <2> QED  BY <2>1, <2>2, StillEffect, GoneWritten
<1>8. CASE Create(c) \/ Delete(c) \/ DeleteData(c)
    BY <1>3, <1>4, <1>8 DEF Create, Delete, DeleteData, Cache, world
<1>9. CASE Lookup(c) \/ Fetch(c)
    BY <1>3, <1>4, <1>5, <1>9 DEF Lookup, Fetch, Cache, world
<1>10. CASE Save(c) \/ Refresh(c) \/ RefreshAll(c)
    BY <1>3, <1>5, <1>10 DEF Save, Refresh, RefreshAll, Cache, world
<1>11. CASE Update(c)
  <2>1. CASE Stop(c)
      BY <1>3, <1>11, <2>1 DEF Update
  <2>2. CASE ~Stop(c)
    <3>1. PICK d : job' = [job EXCEPT ![c].def = d]
        BY <1>11, <2>2 DEF Update
    <3>2. /\ Goto(c, "save") /\ UNCHANGED <<data, loc, step, view>> /\ pc[c] = "update"
        BY <1>11, <2>2 DEF Update, Cache, world
    <3>3. JobShaped(job[c]) /\ SetJob(c, [job[c] EXCEPT !.def = d])
        BY <3>1 DEF JobShapes, SetJob
    <3>4. JobShaped([job[c] EXCEPT !.def = d])
        BY <3>3, ChangedJob
    <3>5. /\ JobShapes' /\ job'[c] = [job[c] EXCEPT !.def = d]
          /\ \A e \in Clients \ {c} : job'[e] = job[e]
        BY <3>3, <3>4, SetJobEffect
    <3>6. job'[c].stamp = job[c].stamp
        BY <3>3, <3>5 DEF JobShaped, JobFields
    <3>7. ClientEffect(c)
        BY <3>2, <3>5 DEF ClientEffect, ViewShape
    <3> QED  BY <1>1, <1>2, <3>2, <3>6, <3>7, GoneOn
  <2> QED  BY <2>1, <2>2
<1>12. CASE AfterWrite(c)
  <2>1. CASE Goto(c, "answered") /\ UNCHANGED <<job, inFlight, step>>
      BY <1>4, <1>12, <2>1 DEF AfterWrite, Cache, world
  <2>2. CASE Await(c, Dependents(KeyPath(loc[c].key)), "written")
    <3> DEFINE vs == Dependents(KeyPath(loc[c].key))
    <3>1. vs \in SUBSET ViewNames
        BY DEF Dependents
    <3>2. UNCHANGED <<data, loc, view>> /\ pc[c] = "cleared"
        BY <1>12 DEF AfterWrite, Cache, world
    <3>3. Await(c, vs, "written")
        BY <2>2
    <3> HIDE DEF vs
    <3>4. /\ ClientEffect(c)
          /\ job'[c].stamp = job[c].stamp /\ job'[c].next = "written"
          /\ job'[c].started = vs \ inFlight
          /\ Goto(c, "refreshing") /\ Begin(c, vs)
        BY <3>2, <3>3, AwaitEffect
    <3>5. pc'[c] = "refreshing" /\ loc'[c] = loc[c]
        BY <1>2, <3>2, <3>4
    <3> QED  BY <3>1, <3>2, <3>4, <3>5, GoneRefreshing
  <2> QED  BY <1>12, <2>1, <2>2 DEF AfterWrite
<1>13. CASE Written(c)
  <2>1. CASE Goto(c, "answered") /\ UNCHANGED loc
      BY <1>4, <1>13, <2>1 DEF Written, world
  <2>2. CASE loc' = [loc EXCEPT ![c].op = "patched"] /\ Goto(c, "list")
    <3>1. UNCHANGED <<data, job, step, view>> /\ pc[c] = "written"
        BY <1>13 DEF Written, world
    <3>2. pc'[c] = "list" /\ loc'[c].key = loc[c].key
        BY <2>2 DEF Goto, TaskShapes, Shaped, Fields
    <3> QED  BY <1>1, <3>1, <3>2, StillEffect, GoneAgain
  <2> QED  BY <1>13, <2>1, <2>2 DEF Written
<1> QED  BY <1>6, <1>7, <1>8, <1>9, <1>10, <1>11, <1>12, <1>13 DEF ViewStep

LEMMA WriteGrows ==
    ASSUME DataStamps, NEW t, NEW p \in Paths, NEW op, Change(t, p, op)
    PROVE  DataStamps' /\ DataGrows /\ Abs(data'[p]) = writes + 1
<1>1. writes' = writes + 1 /\ writes \in Nat
    BY DEF Change, DataStamps
<1>2. \A q \in Paths : /\ data'[q] \in Int
                       /\ q # p => data'[q] = data[q]
                       /\ q = p => Abs(data'[q]) = writes + 1
    BY <1>1 DEF Change, DataStamps, Abs
<1>3. data' \in [Paths -> Int]
    BY <1>1 DEF Change, DataStamps
<1>4. \A q \in Paths : Abs(data[q]) \in Int /\ Abs(data[q]) <= writes
    BY DEF DataStamps, Abs
<1> QED  BY <1>1, <1>2, <1>3, <1>4 DEF DataStamps, DataGrows

LEMMA StillGrows ==
    ASSUME DataStamps, UNCHANGED world
    PROVE  DataStamps' /\ DataGrows
<1>1. \A p \in Paths : Abs(data[p]) \in Int
    BY DEF DataStamps, Abs
<1> QED  BY <1>1 DEF DataStamps, DataGrows, world

\* A call begins, without a stamp unless it writes.
LEMMA Begun ==
    ASSUME NEW c \in Clients, job'[c].stamp = 0,
           \/ pc'[c] \in {"look", "read", "lookup", "delete", "refresh", "create", "update",
                          "refreshAll"}
           \/ pc'[c] \in {"list", "wipe"} /\ loc'[c].op = "clear",
           \A v \in ViewNames : step'[<<c, v>>] = "idle"
    PROVE  Answering(c)
BY DEF Answering, Stamped, Writing

LEMMA AskEffect ==
    ASSUME TaskShapes, JobShapes, ViewShape, NEW c \in Clients, NEW label, NEW j,
           JobShaped(j), Ask(c, label, j)
    PROVE  ClientEffect(c) /\ job'[c] = j /\ pc'[c] = label /\ UNCHANGED <<step, world>>
<1>1. SetJob(c, j) /\ UNCHANGED <<step, view, loc, world>> /\ Goto(c, label)
    BY DEF Ask, SetJob, Cache
<1>2. JobShapes' /\ job'[c] = j /\ \A d \in Clients \ {c} : job'[d] = job[d]
    BY <1>1, SetJobEffect
<1>3. pc'[c] = label
    BY <1>1, LabelMoves, Tasked
<1> QED  BY <1>1, <1>2, <1>3 DEF ClientEffect, ViewShape

LEMMA OwnCall ==
    ASSUME TaskShapes, JobShapes, ViewShape, DataStamps, faults \in Nat, UNCHANGED faults,
           NEW c \in Clients, Call(c), Stamped(c), pc[c] = "idle"
    PROVE  ClientEffect(c) /\ Answering(c) /\ DataStamps' /\ DataGrows
<1> c \in Tasks /\ c \notin Refreshers
    BY Tasked
<1>1. job[c].stamp = 0 /\ \A v \in ViewNames : step[<<c, v>>] = "idle"
    BY DEF Stamped
<1>2. ASSUME NEW label \in {"lookup", "delete", "refresh", "create", "update", "refreshAll"},
             NEW j, Ask(c, label, j), JobShaped(j), j.stamp = 0
      PROVE  ClientEffect(c) /\ Answering(c) /\ DataStamps' /\ DataGrows
  <2>1. ClientEffect(c) /\ job'[c] = j /\ pc'[c] = label /\ UNCHANGED <<step, world>>
      BY <1>2, AskEffect
  <2> QED  BY <1>1, <1>2, <2>1, Begun, StillGrows
<1>3. ASSUME UNCHANGED <<world, viewVars>>,
             \/ pc'[c] \in {"look", "read"}
             \/ pc'[c] \in {"list", "wipe"} /\ loc'[c].op = "clear"
      PROVE  ClientEffect(c) /\ Answering(c) /\ DataStamps' /\ DataGrows
  <2>1. UNCHANGED <<step, view, job>>
      BY <1>3 DEF viewVars
  <2>2. ClientEffect(c)
      BY <2>1, StillEffect
  <2> QED  BY <1>1, <1>3, <2>1, <2>2, Begun, StillGrows
<1>4. CASE \E k \in Keys : Query(c, k)
  <2>1. PICK k \in Keys : Query(c, k)
      BY <1>4
  <2>2. UNCHANGED <<world, viewVars>> /\ pc'[c] \in {"look", "read"}
      BY <2>1, StartQueryMoves DEF Query, viewVars
  <2> QED  BY <1>3, <2>2
<1>5. CASE \E k \in Keys : ClearOne(c, k)
  <2>1. PICK k \in Keys : ClearOne(c, k)
      BY <1>5
  <2>2. /\ UNCHANGED <<world, viewVars>> /\ pc' = [pc EXCEPT ![c] = "wipe"]
        /\ loc' = [loc EXCEPT ![c] = [Fresh EXCEPT !.op = "clear", !.key = k, !.todo = {k}]]
      BY <2>1 DEF ClearOne, ClearQuery, Goto
  <2>3. pc'[c] = "wipe" /\ loc'[c].op = "clear"
      BY <2>2 DEF TaskShapes, Fresh
  <2> QED  BY <1>3, <2>2, <2>3
<1>6. CASE \E p \in Paths, wide \in BOOLEAN : Clear(c, p, wide)
  <2>1. PICK p \in Paths, wide \in BOOLEAN : Clear(c, p, wide)
      BY <1>6
  <2>2. /\ UNCHANGED <<world, viewVars>> /\ pc' = [pc EXCEPT ![c] = "list"]
        /\ loc' = [loc EXCEPT ![c] = [Fresh EXCEPT !.op = "clear", !.key = <<p, @[2]>>,
                                                   !.wide = wide]]
      BY <2>1 DEF Clear, StartClear, Goto
  <2>3. pc'[c] = "list" /\ loc'[c].op = "clear"
      BY <2>2 DEF TaskShapes, Fresh
  <2> QED  BY <1>3, <2>2, <2>3
<1>7. CASE \E v \in ViewNames : CallView(c, v)
  <2>1. PICK v \in ViewNames : CallView(c, v)
      BY <1>7
  <2>2. CASE \E label \in {"lookup", "delete"} : Ask(c, label, [NoJob EXCEPT !.view = v])
    <3>1. JobShaped([NoJob EXCEPT !.view = v]) /\ [NoJob EXCEPT !.view = v].stamp = 0
        BY NoJobIsShaped DEF NoJob
    <3> QED  BY <1>2, <2>2, <3>1
  <2>3. CASE \E f \in BOOLEAN : Ask(c, "refresh", [NoJob EXCEPT !.view = v, !.force = f])
    <3>1. PICK f \in BOOLEAN : Ask(c, "refresh", [NoJob EXCEPT !.view = v, !.force = f])
        BY <2>3
    <3>2. /\ JobShaped([NoJob EXCEPT !.view = v, !.force = f])
          /\ [NoJob EXCEPT !.view = v, !.force = f].stamp = 0
        BY NoJobIsShaped DEF NoJob
    <3> QED  BY <1>2, <3>1, <3>2
  <2>4. CASE \E d : Ask(c, "create", [NoJob EXCEPT !.view = v, !.def = d])
    <3>1. PICK d : Ask(c, "create", [NoJob EXCEPT !.view = v, !.def = d])
        BY <2>4
    <3>2. /\ JobShaped([NoJob EXCEPT !.view = v, !.def = d])
          /\ [NoJob EXCEPT !.view = v, !.def = d].stamp = 0
        BY NoJobIsShaped DEF NoJob
    <3> QED  BY <1>2, <3>1, <3>2
  <2>5. CASE \E w, d : Ask(c, "update", [NoJob EXCEPT !.view = v, !.what = w, !.def = d])
    <3>1. PICK w, d : Ask(c, "update", [NoJob EXCEPT !.view = v, !.what = w, !.def = d])
        BY <2>5
    <3>2. /\ JobShaped([NoJob EXCEPT !.view = v, !.what = w, !.def = d])
          /\ [NoJob EXCEPT !.view = v, !.what = w, !.def = d].stamp = 0
        BY NoJobIsShaped DEF NoJob
    <3> QED  BY <1>2, <3>1, <3>2
  <2>6. \A s \in Sources(v) :
            Ask(c, "update", [NoJob EXCEPT !.view = v, !.what = "source",
                                           !.def = [SomeDefinition(v) EXCEPT !.source = s]])
            => \E w, d : Ask(c, "update", [NoJob EXCEPT !.view = v, !.what = w, !.def = d])
      OBVIOUS
  <2>7. \A s \in Strategies(v) :
            Ask(c, "update", [NoJob EXCEPT !.view = v, !.what = "strategy",
                                           !.def = [SomeDefinition(v) EXCEPT !.strategy = s]])
            => \E w, d : Ask(c, "update", [NoJob EXCEPT !.view = v, !.what = w, !.def = d])
      OBVIOUS
  <2> QED  BY <2>1, <2>2, <2>3, <2>4, <2>5, <2>6, <2>7 DEF CallView
<1>8. CASE Ask(c, "refreshAll", NoJob)
  <2>1. JobShaped(NoJob) /\ NoJob.stamp = 0
      BY NoJobIsShaped DEF NoJob
  <2> QED  BY <1>2, <1>8, <2>1
<1>9. CASE \E p \in Paths, op \in Writes : Write(c, p, op)
  <2>1. PICK p \in Paths, op \in Writes : Write(c, p, op)
      BY <1>9
  <2>2. Change(c, p, op) /\ UNCHANGED <<view, step>>
      BY <2>1 DEF Write
  <2>3. DataStamps' /\ DataGrows /\ Abs(data'[p]) = writes + 1 /\ writes \in Nat
      BY <2>2, WriteGrows DEF DataStamps
  <2>4. pc'[c] = "list" /\ loc'[c] = WriteLocals(p, op)
      BY <2>2, ChangeMoves
  <2> DEFINE stamp == writes + 1
             j == [NoJob EXCEPT !.stamp = stamp]
  <2>5. JobShaped(j) /\ SetJob(c, j) /\ j.stamp = writes + 1
    <3>1. SetJob(c, j) /\ j.stamp = writes + 1
        BY <2>1 DEF Write, SetJob, NoJob
    <3>2. JobShaped(j)
      <4> HIDE DEF stamp
      <4> QED  BY NoJobIsShaped
    <3> QED  BY <3>1, <3>2
  <2> HIDE DEF j
  <2>6. JobShapes' /\ job'[c] = j /\ \A d \in Clients \ {c} : job'[d] = job[d]
      BY <2>5, SetJobEffect
  <2>7. ClientEffect(c)
      BY <2>2, <2>6 DEF ClientEffect, ViewShape
  <2>8. loc'[c].key[1] = p
      BY <2>4 DEF WriteLocals, Fresh
  <2>9. Answering(c)
      BY <1>1, <2>2, <2>3, <2>4, <2>5, <2>6, <2>8
         DEF Answering, Stamped, Writing, WrittenTo, KeyPath
  <2> QED  BY <2>3, <2>7, <2>9
<1> QED  BY <1>4, <1>5, <1>6, <1>7, <1>8, <1>9 DEF Call, Writes

\* A step of the refresh of v by d, seen by a writer c.
LEMMA RefreshIsSeen ==
    ASSUME NEW c \in Clients, RefreshedFor(c), job[c].started \subseteq ViewNames,
           NEW d \in Clients, NEW v \in ViewNames,
           WrittenTo(c)' = WrittenTo(c), SameJob(c),
           \A e \in Clients, w \in ViewNames : e # d \/ w # v =>
               Same(<<e, w>>) /\ step'[<<e, w>>] = step[<<e, w>>],
           \A w \in ViewNames : w # v => view'[w] = view[w],
           v \in job'[c].started =>
               /\ step'[<<c, v>>] \in {"save", "idle"} =>
                    Shows(view'[v], WrittenTo(c), job[c].stamp)
               /\ FreshQuery(d, v, c)'
    PROVE  RefreshedFor(c)'
<1> SUFFICES ASSUME NEW w \in job'[c].started
             PROVE  /\ step'[<<c, w>>] \in {"save", "idle"} =>
                          Shows(view'[w], WrittenTo(c), job[c].stamp)
                    /\ \A e \in Clients : FreshQuery(e, w, c)'
    BY DEF RefreshedFor, SameJob
<1>1. w \in ViewNames /\ w \in job[c].started /\ job'[c].stamp = job[c].stamp
    BY DEF SameJob
<1>2. step'[<<c, w>>] \in {"save", "idle"} => Shows(view'[w], WrittenTo(c), job[c].stamp)
    BY <1>1 DEF RefreshedFor
<1>3. ASSUME NEW e \in Clients
      PROVE  FreshQuery(e, w, c)'
  <2>1. CASE e = d /\ w = v
      BY <2>1
  <2>2. CASE e # d \/ w # v
    <3>1. FreshQuery(e, w, c) /\ Same(<<e, w>>) /\ step'[<<e, w>>] = step[<<e, w>>]
        BY <1>1, <2>2 DEF RefreshedFor
    <3> QED  BY <1>1, <3>1, FreshIsKept
  <2> QED  BY <2>1, <2>2
<1> QED  BY <1>2, <1>3

\* What the step of a refresh does to the calls.
LEMMA RefreshJobs ==
    ASSUME TaskShapes, JobShapes, NEW d \in Clients, NEW v \in ViewNames, NEW r \in Refreshers,
           r = <<d, v>>, RefreshStep(r)
    PROVE  JobShapes' /\ \A c \in Clients : SameJob(c)
<1>1. \A c \in Clients : JobShaped(job[c])
    BY DEF JobShapes
<1>2. ASSUME NEW ds \in SUBSET Clients,
             job' = [c \in Clients |-> IF c \in ds
                                       THEN [job[c] EXCEPT !.started = @ \ {v}] ELSE job[c]]
      PROVE  JobShapes' /\ \A c \in Clients : SameJob(c)
  <2>1. ASSUME NEW c \in Clients
        PROVE  JobShaped(job'[c]) /\ SameJob(c)
    <3>1. CASE c \in ds
      <4>1. job'[c] = [job[c] EXCEPT !.started = job[c].started \ {v}]
          BY <1>2, <3>1
      <4>2. JobShaped(job'[c])
          BY <1>1, <4>1 DEF JobShaped, JobFields
      <4>3. SameJob(c)
          BY <1>1, <4>1 DEF JobShaped, JobFields, SameJob
      <4> QED  BY <4>2, <4>3
    <3>2. CASE c \notin ds
        BY <1>1, <1>2, <3>2 DEF SameJob
    <3> QED  BY <3>1, <3>2
  <2> QED  BY <1>2, <2>1 DEF JobShapes
<1>3. UNCHANGED job => JobShapes' /\ \A c \in Clients : SameJob(c)
    BY DEF JobShapes, SameJob
<1>4. CASE GetMeta(r)
  <2>1. CASE job' = [job EXCEPT ![d].started = @ \ {v}]
    <3>1. job' = [c \in Clients |-> IF c \in {d}
                                    THEN [job[c] EXCEPT !.started = @ \ {v}] ELSE job[c]]
        BY <2>1 DEF JobShapes
    <3> QED  BY <1>2, <3>1
  <2>2. CASE job' = [c \in Clients |-> [job[c] EXCEPT !.started = @ \ {v}]]
    <3>1. job' = [c \in Clients |-> IF c \in Clients
                                    THEN [job[c] EXCEPT !.started = @ \ {v}] ELSE job[c]]
        BY <2>2
    <3> QED  BY <1>2, <3>1
  <2>3. r[1] = d /\ r[2] = v
      OBVIOUS
  <2> QED  BY <1>3, <1>4, <2>1, <2>2, <2>3 DEF GetMeta
<1>5. CASE StoreResult(r) \/ SaveMeta(r) \/ RefreshFails(r)
    BY <1>3, <1>5 DEF StoreResult, SaveMeta, RefreshFails
<1> QED  BY <1>4, <1>5 DEF RefreshStep

\* The step of a refresh: where it goes, and what it stores.
LEMMA RefreshGoes ==
    ASSUME StepFunction, NEW d \in Clients, NEW v \in ViewNames, NEW r \in Refreshers,
           r = <<d, v>>, RefreshStep(r), ViewShape
    PROVE  /\ step[r] # "idle"
           /\ ViewShape'
           /\ \A w \in ViewNames : w # v => view'[w] = view[w]
           /\ \A e \in Clients, w \in ViewNames : e # d \/ w # v =>
                  step'[<<e, w>>] = step[<<e, w>>]
<1>1. step[r] # "idle" /\ \E label : step' = [step EXCEPT ![r] = label]
    BY DEF RefreshStep, GetMeta, StoreResult, SaveMeta, RefreshFails, Finish
<1>2. UNCHANGED view \/ \E a : view' = [view EXCEPT ![v] = a]
    BY DEF RefreshStep, GetMeta, StoreResult, SaveMeta, RefreshFails
<1>3. ViewShape' /\ \A w \in ViewNames : w # v => view'[w] = view[w]
    BY <1>2 DEF ViewShape
<1>4. ASSUME NEW e \in Clients, NEW w \in ViewNames, e # d \/ w # v
      PROVE  step'[<<e, w>>] = step[<<e, w>>]
  <2>1. <<e, w>> \in Refreshers /\ <<e, w>> # r
      BY <1>4 DEF Refreshers
  <2> QED  BY <1>1, <2>1 DEF StepFunction
<1> QED  BY <1>1, <1>3, <1>4

LEMMA RefreshAnswers ==
    ASSUME TaskShapes, JobShapes, ViewShape, RefreshInv, ~Fault,
           NEW d \in Clients, NEW v \in ViewNames, NEW r \in Refreshers, r = <<d, v>>,
           RefreshStep(r), NEW c \in Clients, Writing(c), RefreshedFor(c),
           v \in job'[c].started, SameJob(c), Same(c)
    PROVE  /\ step'[<<c, v>>] \in {"save", "idle"} =>
                Shows(view'[v], WrittenTo(c), job[c].stamp)
           /\ FreshQuery(d, v, c)'
<1> r \in Tasks /\ r[1] = d /\ r[2] = v
    BY Tasked
<1>1. v \in job[c].started /\ job'[c].stamp = job[c].stamp
    BY DEF SameJob
<1>2. /\ step[<<c, v>>] \in {"save", "idle"} => Shows(view[v], WrittenTo(c), job[c].stamp)
      /\ FreshQuery(d, v, c)
    BY <1>1 DEF RefreshedFor
<1>3. WrittenTo(c)' = WrittenTo(c)
    BY DEF Same, WrittenTo, KeyPath
<1>4. \A label : step' = [step EXCEPT ![r] = label] =>
          step'[r] = label /\ (c # d => step'[<<c, v>>] = step[<<c, v>>])
  <2>1. <<c, v>> \in Refreshers /\ (c # d => <<c, v>> # r)
      BY DEF Refreshers
  <2> QED  BY <2>1 DEF RefreshInv, StepFunction
<1>5. CASE GetMeta(r)
  <2>1. CASE NothingToDo(r)
    <3>1. step' = [step EXCEPT ![r] = "idle"] /\ UNCHANGED view
        BY <1>5, <2>1 DEF GetMeta, Finish
    <3>2. job' = [job EXCEPT ![d].started = @ \ {v}]
        BY <1>5, <2>1 DEF GetMeta
    <3>3. c # d
        BY <1>1, <3>2 DEF JobShapes, JobShaped, JobFields
    <3> QED  BY <1>2, <1>4, <3>1, <3>3 DEF FreshQuery
  <2>2. CASE ~NothingToDo(r)
    <3> DEFINE k == meta[v].source
    <3>1. /\ step' = [step EXCEPT ![r] = "query"] /\ UNCHANGED view
          /\ StartQuery(r, k)
          /\ job' = IF k[2] \in Cached
                    THEN [e \in Clients |-> [job[e] EXCEPT !.started = @ \ {v}]] ELSE job
        BY <1>5, <2>2 DEF GetMeta
    <3> HIDE DEF k
    <3>2. k[2] \notin Cached
        BY <1>1, <3>1 DEF JobShapes, JobShaped, JobFields
    <3>3. pc'[r] = "read" /\ loc'[r] = [Fresh EXCEPT !.op = "query", !.key = k]
        BY <3>1, <3>2, StartQueryMoves
    <3>4. loc'[r].key = k
        BY <3>3 DEF Fresh
    <3>5. FreshQuery(d, v, c)'
        BY <3>2, <3>3, <3>4 DEF FreshQuery
    <3> QED  BY <1>2, <1>4, <3>1, <3>5
  <2> QED  BY <2>1, <2>2
<1>6. CASE StoreResult(r)
  <2>1. /\ step[r] = "query" /\ pc[r] = "answered"
        /\ view' = [view EXCEPT ![v] = loc[r].answer]
        /\ step' = [step EXCEPT ![r] = "save"]
      BY <1>6 DEF StoreResult
  <2>2. Shows(loc[r].answer, WrittenTo(c), job[c].stamp)
      BY <1>2, <2>1 DEF FreshQuery
  <2>3. view'[v] = loc[r].answer
      BY <2>1 DEF ViewShape
  <2> QED  BY <1>4, <2>1, <2>2, <2>3 DEF FreshQuery
<1>7. CASE SaveMeta(r)
  <2>1. step[r] = "save" /\ step' = [step EXCEPT ![r] = "idle"] /\ UNCHANGED view
      BY <1>7 DEF SaveMeta, Finish
  <2> QED  BY <1>2, <1>4, <2>1 DEF FreshQuery
<1>8. ~RefreshFails(r)
    BY DEF RefreshFails
<1> QED  BY <1>5, <1>6, <1>7, <1>8 DEF RefreshStep

Working == {"look", "dropLate", "forgetLate", "read", "queued", "evict", "evicted", "put",
            "list", "wipe"}

\* A step of the cache for t keeps what t was called for.
LEMMA StepGoes ==
    ASSUME TaskShapes, NEW t \in Tasks, CacheStep(t)
    PROVE  /\ pc[t] \in Working
           /\ pc'[t] \in Working \cup {"answered", "cleared"}
           /\ loc'[t].key = loc[t].key /\ loc'[t].op = loc[t].op
           /\ pc'[t] \in {"list", "wipe"} => pc[t] \in {"list", "wipe"}
           /\ pc'[t] = "cleared" => pc[t] \in {"list", "wipe"} /\ loc[t].op # "clear"
<1>1. \A label : Goto(t, label) => pc'[t] = label
    BY DEF Goto, TaskShapes
<1>2. Shaped(loc[t])
    BY DEF TaskShapes
<1>3. /\ pc[t] \in Working
      /\ pc'[t] \in Working \cup {"answered", "cleared"}
      /\ pc'[t] \in {"list", "wipe"} => pc[t] \in {"list", "wipe"}
      /\ pc'[t] = "cleared" => pc[t] \in {"list", "wipe"} /\ loc[t].op # "clear"
  <2>1. CASE Look(t) \/ DropLate(t) \/ ForgetLate(t) \/ Read(t) \/ Enter(t) \/ Evict(t)
      BY <1>1, <2>1 DEF Look, Hit, DropLate, ForgetLate, Read, Enter, Evict, Working
  <2>2. CASE Evicted(t) \/ Put(t) \/ Track(t)
      BY <1>1, <2>2 DEF Evicted, Put, Leave, Track, Working
  <2>3. CASE List(t) \/ Wipe(t) \/ Forget(t)
      BY <1>1, <2>3 DEF List, Wipe, Forget, Cleared, Working
  <2> QED  BY <2>1, <2>2, <2>3 DEF CacheStep
<1>4. loc'[t].key = loc[t].key /\ loc'[t].op = loc[t].op
  <2>1. UNCHANGED loc => loc'[t].key = loc[t].key /\ loc'[t].op = loc[t].op
      OBVIOUS
  <2>2. ASSUME NEW k, Hit(t, k)
        PROVE  loc'[t].key = loc[t].key /\ loc'[t].op = loc[t].op
    <3>1. loc'[t] = [loc[t] EXCEPT !.answer = store[k].val]
        BY <2>2, HitMoves
    <3> QED  BY <1>2, <3>1 DEF Shaped, Fields
  <2>3. CASE Look(t)
      BY <2>2, <2>3 DEF Look
  <2>4. CASE DropLate(t) \/ ForgetLate(t) \/ Forget(t)
      BY <2>4 DEF DropLate, ForgetLate, Forget
  <2>5. CASE Read(t)
    <3>1. loc' = [loc EXCEPT ![t].answer = Answer(loc[t].key)]
        BY <2>5 DEF Read
    <3> QED  BY <1>2, <3>1 DEF TaskShapes, Shaped, Fields
  <2>6. CASE Enter(t)
    <3>1. PICK x, y, z, w : loc' = [loc EXCEPT ![t] = [@ EXCEPT !.saved = x, !.savedTotal = y,
                                                               !.need = z, !.victims = w]]
        BY <2>6 DEF Enter
    <3> QED  BY <1>2, <3>1 DEF TaskShapes, Shaped, Fields
  <2>7. CASE Evicted(t)
    <3>1. PICK k, size : loc' = [loc EXCEPT ![t].victims = @ \ {k}, ![t].freed = @ + size]
        BY <2>7 DEF Evicted
    <3> QED  BY <1>2, <3>1 DEF TaskShapes, Shaped, Fields
  <2>8. ASSUME Leave(t)
        PROVE  loc'[t].key = loc[t].key /\ loc'[t].op = loc[t].op
    <3>1. loc' = [loc EXCEPT ![t].saved = NoneTracked]
        BY <2>8 DEF Leave
    <3> QED  BY <1>2, <3>1 DEF TaskShapes, Shaped, Fields
  <2>9. CASE Put(t) \/ Track(t)
      BY <2>8, <2>9 DEF Put, Track
  <2>10. CASE List(t)
    <3>1. CASE UNCHANGED loc
        BY <3>1
    <3>2. CASE loc' = [loc EXCEPT ![t].todo = Present \cap Clearable(t),
                                  ![t].left = Present \cap Clearable(t)]
        BY <1>2, <3>2 DEF TaskShapes, Shaped, Fields
    <3> QED  BY <2>10, <3>1, <3>2 DEF List
  <2>11. CASE Wipe(t)
    <3>1. PICK k : UNCHANGED loc \/ loc' = [loc EXCEPT ![t].left = @ \ {k}]
        BY <2>11 DEF Wipe
    <3> QED  BY <1>2, <3>1 DEF TaskShapes, Shaped, Fields
  <2>12. CASE Evict(t)
    <3>1. PICK k : loc' = [loc EXCEPT ![t].victim = k]
        BY <2>12 DEF Evict
    <3> QED  BY <1>2, <3>1 DEF TaskShapes, Shaped, Fields
  <2> QED  BY <2>3, <2>4, <2>5, <2>6, <2>7, <2>9, <2>10, <2>11, <2>12 DEF CacheStep
<1> QED  BY <1>3, <1>4

LEMMA OwnCacheStep ==
    ASSUME TaskShapes, NEW c \in Clients, CacheStep(c), Stamped(c), UNCHANGED <<data, job, step>>
    PROVE  Answering(c)
<1> c \in Tasks
    BY Tasked
<1>1. /\ pc[c] \in Working
      /\ pc'[c] \in Working \cup {"answered", "cleared"}
      /\ loc'[c].key = loc[c].key /\ loc'[c].op = loc[c].op
      /\ pc'[c] \in {"list", "wipe"} => pc[c] \in {"list", "wipe"}
      /\ pc'[c] = "cleared" => pc[c] \in {"list", "wipe"} /\ loc[c].op # "clear"
    BY StepGoes
<1>2. ~Writing(c)' /\ pc'[c] \notin {"idle", "refreshing"} /\ pc[c] # "refreshing"
    BY <1>1 DEF Working, Writing
<1>3. WrittenTo(c)' = WrittenTo(c)
    BY <1>1 DEF WrittenTo, KeyPath
<1> QED  BY <1>1, <1>2, <1>3 DEF Answering, Stamped

\* A query that is not cached reads what was written before it.
LEMMA ReadIsFresh ==
    ASSUME TaskShapes, DataStamps, UNCHANGED <<data, job, step>>,
           NEW c \in Clients, NEW d \in Clients, NEW v \in ViewNames,
           FreshQuery(d, v, c), Stamped(c), job[c].stamp # 0, Same(c), CacheStep(<<d, v>>)
    PROVE  FreshQuery(d, v, c)'
<1> SUFFICES ASSUME step[<<d, v>>] = "query"
             PROVE  FreshQuery(d, v, c)'
    BY DEF FreshQuery
<1> DEFINE r == <<d, v>>
<1>1. r \in Tasks
    BY Tasked DEF Refreshers
<1>2. CacheStep(r) /\ step[r] = "query"
    OBVIOUS
<1>3. loc[r].key[2] \notin Cached /\ pc[r] \in {"read", "answered"}
    BY DEF FreshQuery
<1> HIDE DEF r
<1>4. loc'[r].key = loc[r].key /\ pc[r] = "read"
    BY <1>1, <1>2, <1>3, StepGoes DEF Working
<1>5. Read(r)
    BY <1>2, <1>4 DEF CacheStep, Look, DropLate, ForgetLate, Enter, Evict, Evicted, Put, Track,
       List, Wipe, Forget
<1>6. Goto(r, "answered") /\ loc' = [loc EXCEPT ![r].answer = Answer(loc[r].key)]
    BY <1>3, <1>5 DEF Read
<1>7. pc'[r] = "answered" /\ loc'[r].answer = Answer(loc[r].key)
  <2>1. Shaped(loc[r])
      BY <1>1 DEF TaskShapes
  <2> QED  BY <1>1, <1>6, <2>1 DEF Goto, TaskShapes, Shaped, Fields
<1>8. WrittenTo(c)' = WrittenTo(c)
    BY DEF Same, WrittenTo, KeyPath
<1>9. Shows(Answer(loc[r].key), WrittenTo(c), job[c].stamp)
    BY DEF Shows, Answer, Stamped, DataStamps
<1>10. loc'[r].key[2] \notin Cached /\ Shows(loc'[r].answer, WrittenTo(c), job[c].stamp)
    BY <1>3, <1>4, <1>7, <1>9
<1> QED  BY <1>7, <1>8, <1>10 DEF FreshQuery, r

LEMMA ClientKeepsWriters ==
    ASSUME NEW e \in Clients, Moves(e), ClientEffect(e), Answering(e), DataStamps, DataStamps',
           DataGrows, \A c \in Clients : Stamped(c) /\ (Writing(c) => RefreshedFor(c))
    PROVE  \A c \in Clients : Answering(c)
<1> SUFFICES ASSUME NEW c \in Clients, c # e
             PROVE  Answering(c)
    OBVIOUS
<1>1. Same(c)
    BY Tasked DEF Moves
<1>2. SameJob(c)
    BY DEF ClientEffect, SameJob
<1>3. \A v \in ViewNames : step'[<<c, v>>] = step[<<c, v>>]
    BY DEF ClientEffect
<1>4. Stamped(c)' /\ (Writing(c)' <=> Writing(c))
    BY <1>1, <1>2, <1>3, StampedIsKept
<1>5. ASSUME Writing(c)
      PROVE  RefreshedFor(c)'
  <2>1. RefreshedFor(c) /\ job[c].started \subseteq ViewNames
      BY <1>5 DEF Stamped
  <2>2. ASSUME NEW d \in Clients, NEW v \in ViewNames
        PROVE  Same(<<d, v>>) /\ step'[<<d, v>>] \in {step[<<d, v>>], "meta"}
    <3>1. <<d, v>> \in Refreshers
        BY DEF Refreshers
    <3>2. <<d, v>> \in Tasks \ {e}
        BY <3>1, Tasked
    <3> QED  BY <3>2 DEF Moves, ClientEffect
  <2>3. WrittenTo(c)' = WrittenTo(c)
      BY <1>1 DEF Same, WrittenTo, KeyPath
  <2> QED  BY <1>2, <2>1, <2>2, <2>3, RefreshedIsKept DEF ClientEffect
<1> QED  BY <1>4, <1>5 DEF Answering

LEMMA RefreshKeepsWriters ==
    ASSUME TaskShapes, JobShapes, ViewShape, RefreshInv, ~Fault, DataStamps,
           NEW r \in Refreshers, RefreshStep(r),
           NEW c \in Clients, Stamped(c), Writing(c) => RefreshedFor(c)
    PROVE  Answering(c)
<1>1. PICK d \in Clients, v \in ViewNames : r = <<d, v>>
    BY DEF Refreshers
<1>2. Moves(r) /\ UNCHANGED world /\ r \in Tasks /\ c \in Tasks /\ c # r
    BY RefreshStepMoves, Tasked
<1>3. Same(c)
    BY <1>2 DEF Moves
<1>4. SameJob(c)
    BY <1>1, RefreshJobs
<1>5. /\ step[<<d, v>>] # "idle" /\ \A w \in ViewNames : w # v => view'[w] = view[w]
      /\ \A e \in Clients, w \in ViewNames : e # d \/ w # v =>
             step'[<<e, w>>] = step[<<e, w>>]
    BY <1>1, RefreshGoes DEF RefreshInv
<1>6. \A w \in ViewNames : step'[<<c, w>>] # "idle" => step[<<c, w>>] # "idle"
    BY <1>5
<1>7. Stamped(c)' /\ (Writing(c)' <=> Writing(c))
    BY <1>2, <1>3, <1>4, <1>6, StampedIsKept, StillGrows
<1>8. ASSUME Writing(c)
      PROVE  RefreshedFor(c)'
  <2>1. RefreshedFor(c) /\ job[c].started \subseteq ViewNames
      BY <1>8 DEF Stamped
  <2>2. ASSUME NEW e \in Clients, NEW w \in ViewNames, e # d \/ w # v
        PROVE  Same(<<e, w>>) /\ step'[<<e, w>>] = step[<<e, w>>]
    <3>1. <<e, w>> \in Refreshers /\ <<e, w>> # r
        BY <1>1, <2>2 DEF Refreshers
    <3> QED  BY <1>2, <1>5, <2>2, <3>1, Tasked DEF Moves
  <2>3. WrittenTo(c)' = WrittenTo(c)
      BY <1>3 DEF Same, WrittenTo, KeyPath
  <2>4. v \in job'[c].started =>
            /\ step'[<<c, v>>] \in {"save", "idle"} =>
                    Shows(view'[v], WrittenTo(c), job[c].stamp)
            /\ FreshQuery(d, v, c)'
      BY <1>1, <1>3, <1>4, <1>8, <2>1, RefreshAnswers
  <2> QED  BY <1>4, <1>5, <2>1, <2>2, <2>3, <2>4, RefreshIsSeen
<1> QED  BY <1>7, <1>8 DEF Answering

LEMMA CacheKeepsWriters ==
    ASSUME TaskShapes, StoreShapes, DataStamps, NEW t \in Tasks, CacheTask(t),
           NEW c \in Clients, Stamped(c), Writing(c) => RefreshedFor(c)
    PROVE  Answering(c)
<1>1. CacheStep(t) /\ UNCHANGED <<world, job, step, view>>
    BY StepKeepsCache DEF CacheTask, viewVars
<1>2. UNCHANGED data /\ DataStamps' /\ DataGrows
    BY <1>1, StillGrows DEF world
<1>3. CASE t = c
    BY <1>1, <1>2, <1>3, OwnCacheStep
<1>4. CASE t # c
  <2>1. Same(c) /\ Moves(t) /\ SameJob(c)
      BY <1>1, <1>4, StepMoves, Tasked DEF Moves, SameJob
  <2>2. Stamped(c)' /\ (Writing(c)' <=> Writing(c))
      BY <1>1, <1>2, <2>1, StampedIsKept
  <2>3. ASSUME Writing(c)
        PROVE  RefreshedFor(c)'
    <3>1. RefreshedFor(c) /\ job[c].started \subseteq ViewNames /\ job[c].stamp # 0
        BY <2>3 DEF Stamped
    <3>2. WrittenTo(c)' = WrittenTo(c)
        BY <2>1 DEF Same, WrittenTo, KeyPath
    <3>3. ASSUME NEW v \in job[c].started, NEW d \in Clients
          PROVE  FreshQuery(d, v, c)'
      <4>1. FreshQuery(d, v, c) /\ v \in ViewNames
          BY <3>1 DEF RefreshedFor
      <4>2. CASE t = <<d, v>>
        <5>1. CacheStep(<<d, v>>)
            BY <1>1, <4>2
        <5> QED  BY <1>1, <1>2, <2>1, <3>1, <4>1, <5>1, ReadIsFresh
      <4>3. CASE t # <<d, v>>
        <5>1. <<d, v>> \in Tasks
            BY <4>1, Tasked DEF Refreshers
        <5>2. Same(<<d, v>>)
            BY <2>1, <4>3, <5>1 DEF Moves
        <5> QED  BY <1>1, <3>2, <4>1, <5>2, FreshIsKept
      <4> QED  BY <4>2, <4>3
    <3> QED  BY <1>1, <3>1, <3>2, <3>3 DEF RefreshedFor, Shows
  <2> QED  BY <2>2, <2>3 DEF Answering
<1> QED  BY <1>3, <1>4

LEMMA NextKeepsWriters ==
    ASSUME CacheInv, RefreshInv, WriterInv, [Next]_vars
    PROVE  WriterInv'
<1>1. TaskShapes /\ StoreShapes /\ faults \in Nat
    BY DEF CacheInv
<1> SUFFICES ASSUME faults' = 0
             PROVE  /\ DataStamps' /\ JobShapes' /\ ViewShape'
                    /\ \A c \in Clients : Answering(c)
    BY DEF WriterInv, Answering
<1>2. faults = 0 /\ UNCHANGED faults /\ ~Fault
    BY <1>1, NextFaults DEF Fault
<1>3. /\ DataStamps /\ JobShapes /\ ViewShape
      /\ \A c \in Clients : Stamped(c) /\ (Writing(c) => RefreshedFor(c))
    BY <1>2 DEF WriterInv
<1>4. CASE \E c \in Clients : Call(c)
  <2>1. PICK e \in Clients : Call(e)
      BY <1>4
  <2>2. Moves(e) /\ pc[e] = "idle"
      BY <1>1, <2>1, CallMoves
  <2>3. ClientEffect(e) /\ Answering(e) /\ DataStamps' /\ DataGrows
      BY <1>1, <1>2, <1>3, <2>1, <2>2, OwnCall
  <2>4. \A c \in Clients : Answering(c)
      BY <1>3, <2>2, <2>3, ClientKeepsWriters
  <2> QED  BY <2>3, <2>4 DEF ClientEffect, ViewShape
<1>5. CASE \E c \in Clients : ViewStep(c)
  <2>1. PICK e \in Clients : ViewStep(e)
      BY <1>5
  <2>2. Moves(e) /\ UNCHANGED world
      BY <1>1, <2>1, ViewStepMoves
  <2>3. ClientEffect(e) /\ Answering(e)
      BY <1>1, <1>3, <2>1, OwnViewStep
  <2>4. DataStamps' /\ DataGrows
      BY <1>3, <2>2, StillGrows
  <2>5. \A c \in Clients : Answering(c)
      BY <1>3, <2>2, <2>3, <2>4, ClientKeepsWriters
  <2> QED  BY <2>3, <2>4, <2>5 DEF ClientEffect, ViewShape
<1>6. CASE \E r \in Refreshers : RefreshStep(r)
  <2>1. PICK r \in Refreshers : RefreshStep(r)
      BY <1>6
  <2>2. PICK d \in Clients, v \in ViewNames : r = <<d, v>>
      BY DEF Refreshers
  <2>3. \A c \in Clients : Answering(c)
      BY <1>1, <1>2, <1>3, <2>1, RefreshKeepsWriters
  <2>4. JobShapes'
      BY <1>1, <1>3, <2>1, <2>2, RefreshJobs
  <2>5. ViewShape'
      BY <1>3, <2>1, <2>2, RefreshGoes DEF RefreshInv
  <2>6. DataStamps'
      BY <1>1, <1>3, <2>1, RefreshStepMoves, StillGrows
  <2> QED  BY <2>3, <2>4, <2>5, <2>6
<1>7. CASE \E t \in Tasks : CacheTask(t)
  <2>1. PICK t \in Tasks : CacheTask(t)
      BY <1>7
  <2>2. UNCHANGED <<world, job, view>>
      BY <1>1, <2>1, StepKeepsCache DEF CacheTask, viewVars
  <2>3. DataStamps' /\ JobShapes' /\ ViewShape'
      BY <1>3, <2>2, StillGrows DEF JobShapes, ViewShape
  <2>4. \A c \in Clients : Answering(c)
      BY <1>1, <1>3, <2>1, CacheKeepsWriters
  <2> QED  BY <2>3, <2>4
<1>8. CASE Time \/ UNCHANGED vars
  <2>1. UNCHANGED <<world, pc, loc, job, step, view>>
      BY <1>8 DEF Time, Expire, Age, Cache, vars, viewVars
  <2>2. DataStamps' /\ JobShapes' /\ ViewShape' /\ DataGrows
      BY <1>3, <2>1, StillGrows DEF JobShapes, ViewShape
  <2>3. ASSUME NEW c \in Clients
        PROVE  Answering(c)
    <3>1. Same(c) /\ SameJob(c) /\ WrittenTo(c)' = WrittenTo(c)
        BY <2>1 DEF Same, SameJob, WrittenTo
    <3>2. Stamped(c)' /\ (Writing(c)' <=> Writing(c))
        BY <1>3, <2>1, <2>2, <3>1, StampedIsKept
    <3>3. Writing(c) => RefreshedFor(c)'
      <4>1. \A d \in Clients, v \in ViewNames :
               Same(<<d, v>>) /\ step'[<<d, v>>] \in {step[<<d, v>>], "meta"}
          BY <2>1 DEF Same
      <4>2. Writing(c) => RefreshedFor(c) /\ job[c].started \subseteq ViewNames
          BY <1>3 DEF Stamped
      <4> QED  BY <2>1, <3>1, <4>1, <4>2, RefreshedIsKept
    <3> QED  BY <3>2, <3>3 DEF Answering
  <2> QED  BY <2>2, <2>3
<1> QED  BY <1>4, <1>5, <1>6, <1>7, <1>8 DEF Next, Progress

LEMMA InitWriters == Init => WriterInv
<1> SUFFICES ASSUME Init PROVE WriterInv
    OBVIOUS
<1>1. DataStamps
    BY DEF Init, CacheInit, DataStamps, Abs
<1>2. JobShapes /\ \A c \in Clients : job[c] = NoJob
    BY NoJobIsShaped DEF Init, JobShapes
<1>3. ViewShape
    BY DEF Init, ViewShape
<1>4. ASSUME NEW c \in Clients
      PROVE  Stamped(c) /\ ~Writing(c)
  <2>1. pc[c] = "idle" /\ job[c].stamp = 0
      BY <1>2, Tasked DEF Init, NoJob
  <2>2. \A v \in ViewNames : step[<<c, v>>] = "idle"
      BY DEF Init, Refreshers
  <2> QED  BY <2>1, <2>2 DEF Stamped, Writing
<1> QED  BY <1>1, <1>2, <1>3, <1>4 DEF WriterInv

\* While nothing fails, set, patch and delete return only when each on-write view
\* that they refreshed, and that has not been answered from the query cache since,
\* X read, write, refresh, redefine or delete meanwhile.
THEOREM WritersSeeTheirWrites == Spec => []WriterSeesItsWrite
<1>1. Init => CacheInv /\ RefreshInv /\ WriterInv
    BY InitCache, InitRefreshes, InitWriters
<1>2. CacheInv /\ RefreshInv /\ WriterInv /\ [Next]_vars
          => CacheInv' /\ RefreshInv' /\ WriterInv'
    BY NextKeepsCache, NextMoves, MovesKeepRefreshes, NextKeepsWriters
<1>3. WriterInv => WriterSeesItsWrite
  <2> SUFFICES ASSUME WriterInv, faults = 0, NEW c \in Clients, pc[c] = "written",
                      NEW v \in job[c].started
               PROVE  Shows(view[v], WrittenTo(c), job[c].stamp)
      BY DEF WriterSeesItsWrite, Shows, WrittenTo
  <2>1. Stamped(c) /\ Writing(c) /\ RefreshedFor(c)
      BY DEF WriterInv, Writing
  <2>2. step[<<c, v>>] = "idle"
      BY <2>1 DEF Stamped
  <2> QED  BY <2>1, <2>2 DEF RefreshedFor
<1> QED  BY <1>1, <1>2, <1>3, PTL DEF Spec

-----------------------------------------------------------------------------
(* The sum of the sizes in an account.  A set of numbers that is not empty  *)
(* has a least one, so that what holds of the sum over the first n keys     *)
(* holds of the whole: a least n without it would have a predecessor with   *)
(* it.                                                                      *)

\* A set of natural numbers has a least one.
LEMMA Least ==
    ASSUME NEW T \in SUBSET Nat, T # {}
    PROVE  \E m \in T : \A n \in T : m <= n
<1> DEFINE R == OpToRel(<, Nat)
<1>1. IsWellFoundedOn(R, Nat)
    BY NatLessThanWellFounded
<1>2. \A x, y \in Nat : <<y, x>> \in R <=> y < x
    BY DEF OpToRel
<1> HIDE DEF R
<1>3. PICK m \in T : \A n \in T : ~ (<<n, m>> \in R)
    BY <1>1, WFMin
<1>4. \A n \in T : ~ (n < m)
    BY <1>2, <1>3
<1> QED  BY <1>3, <1>4

\* What holds of 0 and passes from each number to the next holds up to N.
LEMMA Counting ==
    ASSUME NEW N \in Nat, NEW T, 0 \in T, \A n \in 1 .. N : n - 1 \in T => n \in T
    PROVE  \A n \in 0 .. N : n \in T
<1> DEFINE B == {n \in 0 .. N : n \notin T}
<1> SUFFICES ASSUME B # {} PROVE FALSE
    OBVIOUS
<1>1. PICK m \in B : \A n \in B : m <= n
  <2>1. B \in SUBSET Nat
      OBVIOUS
  <2> HIDE DEF B
  <2> QED  BY <2>1, Least
<1>2. m \in 1 .. N /\ m - 1 \in 0 .. N /\ ~(m <= m - 1)
    BY <1>1
<1>3. m - 1 \in T
    BY <1>1, <1>2
<1> QED  BY <1>1, <1>2, <1>3

Count == Cardinality(Keys)

LEMMA KeysAreFinite == IsFiniteSet(Keys)
BY SizeAssumption, FS_Product DEF Keys

\* The order names each key once.
LEMMA Ordered ==
    /\ Count \in Nat /\ KeyOrder \in [1 .. Count -> Keys]
    /\ \A i, j \in 1 .. Count : KeyOrder[i] = KeyOrder[j] => i = j
    /\ \A k \in Keys : \E i \in 1 .. Count : KeyOrder[i] = k
<1>1. Count \in Nat /\ ExistsBijection(1 .. Count, Keys)
    BY KeysAreFinite, FS_CardinalityType DEF Count
<1>2. \E f \in [1 .. Count -> Keys] : IsInjective(f)
    BY <1>1 DEF ExistsBijection, Bijection, Injection
<1>3. KeyOrder = CHOOSE f \in [1 .. Count -> Keys] : IsInjective(f)
    BY DEF KeyOrder, SetToSeq, Count
<1>4. KeyOrder \in [1 .. Count -> Keys] /\ IsInjective(KeyOrder)
    BY <1>2, <1>3
<1>5. Cardinality(1 .. Count) = Cardinality(Keys)
    BY <1>1, FS_Interval DEF Count
<1>6. KeyOrder \in Surjection(1 .. Count, Keys)
    BY <1>4, <1>5, KeysAreFinite, FS_Injection DEF Injection
<1> QED  BY <1>1, <1>4, <1>6 DEF Surjection, IsInjective

\* The sums over the first keys, up to n of them.
Running(f, g, n) ==
    g = [i \in 0 .. n |-> IF i = 0 THEN 0 ELSE g[i - 1] + f[KeyOrder[i]]]

\* They exist, so the recursive definition defines them.
LEMMA RunningExists ==
    ASSUME NEW f
    PROVE  \E g : Running(f, g, Count)
<1> DEFINE T == {n \in 0 .. Count : \E g : Running(f, g, n)}
<1>1. 0 \in T
  <2> DEFINE g == [i \in 0 .. 0 |-> 0]
  <2>1. Running(f, g, 0)
      BY DEF Running
  <2> QED  BY <2>1, Ordered
<1>2. ASSUME NEW n \in 1 .. Count, n - 1 \in T
      PROVE  n \in T
  <2>1. PICK g : Running(f, g, n - 1)
      BY <1>2
  <2> DEFINE h == [i \in 0 .. n |-> IF i = n THEN g[n - 1] + f[KeyOrder[n]] ELSE g[i]]
  <2>2. ASSUME NEW i \in 0 .. n
        PROVE  h[i] = IF i = 0 THEN 0 ELSE h[i - 1] + f[KeyOrder[i]]
    <3>1. CASE i = n
        BY <3>1, Ordered
    <3>2. CASE i # n
      <4>1. i \in 0 .. n - 1 /\ (i # 0 => i - 1 \in 0 .. n - 1)
          BY <3>2, Ordered
      <4>2. g[i] = IF i = 0 THEN 0 ELSE g[i - 1] + f[KeyOrder[i]]
          BY <2>1, <4>1 DEF Running
      <4> QED  BY <3>2, <4>1, <4>2, Ordered
    <3> QED  BY <3>1, <3>2
  <2>3. Running(f, h, n)
      BY <2>2 DEF Running
  <2> QED  BY <2>3
<1>3. \A n \in 0 .. Count : n \in T
  <2> HIDE DEF T
  <2> QED  BY <1>1, <1>2, Counting, Ordered
<1> QED  BY <1>3, Ordered

LEMMA RunningSum ==
    ASSUME NEW f
    PROVE  Running(f, RunningSizes(f), Count)
<1> DEFINE g == CHOOSE g : Running(f, g, Count)
<1>1. RunningSizes(f) = g
    BY DEF RunningSizes, Running, Count
<1>2. Running(f, g, Count)
    BY RunningExists
<1> QED  BY <1>1, <1>2

LEMMA RunningSteps ==
    ASSUME NEW f \in [Keys -> Int]
    PROVE  /\ RunningSizes(f)[0] = 0
           /\ \A n \in 1 .. Count : f[KeyOrder[n]] \in Int /\
                RunningSizes(f)[n] = RunningSizes(f)[n - 1] + f[KeyOrder[n]]
           /\ \A n \in 0 .. Count : RunningSizes(f)[n] \in Int
<1> DEFINE g == RunningSizes(f)
           T == {n \in 0 .. Count : g[n] \in Int}
<1>1. g[0] = 0 /\ \A n \in 1 .. Count : g[n] = g[n - 1] + f[KeyOrder[n]]
    BY RunningSum, Ordered DEF Running
<1>2. \A n \in 1 .. Count : f[KeyOrder[n]] \in Int
    BY Ordered
<1>3. 0 \in T /\ \A n \in 1 .. Count : n - 1 \in T => n \in T
    BY <1>1, <1>2, Ordered
<1>4. \A n \in 0 .. Count : n \in T
  <2> HIDE DEF T
  <2> QED  BY <1>3, Counting, Ordered
<1> QED  BY <1>1, <1>2, <1>4

\* The sum is linear, and not negative.
LEMMA SizesAdd ==
    ASSUME NEW f \in [Keys -> Int], NEW g \in [Keys -> Int], NEW h \in [Keys -> Int],
           \A k \in Keys : h[k] = f[k] + g[k]
    PROVE  Sizes(h) = Sizes(f) + Sizes(g)
<1> DEFINE F == RunningSizes(f)
           G == RunningSizes(g)
           H == RunningSizes(h)
           T == {n \in 0 .. Count : H[n] = F[n] + G[n]}
<1>1. /\ F[0] = 0 /\ \A n \in 1 .. Count : F[n] = F[n - 1] + f[KeyOrder[n]]
      /\ \A n \in 0 .. Count : F[n] \in Int
    BY RunningSteps
<1>2. /\ G[0] = 0 /\ \A n \in 1 .. Count : G[n] = G[n - 1] + g[KeyOrder[n]]
      /\ \A n \in 0 .. Count : G[n] \in Int
    BY RunningSteps
<1>3. H[0] = 0 /\ \A n \in 1 .. Count : H[n] = H[n - 1] + h[KeyOrder[n]]
    BY RunningSteps
<1>4. \A n \in 1 .. Count : KeyOrder[n] \in Keys
    BY Ordered
<1> HIDE DEF F, G, H
<1>5. ASSUME NEW n \in 1 .. Count, n - 1 \in T
      PROVE  n \in T
  <2>1. h[KeyOrder[n]] = f[KeyOrder[n]] + g[KeyOrder[n]]
      BY <1>4
  <2>2. f[KeyOrder[n]] \in Int /\ g[KeyOrder[n]] \in Int
      BY <1>4
  <2>3. n - 1 \in 0 .. Count /\ n \in 0 .. Count
      BY Ordered
  <2>4. F[n - 1] \in Int /\ G[n - 1] \in Int /\ H[n - 1] = F[n - 1] + G[n - 1]
      BY <1>1, <1>2, <1>5, <2>3
  <2>5. H[n] = H[n - 1] + h[KeyOrder[n]]
      /\ F[n] = F[n - 1] + f[KeyOrder[n]] /\ G[n] = G[n - 1] + g[KeyOrder[n]]
      BY <1>1, <1>2, <1>3
  <2>6. H[n] = F[n] + G[n]
      BY <2>1, <2>2, <2>4, <2>5
  <2> QED  BY <2>3, <2>6
<1>6. 0 \in T
    BY <1>1, <1>2, <1>3, Ordered
<1>7. \A n \in 0 .. Count : n \in T
  <2> HIDE DEF T
  <2> QED  BY <1>5, <1>6, Counting, Ordered
<1>8. H[Count] = F[Count] + G[Count]
    BY <1>7, Ordered
<1> QED  BY <1>8 DEF F, G, H, Sizes, Count

LEMMA SizesNat ==
    ASSUME NEW f \in [Keys -> Nat]
    PROVE  Sizes(f) \in Nat
<1> DEFINE F == RunningSizes(f)
           T == {n \in 0 .. Count : F[n] \in Nat}
<1>1. F[0] = 0 /\ \A n \in 1 .. Count : F[n] = F[n - 1] + f[KeyOrder[n]]
    BY RunningSteps
<1>2. \A n \in 1 .. Count : f[KeyOrder[n]] \in Nat
    BY Ordered
<1> HIDE DEF F
<1>3. 0 \in T /\ \A n \in 1 .. Count : n - 1 \in T => n \in T
    BY <1>1, <1>2, Ordered
<1>4. \A n \in 0 .. Count : n \in T
  <2> HIDE DEF T
  <2> QED  BY <1>3, Counting, Ordered
<1>5. F[Count] \in Nat
    BY <1>4, Ordered
<1> QED  BY <1>5 DEF F, Sizes, Count

\* A function that is zero but at one key.
LEMMA SizesOfOne ==
    ASSUME NEW f \in [Keys -> Int], NEW k \in Keys, \A j \in Keys \ {k} : f[j] = 0
    PROVE  Sizes(f) = f[k]
<1>1. PICK m \in 1 .. Count : KeyOrder[m] = k
    BY Ordered
<1> DEFINE F == RunningSizes(f)
           T == {n \in 0 .. Count : F[n] = IF n < m THEN 0 ELSE f[k]}
<1>2. F[0] = 0 /\ \A n \in 1 .. Count : F[n] = F[n - 1] + f[KeyOrder[n]]
    BY RunningSteps
<1>3. \A n \in 1 .. Count : KeyOrder[n] \in Keys /\ (n # m => KeyOrder[n] # k)
    BY <1>1, Ordered
<1>4. \A n \in 1 .. Count : f[KeyOrder[n]] = IF n = m THEN f[k] ELSE 0
    BY <1>1, <1>3
<1> HIDE DEF F
<1>5. 0 \in T
    BY <1>2, Ordered
<1>6. ASSUME NEW n \in 1 .. Count, n - 1 \in T
      PROVE  n \in T
  <2>1. n - 1 \in 0 .. Count /\ n \in 0 .. Count
      BY Ordered
  <2>2. F[n - 1] = (IF n - 1 < m THEN 0 ELSE f[k]) /\ F[n] = F[n - 1] + f[KeyOrder[n]]
      BY <1>2, <1>6
  <2>3. f[k] \in Int /\ f[KeyOrder[n]] = (IF n = m THEN f[k] ELSE 0)
      BY <1>4
  <2>4. CASE n < m
      BY <2>1, <2>2, <2>3, <2>4
  <2>5. CASE n = m
      BY <2>1, <2>2, <2>3, <2>5
  <2>6. CASE n > m
      BY <2>1, <2>2, <2>3, <2>6
  <2> QED  BY <2>4, <2>5, <2>6, Ordered
<1>7. \A n \in 0 .. Count : n \in T
  <2> HIDE DEF T
  <2> QED  BY <1>5, <1>6, Counting, Ordered
<1>8. F[Count] = f[k]
    BY <1>1, <1>7, Ordered
<1> QED  BY <1>8 DEF F, Sizes, Count

\* What the steps of the cache need of the sum.
LEMMA SizesSplit ==
    ASSUME NEW f \in Accounts, NEW K
    PROVE  /\ Only(f, K) \in Accounts /\ Only(f, Keys \ K) \in Accounts
           /\ Sizes(f) \in Nat /\ Sizes(Only(f, K)) \in Nat
           /\ Sizes(f) = Sizes(Only(f, K)) + Sizes(Only(f, Keys \ K))
<1>1. /\ Only(f, K) \in Accounts /\ Only(f, Keys \ K) \in Accounts
      /\ \A k \in Keys : f[k] = Only(f, K)[k] + Only(f, Keys \ K)[k]
    BY SizeAssumption DEF Accounts, Only
<1>2. \A g \in Accounts : g \in [Keys -> Nat] /\ g \in [Keys -> Int]
    BY SizeAssumption DEF Accounts
<1>3. \A g \in Accounts : Sizes(g) \in Nat
    BY <1>2, SizesNat
<1>4. Sizes(f) = Sizes(Only(f, K)) + Sizes(Only(f, Keys \ K))
    BY <1>1, <1>2, SizesAdd
<1> QED  BY <1>1, <1>3, <1>4

LEMMA SizeWithin ==
    ASSUME NEW f \in Accounts, NEW K, NEW k \in K, k \in Keys
    PROVE  f[k] <= Sizes(Only(f, K))
<1> DEFINE g == Only(f, K)
           h == Only(g, {k})
<1>1. g \in Accounts
    BY SizesSplit
<1>2. /\ h \in Accounts /\ Sizes(g) \in Nat /\ Sizes(Only(g, Keys \ {k})) \in Nat
      /\ Sizes(g) = Sizes(h) + Sizes(Only(g, Keys \ {k}))
  <2> HIDE DEF g
  <2>1. /\ h \in Accounts /\ Only(g, Keys \ {k}) \in Accounts /\ Sizes(g) \in Nat
        /\ Sizes(g) = Sizes(h) + Sizes(Only(g, Keys \ {k}))
      BY <1>1, SizesSplit
  <2>2. Sizes(Only(g, Keys \ {k})) \in Nat
      BY <2>1, SizesSplit
  <2> QED  BY <2>1, <2>2
<1>3. h[k] = f[k] /\ \A j \in Keys \ {k} : h[j] = 0
    BY DEF Only
<1>4. h \in [Keys -> Int] /\ f[k] \in Nat
    BY <1>2, SizeAssumption DEF Accounts
<1> HIDE DEF h
<1>5. Sizes(h) = f[k]
    BY <1>3, <1>4, SizesOfOne
<1> QED  BY <1>2, <1>4, <1>5

LEMMA SizesOfNone == NoneTracked \in Accounts /\ Sizes(NoneTracked) = 0
<1>1. /\ NoneTracked \in Accounts /\ NoneTracked \in [Keys -> Int]
      /\ NoneTracked \in [Keys -> Nat]
    BY SizeAssumption DEF NoneTracked, Accounts
<1>2. \A k \in Keys : NoneTracked[k] = NoneTracked[k] + NoneTracked[k]
    BY DEF NoneTracked
<1>3. Sizes(NoneTracked) = Sizes(NoneTracked) + Sizes(NoneTracked)
    BY <1>1, <1>2, SizesAdd
<1>4. Sizes(NoneTracked) \in Nat
    BY <1>1, SizesNat
<1>5. \A n \in Nat : n = n + n => n = 0
    OBVIOUS
<1> QED  BY <1>1, <1>3, <1>4, <1>5

LEMMA SizesChanged ==
    ASSUME NEW f \in Accounts, NEW k \in Keys, NEW x \in 0 .. LargestEntry
    PROVE  /\ [f EXCEPT ![k] = x] \in Accounts
           /\ Sizes([f EXCEPT ![k] = x]) = Sizes(f) - f[k] + x
<1> DEFINE g == [f EXCEPT ![k] = x]
           d == [j \in Keys |-> IF j = k THEN x - f[k] ELSE 0]
<1>1. /\ g \in Accounts /\ f \in [Keys -> Int] /\ g \in [Keys -> Int] /\ d \in [Keys -> Int]
      /\ d[k] = x - f[k] /\ \A j \in Keys \ {k} : d[j] = 0
      /\ \A j \in Keys : g[j] = f[j] + d[j]
    BY SizeAssumption DEF Accounts
<1> HIDE DEF g, d
<1>2. Sizes(d) = x - f[k]
    BY <1>1, SizesOfOne
<1>3. Sizes(g) = Sizes(f) + Sizes(d)
    BY <1>1, SizesAdd
<1>4. Sizes(f) \in Nat /\ f[k] \in Int
    BY <1>1, SizesSplit
<1>5. Sizes(g) = Sizes(f) - f[k] + x
    BY <1>2, <1>3, <1>4
<1> QED  BY <1>1, <1>5 DEF g

-----------------------------------------------------------------------------
(* The types of the state.                                                  *)

Holding == {"evict", "evicted", "put"}
Keyed == {"look", "dropLate", "forgetLate", "read", "queued"} \cup Holding

DefinitionsOf(v) == [source : Sources(v), strategy : Strategies(v), old : BOOLEAN]
Entries == [val : Answers, late : BOOLEAN, current : BOOLEAN]

WorldOK == data \in [Paths -> Versions] /\ writes \in 1 .. MaxWrites

CacheOK ==
    /\ store \in [Keys -> {None} \cup Entries]
    /\ tracked \in Accounts /\ total \in Int
    /\ lock \in Seq(Tasks)

LocalsOK(l) ==
    /\ l.answer \in Answers \cup {None}
    /\ l.victims \subseteq Keys
    /\ l.saved \in Accounts /\ l.savedTotal \in Int
    /\ l.left \subseteq l.todo /\ l.todo \subseteq Keys

TaskOK(t) ==
    /\ pc[t] \in Labels
    /\ LocalsOK(loc[t])
    /\ pc[t] \in Keyed => loc[t].key \in Keys
    /\ pc[t] \in {"queued"} \cup Holding => loc[t].answer \in Answers
    /\ pc[t] = "evicted" => loc[t].victim \in Keys

\* A task that waits for the lock is in the chain, and the one that holds it first.
Queued(t) == \E i \in 1 .. Len(lock) : lock[i] = t
LockOK(t) ==
    /\ pc[t] \in {"queued"} \cup Holding => Queued(t)
    /\ pc[t] \in Holding => lock[1] = t

OfView(c) ==
    \/ pc[c] \in {"create", "update", "save", "lookup", "fetch", "delete", "deleteData",
                  "refresh"}
    \/ pc[c] = "refreshing" /\ job[c].next = "fetch"

CallOK(c) ==
    /\ job[c].next \in {"idle", "written", "return", "fetch"}
    /\ job[c].started \subseteq ViewNames
    /\ OfView(c) => job[c].view \in ViewNames
    /\ pc[c] \in {"create", "update", "save"} => job[c].def \in DefinitionsOf(job[c].view)

RefreshOK(r) ==
    /\ step[r] \in {"idle", "meta", "query", "save"}
    /\ copy[r] \in DefinitionsOf(r[2]) \cup {None}
    /\ step[r] \in {"query", "save"} => copy[r] \in DefinitionsOf(r[2])

RefreshesOK ==
    /\ StepFunction /\ copy = [r \in Refreshers |-> copy[r]]
    /\ \A r \in Refreshers : RefreshOK(r)

ViewsOK ==
    /\ meta = [v \in ViewNames |-> meta[v]]
    /\ \A v \in ViewNames : meta[v] \in DefinitionsOf(v) \cup {None}
    /\ view \in [ViewNames -> Answers \cup {None}]

TypeInv ==
    /\ WorldOK /\ CacheOK /\ RefreshesOK /\ ViewsOK /\ TaskShapes /\ JobShapes
    /\ \A t \in Tasks : TaskOK(t) /\ LockOK(t)
    /\ \A c \in Clients : CallOK(c)

LEMMA AnswerTyped ==
    ASSUME WorldOK, NEW k \in Keys
    PROVE  Answer(k) \in Answers
<1>1. Scope(k) \in SUBSET Paths
    BY CacheAssumption DEF Scope, Keys
<1>2. Answer(k) \in [Scope(k) -> Versions]
    BY <1>1 DEF WorldOK, Answer
<1> QED  BY <1>1, <1>2 DEF Answers

LEMMA FreshTyped ==
    ASSUME NEW k, NEW op, NEW wide, NEW todo \in SUBSET Keys
    PROVE  /\ LocalsOK(Fresh)
           /\ LocalsOK([Fresh EXCEPT !.op = op, !.key = k])
           /\ LocalsOK([Fresh EXCEPT !.op = op, !.key = k, !.wide = wide])
           /\ LocalsOK([Fresh EXCEPT !.op = op, !.key = k, !.todo = todo])
BY SizesOfNone DEF LocalsOK, Fresh

LEMMA ChangedLocals ==
    ASSUME NEW l, Shaped(l), LocalsOK(l)
    PROVE  /\ \A a \in Answers \cup {None} : LocalsOK([l EXCEPT !.answer = a])
           /\ \A op : LocalsOK([l EXCEPT !.op = op])
           /\ \A k : LocalsOK([l EXCEPT !.victim = k])
           /\ \A left \in SUBSET l.left : LocalsOK([l EXCEPT !.left = left])
           /\ \A saved \in Accounts : LocalsOK([l EXCEPT !.saved = saved])
           /\ \A freed : \A victims \in SUBSET Keys :
                LocalsOK([l EXCEPT !.victims = victims, !.freed = freed])
           /\ \A todo \in SUBSET Keys : LocalsOK([l EXCEPT !.todo = todo, !.left = todo])
<1> USE DEF LocalsOK, Shaped, Fields
<1>1. \A a \in Answers \cup {None} : LocalsOK([l EXCEPT !.answer = a])
    OBVIOUS
<1>2. \A op : LocalsOK([l EXCEPT !.op = op])
    OBVIOUS
<1>3. \A k : LocalsOK([l EXCEPT !.victim = k])
    OBVIOUS
<1>4. \A left \in SUBSET l.left : LocalsOK([l EXCEPT !.left = left])
    OBVIOUS
<1>5. \A saved \in Accounts : LocalsOK([l EXCEPT !.saved = saved])
    OBVIOUS
<1>6. \A freed : \A victims \in SUBSET Keys :
        LocalsOK([l EXCEPT !.victims = victims, !.freed = freed])
    OBVIOUS
<1>7. \A todo \in SUBSET Keys : LocalsOK([l EXCEPT !.todo = todo, !.left = todo])
    OBVIOUS
<1> QED  BY <1>1, <1>2, <1>3, <1>4, <1>5, <1>6, <1>7

LEMMA EnteredLocals ==
    ASSUME NEW l, Shaped(l), LocalsOK(l), NEW saved \in Accounts, NEW sum \in Int, NEW need,
           NEW victims \in SUBSET Keys
    PROVE  LocalsOK([l EXCEPT !.saved = saved, !.savedTotal = sum, !.need = need,
                              !.victims = victims])
BY DEF LocalsOK, Shaped, Fields

\* A step of t alone to a label, with typed locals.
LEMMA TaskGoes ==
    ASSUME TaskShapes, NEW t \in Tasks, NEW label \in Labels, NEW l, Alone(t, label, l),
           LocalsOK(l), label \in Keyed => l.key \in Keys,
           label \in {"queued"} \cup Holding => l.answer \in Answers,
           label = "evicted" => l.victim \in Keys
    PROVE  Moves(t) /\ TaskOK(t)' /\ pc'[t] = label
<1>1. Moves(t) /\ pc'[t] = label /\ loc'[t] = l
    BY AloneMoves DEF Moves
<1>2. LocalsOK(loc[t])'
    BY <1>1 DEF LocalsOK
<1> QED  BY <1>1, <1>2 DEF TaskOK

LEMMA SameTask ==
    ASSUME NEW u, Same(u), TaskOK(u)
    PROVE  TaskOK(u)'
BY DEF Same, TaskOK, LocalsOK

\* Steps that leave the chain alone, or join its end, or leave its head.
LEMMA SameChain ==
    ASSUME NEW t \in Tasks, Moves(t), UNCHANGED lock, \A u \in Tasks : LockOK(u),
           pc'[t] \in {"queued"} \cup Holding => pc[t] \in {"queued"} \cup Holding,
           pc'[t] \in Holding => pc[t] \in Holding \/ lock[1] = t
    PROVE  \A u \in Tasks : LockOK(u)'
<1> SUFFICES ASSUME NEW u \in Tasks PROVE LockOK(u)'
    OBVIOUS
<1>1. Queued(u)' <=> Queued(u)
    BY DEF Queued
<1>2. CASE u = t
    BY <1>1, <1>2 DEF LockOK
<1>3. CASE u # t
    BY <1>1, <1>3 DEF LockOK, Moves, Same
<1> QED  BY <1>2, <1>3

LEMMA JoinedChain ==
    ASSUME NEW t \in Tasks, Moves(t), lock \in Seq(Tasks), lock' = Append(lock, t),
           \A u \in Tasks : LockOK(u), pc'[t] = "queued"
    PROVE  lock' \in Seq(Tasks) /\ \A u \in Tasks : LockOK(u)'
<1>1. /\ lock' \in Seq(Tasks) /\ Len(lock') = Len(lock) + 1 /\ Len(lock) \in Nat
      /\ lock'[Len(lock) + 1] = t /\ \A i \in 1 .. Len(lock) : lock'[i] = lock[i]
    OBVIOUS
<1>2. ASSUME NEW u \in Tasks, u # t
      PROVE  LockOK(u)'
  <2>1. LockOK(u) /\ pc'[u] = pc[u]
      BY <1>2 DEF Moves, Same
  <2>2. ASSUME Queued(u)
        PROVE  Queued(u)' /\ lock'[1] = lock[1]
    <3>1. PICK i \in 1 .. Len(lock) : lock[i] = u
        BY <2>2 DEF Queued
    <3>2. i \in 1 .. Len(lock') /\ lock'[i] = u /\ 1 \in 1 .. Len(lock)
        BY <1>1, <3>1
    <3> QED  BY <1>1, <3>2 DEF Queued
  <2> QED  BY <2>1, <2>2 DEF LockOK
<1>3. LockOK(t)'
  <2>1. Len(lock) + 1 \in 1 .. Len(lock')
      BY <1>1
  <2> QED  BY <1>1, <2>1 DEF LockOK, Queued, Holding
<1> QED  BY <1>1, <1>2, <1>3

LEMMA LeftChain ==
    ASSUME NEW t \in Tasks, Moves(t), lock \in Seq(Tasks), lock' = Tail(lock),
           \A u \in Tasks : LockOK(u), pc[t] \in Holding, pc'[t] = "answered"
    PROVE  lock' \in Seq(Tasks) /\ \A u \in Tasks : LockOK(u)'
<1>1. Queued(t) /\ lock[1] = t
    BY DEF LockOK
<1>2. lock # <<>> /\ Len(lock) \in Nat \ {0}
    BY <1>1 DEF Queued
<1>3. /\ lock' \in Seq(Tasks) /\ Len(lock') = Len(lock) - 1
      /\ \A i \in 1 .. Len(lock') : lock'[i] = lock[i + 1]
    BY <1>2
<1>4. ASSUME NEW u \in Tasks, u # t
      PROVE  LockOK(u)'
  <2>1. LockOK(u) /\ pc'[u] = pc[u] /\ pc[u] \notin Holding
      BY <1>1, <1>4 DEF Moves, Same, LockOK
  <2>2. ASSUME Queued(u)
        PROVE  Queued(u)'
    <3>1. PICK i \in 1 .. Len(lock) : lock[i] = u
        BY <2>2 DEF Queued
    <3>2. i # 1
        BY <1>1, <1>4, <3>1
    <3>3. i - 1 \in 1 .. Len(lock') /\ lock'[i - 1] = u
        BY <1>2, <1>3, <3>1, <3>2
    <3> QED  BY <3>3 DEF Queued
  <2> QED  BY <2>1, <2>2 DEF LockOK
<1>5. LockOK(t)'
    BY DEF LockOK, Holding
<1> QED  BY <1>3, <1>4, <1>5

StoreTyped == store' \in [Keys -> {None} \cup Entries]

LEMMA StoreSet ==
    ASSUME CacheOK, NEW e \in {None} \cup Entries, NEW k,
           UNCHANGED store \/ store' = [store EXCEPT ![k] = e]
    PROVE  StoreTyped
BY DEF CacheOK, StoreTyped

LEMMA Untracks ==
    ASSUME CacheOK, NEW keys, Untrack(keys)
    PROVE  tracked' \in Accounts /\ total' \in Int
<1>1. /\ Only(tracked, Keys \ keys) \in Accounts /\ Sizes(Only(tracked, keys)) \in Nat
    BY SizesSplit DEF CacheOK
<1> QED  BY <1>1 DEF Untrack, CacheOK

\* What a step of the cache leaves typed.
Typed(t) == CacheOK' /\ TaskOK(t)' /\ \A u \in Tasks : LockOK(u)'

LEMMA StillTyped ==
    ASSUME CacheOK, NEW t \in Tasks, Moves(t), \A u \in Tasks : LockOK(u), TaskOK(t)',
           StoreTyped, tracked' \in Accounts, total' \in Int, UNCHANGED lock,
           pc'[t] \in {"queued"} \cup Holding => pc[t] \in {"queued"} \cup Holding,
           pc'[t] \in Holding => pc[t] \in Holding \/ lock[1] = t
    PROVE  Typed(t)
BY SameChain DEF Typed, CacheOK, StoreTyped

\* The parts of the invariant that a step of the cache by t uses.
StepOf(t) ==
    /\ TaskShapes /\ WorldOK /\ CacheOK /\ TaskOK(t) /\ \A u \in Tasks : LockOK(u)

LEMMA StepUses ==
    ASSUME NEW t \in Tasks, StepOf(t)
    PROVE  /\ Shaped(loc[t]) /\ LocalsOK(loc[t])
           /\ \A label : Goto(t, label) /\ UNCHANGED loc => Alone(t, label, loc[t])
           /\ \A label : Goto(t, label) /\ UNCHANGED loc /\ label \in Labels \ Keyed
                            => Moves(t) /\ TaskOK(t)' /\ pc'[t] = label
           /\ \A label : Goto(t, label) /\ UNCHANGED loc /\ loc[t].key \in Keys
                              /\ label \in {"dropLate", "forgetLate", "read"}
                            => Moves(t) /\ TaskOK(t)' /\ pc'[t] = label
           /\ tracked \in Accounts /\ total \in Int /\ lock \in Seq(Tasks)
<1>1. Shaped(loc[t]) /\ LocalsOK(loc[t])
    BY DEF StepOf, TaskShapes, TaskOK
<1>2. \A label : Goto(t, label) /\ UNCHANGED loc => Alone(t, label, loc[t])
    BY GotoMoves DEF StepOf
<1>3. \A label \in Labels : label \notin Keyed /\ Alone(t, label, loc[t])
            => Moves(t) /\ TaskOK(t)' /\ pc'[t] = label
    BY <1>1, TaskGoes DEF StepOf, Keyed, Holding
<1>4. \A label \in {"dropLate", "forgetLate", "read"} :
            Alone(t, label, loc[t]) /\ loc[t].key \in Keys
            => Moves(t) /\ TaskOK(t)' /\ pc'[t] = label
    BY <1>1, TaskGoes DEF StepOf, Keyed, Holding, Labels
<1> QED  BY <1>1, <1>2, <1>3, <1>4 DEF StepOf, CacheOK

LEMMA TypedLook ==
    ASSUME NEW t \in Tasks, StepOf(t), Look(t)
    PROVE  Typed(t)
<1> DEFINE k == loc[t].key
<1>1. k \in Keys
    BY DEF Look, StepOf, TaskOK, Keyed
<1>2. UNCHANGED cacheVars
    BY DEF Look, Hit
<1>3. ASSUME Moves(t), TaskOK(t)', pc'[t] \in {"read", "dropLate", "answered"}
      PROVE  Typed(t)
    BY <1>2, <1>3, StillTyped DEF StepOf, CacheOK, StoreTyped, cacheVars, Holding
<1>4. CASE UNCHANGED loc /\ (Goto(t, "read") \/ Goto(t, "dropLate"))
    BY <1>1, <1>3, <1>4, StepUses
<1>5. CASE store[k] # None /\ Hit(t, k)
  <2> DEFINE a == store[k].val
             l == [loc[t] EXCEPT !.answer = a]
  <2>1. a \in Answers
      BY <1>1, <1>5 DEF StepOf, CacheOK, Entries
  <2>2. Goto(t, "answered") /\ SetLoc(t, l)
      BY <1>5 DEF Hit, SetLoc
  <2> HIDE DEF a
  <2>3. Shaped(l) /\ LocalsOK(l)
      BY <2>1, StepUses, ChangedFields, ChangedLocals
  <2> HIDE DEF l
  <2>4. Moves(t) /\ TaskOK(t)' /\ pc'[t] = "answered"
      BY <2>2, <2>3, TaskGoes DEF Alone, StepOf, Labels, Keyed, Holding
  <2> QED  BY <1>3, <2>4
<1> QED  BY <1>4, <1>5 DEF Look

LEMMA TypedDrop ==
    ASSUME NEW t \in Tasks, StepOf(t), DropLate(t) \/ ForgetLate(t)
    PROVE  Typed(t)
<1>1. loc[t].key \in Keys
    BY DEF DropLate, ForgetLate, StepOf, TaskOK, Keyed
<1>2. UNCHANGED <<loc, lock>> /\ (Goto(t, "read") \/ Goto(t, "forgetLate"))
    BY DEF DropLate, ForgetLate
<1>3. Moves(t) /\ TaskOK(t)' /\ pc'[t] \in {"read", "forgetLate"}
    BY <1>1, <1>2, StepUses
<1>4. StoreTyped
    BY StoreSet DEF DropLate, ForgetLate, StepOf
<1>5. tracked' \in Accounts /\ total' \in Int
    BY StepUses, Untracks DEF DropLate, ForgetLate, StepOf
<1> QED  BY <1>2, <1>3, <1>4, <1>5, StillTyped DEF StepOf, Holding

LEMMA TypedRead ==
    ASSUME NEW t \in Tasks, StepOf(t), Read(t)
    PROVE  Typed(t)
<1> DEFINE a == Answer(loc[t].key)
           l == [loc[t] EXCEPT !.answer = a]
<1>1. loc[t].key \in Keys
    BY DEF Read, StepOf, TaskOK, Keyed
<1>2. a \in Answers
    BY <1>1, AnswerTyped DEF StepOf
<1>3. /\ SetLoc(t, l) /\ UNCHANGED <<store, tracked, total>>
      /\ \/ Goto(t, "queued") /\ lock' = Append(lock, t)
         \/ Goto(t, "answered") /\ UNCHANGED lock
    BY DEF Read, SetLoc
<1>4. Shaped(loc[t]) /\ LocalsOK(loc[t])
    BY StepUses
<1>5. l.key = loc[t].key /\ l.answer = a
    BY <1>4 DEF Shaped, Fields
<1> HIDE DEF a
<1>6. Shaped(l) /\ LocalsOK(l)
  <2>1. Shaped(l)
      BY <1>4, ChangedFields
  <2>2. LocalsOK(l)
      BY <1>2, <1>4, ChangedLocals
  <2> QED  BY <2>1, <2>2
<1> HIDE DEF l
<1>7. StoreTyped /\ tracked' \in Accounts /\ total' \in Int
    BY <1>3 DEF StoreTyped, StepOf, CacheOK
<1>8. CASE Goto(t, "queued") /\ lock' = Append(lock, t)
  <2>1. Moves(t) /\ TaskOK(t)' /\ pc'[t] = "queued"
      BY <1>1, <1>2, <1>3, <1>5, <1>6, <1>8, TaskGoes DEF Alone, StepOf, Labels
  <2>2. lock' \in Seq(Tasks) /\ \A u \in Tasks : LockOK(u)'
      BY <1>8, <2>1, JoinedChain DEF StepOf, CacheOK
  <2> QED  BY <1>7, <2>1, <2>2 DEF Typed, CacheOK, StoreTyped
<1>9. CASE Goto(t, "answered") /\ UNCHANGED lock
  <2>1. Moves(t) /\ TaskOK(t)' /\ pc'[t] = "answered"
      BY <1>3, <1>6, <1>9, TaskGoes DEF Alone, StepOf, Labels, Keyed, Holding
  <2> QED  BY <1>7, <1>9, <2>1, StillTyped DEF StepOf, Holding
<1> QED  BY <1>3, <1>8, <1>9

LEMMA TypedEnter ==
    ASSUME NEW t \in Tasks, StepOf(t), Enter(t)
    PROVE  Typed(t)
<1> DEFINE need == Need(t)
           victims == IF Crowded(need) THEN {k \in Keys \ {loc[t].key} : tracked[k] > 0} ELSE {}
           l == [loc[t] EXCEPT !.saved = tracked, !.savedTotal = total, !.need = need,
                               !.victims = victims]
<1>1. /\ SetLoc(t, l) /\ Goto(t, "evict") /\ UNCHANGED <<store, tracked, total, lock>>
      /\ pc[t] = "queued" /\ Head(lock) = t
    BY DEF Enter, SetLoc, cacheVars
<1>2. victims \in SUBSET Keys
    OBVIOUS
<1>3. loc[t].key \in Keys /\ loc[t].answer \in Answers /\ Queued(t)
    BY <1>1 DEF StepOf, TaskOK, LockOK, Keyed
<1>4. lock[1] = t
    BY <1>1, <1>3, StepUses DEF Queued
<1>5. Shaped(loc[t]) /\ LocalsOK(loc[t]) /\ tracked \in Accounts /\ total \in Int
    BY StepUses
<1> HIDE DEF victims, need
<1>6. l.key = loc[t].key /\ l.answer = loc[t].answer
    BY <1>5 DEF Shaped, Fields
<1>7. Shaped(l)
    BY <1>5, ChangedFields
<1>8. LocalsOK(l)
    BY <1>2, <1>5, EnteredLocals
<1> HIDE DEF l
<1>9. Moves(t) /\ TaskOK(t)' /\ pc'[t] = "evict"
    BY <1>1, <1>3, <1>6, <1>7, <1>8, TaskGoes DEF Alone, StepOf, Labels
<1> QED  BY <1>1, <1>4, <1>5, <1>9, StillTyped DEF StepOf, StoreTyped, CacheOK

LEMMA TypedEvict ==
    ASSUME NEW t \in Tasks, StepOf(t), Evict(t)
    PROVE  Typed(t)
<1>1. PICK victim \in loc[t].victims :
          /\ loc' = [loc EXCEPT ![t].victim = victim]
          /\ UNCHANGED store \/ store' = [store EXCEPT ![victim] = None]
    BY DEF Evict
<1> DEFINE l == [loc[t] EXCEPT !.victim = victim]
<1>2. Goto(t, "evicted") /\ UNCHANGED <<tracked, total, lock>> /\ pc[t] = "evict"
    BY DEF Evict
<1>3. Shaped(loc[t]) /\ LocalsOK(loc[t]) /\ victim \in Keys
    BY StepUses DEF LocalsOK
<1>4. SetLoc(t, l) /\ l.victim = victim /\ l.answer = loc[t].answer /\ l.key = loc[t].key
    BY <1>1, <1>3 DEF SetLoc, Shaped, Fields
<1>5. Shaped(l) /\ LocalsOK(l)
  <2>1. Shaped(l)
      BY <1>3, ChangedFields
  <2>2. LocalsOK(l)
      BY <1>3, ChangedLocals
  <2> QED  BY <2>1, <2>2
<1>6. loc[t].key \in Keys /\ loc[t].answer \in Answers
    BY <1>2 DEF StepOf, TaskOK, Keyed, Holding
<1> HIDE DEF l
<1>7. Moves(t) /\ TaskOK(t)' /\ pc'[t] = "evicted"
    BY <1>2, <1>3, <1>4, <1>5, <1>6, TaskGoes DEF Alone, StepOf, Labels
<1>8. StoreTyped
    BY <1>1, StoreSet DEF StepOf
<1> QED  BY <1>2, <1>7, <1>8, StepUses, StillTyped DEF StepOf, Holding

LEMMA TypedEvicted ==
    ASSUME NEW t \in Tasks, StepOf(t), Evicted(t)
    PROVE  Typed(t)
<1> DEFINE k == loc[t].victim
           victims == loc[t].victims \ {k}
           freed == loc[t].freed + loc[t].saved[k]
           l == [loc[t] EXCEPT !.victims = victims, !.freed = freed]
<1>1. /\ pc[t] = "evicted" /\ Goto(t, "evict") /\ UNCHANGED <<store, lock>>
      /\ tracked' = [tracked EXCEPT ![k] = 0] /\ total' = total - loc[t].saved[k]
    BY DEF Evicted
<1>2. Shaped(loc[t]) /\ LocalsOK(loc[t]) /\ tracked \in Accounts /\ total \in Int
    BY StepUses
<1>3. /\ k \in Keys /\ victims \in SUBSET Keys
      /\ loc[t].key \in Keys /\ loc[t].answer \in Answers
    BY <1>1, <1>2 DEF StepOf, TaskOK, LocalsOK, Keyed, Holding
<1>4. loc' = [loc EXCEPT ![t].victims = victims, ![t].freed = freed]
    BY <1>2 DEF Evicted, StepOf, TaskShapes, Shaped, Fields
<1>5. SetLoc(t, l)
    BY <1>4 DEF SetLoc, StepOf, TaskShapes
<1>6. tracked' \in Accounts /\ total' \in Int
    BY <1>1, <1>2, <1>3, SizeAssumption DEF Accounts, LocalsOK
<1> HIDE DEF victims, freed
<1>7. l.key = loc[t].key /\ l.answer = loc[t].answer
    BY <1>2 DEF Shaped, Fields
<1>8. Shaped(l) /\ LocalsOK(l)
    BY <1>2, <1>3, ChangedFields, ChangedLocals
<1> HIDE DEF l
<1>9. Moves(t) /\ TaskOK(t)' /\ pc'[t] = "evict"
    BY <1>1, <1>3, <1>5, <1>7, <1>8, TaskGoes DEF Alone, StepOf, Labels
<1>10. StoreTyped
    BY <1>1 DEF StoreTyped, StepOf, CacheOK
<1> QED  BY <1>1, <1>6, <1>9, <1>10, StillTyped DEF StepOf, Holding

\* The lock is left, with the account a set() leaves behind.
LEMMA TypedLeave ==
    ASSUME NEW t \in Tasks, StepOf(t), Leave(t), pc[t] \in Holding, StoreTyped,
           tracked' \in Accounts, total' \in Int
    PROVE  Typed(t)
<1> DEFINE l == [loc[t] EXCEPT !.saved = NoneTracked]
<1>1. Goto(t, "answered") /\ SetLoc(t, l) /\ lock' = Tail(lock)
    BY DEF Leave, SetLoc
<1>2. Shaped(l) /\ LocalsOK(l)
    BY StepUses, ChangedFields, ChangedLocals, SizesOfNone
<1> HIDE DEF l
<1>3. Moves(t) /\ TaskOK(t)' /\ pc'[t] = "answered"
    BY <1>1, <1>2, TaskGoes DEF Alone, StepOf, Labels, Keyed, Holding
<1>4. lock' \in Seq(Tasks) /\ \A u \in Tasks : LockOK(u)'
    BY <1>1, <1>3, LeftChain, StepUses DEF StepOf
<1> QED  BY <1>3, <1>4 DEF Typed, CacheOK, StoreTyped

LEMMA TypedPut ==
    ASSUME NEW t \in Tasks, StepOf(t), Put(t)
    PROVE  Typed(t)
<1> DEFINE k == loc[t].key
           e == Entry(k, loc[t].answer)
<1>1. pc[t] = "evict" /\ k \in Keys /\ loc[t].answer \in Answers
    BY DEF Put, StepOf, TaskOK, Keyed, Holding
<1>2. e \in Entries
    BY <1>1 DEF Entry, Entries
<1>3. UNCHANGED store \/ store' = [store EXCEPT ![k] = e]
    BY DEF Put
<1> HIDE DEF e
<1>4. StoreTyped
    BY <1>2, <1>3, StoreSet DEF StepOf
<1>5. CASE Goto(t, "put") /\ UNCHANGED <<tracked, total, lock, loc>>
  <2>1. Alone(t, "put", loc[t]) /\ LocalsOK(loc[t])
      BY <1>5, StepUses
  <2>2. Moves(t) /\ TaskOK(t)' /\ pc'[t] = "put"
      BY <1>1, <2>1, TaskGoes DEF StepOf, Labels
  <2> QED  BY <1>1, <1>4, <1>5, <2>2, StepUses, StillTyped DEF StepOf, Holding
<1>6. CASE tracked' = loc[t].saved /\ total' = loc[t].savedTotal /\ Leave(t)
    BY <1>1, <1>4, <1>6, StepUses, TypedLeave DEF LocalsOK, Holding
<1> QED  BY <1>5, <1>6 DEF Put

LEMMA TypedTrack ==
    ASSUME NEW t \in Tasks, StepOf(t), Track(t)
    PROVE  Typed(t)
<1> DEFINE k == loc[t].key
           size == SizeOf(loc[t].answer)
<1>1. pc[t] = "put" /\ k \in Keys /\ loc[t].answer \in Answers
    BY DEF Track, StepOf, TaskOK, Keyed, Holding
<1>2. size \in 1 .. LargestEntry /\ tracked \in Accounts /\ total \in Int
    BY <1>1, SizeAssumption, StepUses
<1>3. /\ tracked' = [tracked EXCEPT ![k] = size] /\ total' = total - tracked[k] + size
      /\ Leave(t) /\ UNCHANGED store
    BY DEF Track
<1> HIDE DEF size
<1>4. tracked' \in Accounts /\ total' \in Int
    BY <1>1, <1>2, <1>3, SizeAssumption DEF Accounts
<1>5. StoreTyped
    BY <1>3 DEF StoreTyped, StepOf, CacheOK
<1> QED  BY <1>1, <1>3, <1>4, <1>5, TypedLeave DEF Holding

\* The clearings.
LEMMA TypedClearing ==
    ASSUME NEW t \in Tasks, StepOf(t), List(t) \/ Wipe(t) \/ Forget(t)
    PROVE  Typed(t)
<1>1. Shaped(loc[t]) /\ LocalsOK(loc[t]) /\ tracked \in Accounts /\ total \in Int
    BY StepUses
<1>2. UNCHANGED lock
    BY DEF List, Wipe, Forget, cacheVars
<1>3. ASSUME Cleared(t), UNCHANGED loc
      PROVE  Moves(t) /\ TaskOK(t)' /\ pc'[t] \in {"answered", "cleared"}
    BY <1>3, StepUses DEF Cleared, Labels, Keyed, Holding
<1>4. ASSUME Moves(t), TaskOK(t)', pc'[t] \in {"answered", "cleared", "wipe"}, StoreTyped,
             tracked' \in Accounts, total' \in Int
      PROVE  Typed(t)
    BY <1>2, <1>4, StillTyped DEF StepOf, Holding
<1>5. ASSUME UNCHANGED store
      PROVE  StoreTyped
    BY <1>5 DEF StoreTyped, StepOf, CacheOK
<1>6. CASE List(t)
  <2>1. UNCHANGED <<store, tracked, total>>
      BY <1>6 DEF List, cacheVars
  <2>2. CASE Cleared(t) /\ UNCHANGED loc
      BY <1>1, <1>3, <1>4, <1>5, <2>1, <2>2
  <2>3. CASE loc' = [loc EXCEPT ![t].todo = Present \cap Clearable(t),
                                ![t].left = Present \cap Clearable(t)] /\ Goto(t, "wipe")
    <3> DEFINE todo == Present \cap Clearable(t)
               l == [loc[t] EXCEPT !.todo = todo, !.left = todo]
    <3>1. SetLoc(t, l)
        BY <2>3 DEF SetLoc, StepOf, TaskShapes
    <3>2. todo \in SUBSET Keys
        BY DEF Present
    <3> HIDE DEF todo
    <3>3. Shaped(l) /\ LocalsOK(l)
        BY <1>1, <3>2, ChangedFields, ChangedLocals
    <3> HIDE DEF l
    <3>4. Moves(t) /\ TaskOK(t)' /\ pc'[t] = "wipe"
        BY <2>3, <3>1, <3>3, TaskGoes DEF Alone, StepOf, Labels, Keyed, Holding
    <3> QED  BY <1>1, <1>4, <1>5, <2>1, <3>4
  <2> QED  BY <1>6, <2>2, <2>3 DEF List
<1>7. CASE Wipe(t)
  <2>1. PICK k \in loc[t].left :
            \/ /\ store' = [store EXCEPT ![k] = None]
               /\ loc' = [loc EXCEPT ![t].left = @ \ {k}] /\ UNCHANGED pc
            \/ /\ store' = [j \in Keys |-> IF j \in loc[t].left \ {k} THEN None ELSE store[j]]
               /\ Cleared(t) /\ UNCHANGED loc
      BY <1>7 DEF Wipe
  <2>2. StoreTyped
      BY <2>1, StoreSet DEF StoreTyped, StepOf, CacheOK
  <2>3. UNCHANGED <<tracked, total>> /\ pc[t] = "wipe"
      BY <1>7 DEF Wipe
  <2>4. CASE loc' = [loc EXCEPT ![t].left = @ \ {k}] /\ UNCHANGED pc
    <3> DEFINE left == loc[t].left \ {k}
               l == [loc[t] EXCEPT !.left = left]
    <3>1. Goto(t, "wipe") /\ SetLoc(t, l) /\ left \in SUBSET loc[t].left
        BY <2>3, <2>4 DEF Goto, SetLoc, StepOf, TaskShapes
    <3> HIDE DEF left
    <3>2. Shaped(l) /\ LocalsOK(l)
        BY <1>1, <3>1, ChangedFields, ChangedLocals
    <3> HIDE DEF l
    <3>3. Moves(t) /\ TaskOK(t)' /\ pc'[t] = "wipe"
        BY <3>1, <3>2, TaskGoes DEF Alone, StepOf, Labels, Keyed, Holding
    <3> QED  BY <1>1, <1>4, <2>2, <2>3, <3>3
  <2> QED  BY <1>1, <1>3, <1>4, <2>1, <2>2, <2>3, <2>4
<1>8. CASE Forget(t)
  <2>1. Cleared(t) /\ UNCHANGED <<loc, store>>
      BY <1>8 DEF Forget
  <2>2. tracked' \in Accounts /\ total' \in Int
      BY <1>8, SizesOfNone, Untracks DEF Forget, StepOf
  <2> QED  BY <1>3, <1>4, <1>5, <2>1, <2>2
<1> QED  BY <1>6, <1>7, <1>8

LEMMA StepTyped ==
    ASSUME NEW t \in Tasks, StepOf(t), CacheStep(t)
    PROVE  Typed(t)
BY TypedLook, TypedDrop, TypedRead, TypedEnter, TypedEvict, TypedEvicted, TypedPut, TypedTrack,
   TypedClearing DEF CacheStep

\* The steps of the views start, leave or pass over the cache's.
LEMMA TypedOn ==
    ASSUME NEW t \in Tasks, StepOf(t), UNCHANGED cacheVars, NEW label \in Labels \ Keyed,
           Goto(t, label), UNCHANGED loc
    PROVE  Moves(t) /\ Typed(t) /\ pc'[t] = label
<1>1. Moves(t) /\ TaskOK(t)' /\ pc'[t] = label
    BY StepUses
<1>2. StoreTyped /\ tracked' \in Accounts /\ total' \in Int /\ UNCHANGED lock
    BY DEF StepOf, CacheOK, StoreTyped, cacheVars
<1> QED  BY <1>1, <1>2, StillTyped DEF StepOf, Keyed

LEMMA TypedStart ==
    ASSUME NEW t \in Tasks, StepOf(t), NEW label \in Labels \ ({"queued"} \cup Holding),
           NEW l, Alone(t, label, l), LocalsOK(l), label \in Keyed => l.key \in Keys,
           StoreTyped, UNCHANGED <<tracked, total, lock>>
    PROVE  Moves(t) /\ Typed(t) /\ pc'[t] = label /\ loc'[t] = l
<1>1. Moves(t) /\ TaskOK(t)' /\ pc'[t] = label
    BY TaskGoes DEF StepOf, Holding
<1>2. tracked' \in Accounts /\ total' \in Int /\ UNCHANGED lock
    BY DEF StepOf, CacheOK
<1>3. loc'[t] = l
    BY AloneMoves DEF StepOf
<1> QED  BY <1>1, <1>2, <1>3, StillTyped DEF StepOf

LEMMA SameStore ==
    ASSUME CacheOK, UNCHANGED cacheVars
    PROVE  StoreTyped /\ UNCHANGED <<tracked, total, lock>>
BY DEF CacheOK, StoreTyped, cacheVars

LEMMA TypedFree ==
    ASSUME NEW t \in Tasks, StepOf(t), UNCHANGED cacheVars, Free(t)
    PROVE  Moves(t) /\ Typed(t) /\ pc'[t] = "idle"
<1>1. Alone(t, "idle", Fresh)
    BY FreshIsShaped DEF Free, Alone, SetLoc
<1>2. LocalsOK(Fresh)
    BY FreshTyped
<1> QED  BY <1>1, <1>2, TypedStart, SameStore DEF StepOf, Labels, Keyed, Holding

LEMMA TypedStay ==
    ASSUME NEW t \in Tasks, StepOf(t), UNCHANGED <<cacheVars, pc, loc>>
    PROVE  Moves(t) /\ Typed(t)
<1>1. Moves(t) /\ Same(t)
    BY StayMoves DEF StepOf
<1>2. TaskOK(t)' /\ pc'[t] = pc[t]
    BY <1>1, SameTask DEF StepOf, Same
<1> QED  BY <1>1, <1>2, SameStore, StillTyped DEF StepOf, CacheOK

LEMMA TypedQuery ==
    ASSUME NEW t \in Tasks, StepOf(t), NEW k \in Keys, StartQuery(t, k)
    PROVE  Moves(t) /\ Typed(t) /\ pc'[t] \in {"look", "read"}
<1> DEFINE label == IF k[2] \in Cached THEN "look" ELSE "read"
           l == [Fresh EXCEPT !.op = "query", !.key = k]
<1>1. Alone(t, label, l) /\ UNCHANGED cacheVars
    BY FreshIsShaped DEF StartQuery, Alone, SetLoc
<1>2. LocalsOK(l) /\ l.key = k
    BY FreshTyped DEF Fresh
<1>3. label \in {"look", "read"}
    OBVIOUS
<1> HIDE DEF label, l
<1> QED  BY <1>1, <1>2, <1>3, TypedStart, SameStore DEF StepOf, Labels, Keyed, Holding

LEMMA ViewStepTyped ==
    ASSUME NEW c \in Clients, StepOf(c), CallOK(c), ViewStep(c)
    PROVE  Typed(c)
<1> c \in Tasks
    BY Tasked
<1>1. UNCHANGED cacheVars
    BY ViewStepMoves DEF StepOf
<1>2. \A label \in Labels \ Keyed : Goto(c, label) /\ UNCHANGED loc => Typed(c)
    BY <1>1, TypedOn
<1>3. /\ {"idle", "save", "refreshing", "fetch", "deleteData", "answered", "list"}
            \subseteq Labels \ Keyed
      /\ job[c].next \in Labels \ Keyed
    BY DEF CallOK, Labels, Keyed, Holding
<1>4. CASE Return(c)
    BY <1>1, <1>4, TypedFree DEF Return
<1>5. CASE Awaited(c) \/ Delete(c)
    BY <1>2, <1>3, <1>5 DEF Awaited, Delete, Cache
<1>6. CASE Create(c) \/ Update(c) \/ DeleteData(c)
    BY <1>2, <1>3, <1>6 DEF Create, Update, DeleteData, Stop, Cache
<1>7. CASE Save(c) \/ Lookup(c) \/ Fetch(c)
    BY <1>2, <1>3, <1>7 DEF Save, Lookup, Fetch, Stop, Await, Cache
<1>8. CASE Refresh(c) \/ RefreshAll(c) \/ AfterWrite(c)
    BY <1>2, <1>3, <1>8 DEF Refresh, RefreshAll, AfterWrite, Await, Cache
<1>9. CASE Written(c)
  <2>1. CASE UNCHANGED loc
      BY <1>2, <1>3, <1>9, <2>1 DEF Written
  <2>2. CASE loc' = [loc EXCEPT ![c].op = "patched"] /\ Goto(c, "list")
    <3> DEFINE l == [loc[c] EXCEPT !.op = "patched"]
    <3>1. Shaped(loc[c]) /\ LocalsOK(loc[c])
        BY StepUses
    <3>2. Shaped(l)
        BY <3>1, ChangedFields
    <3>3. LocalsOK(l)
        BY <3>1, ChangedLocals
    <3>4. Alone(c, "list", l)
        BY <2>2, <3>2 DEF Alone, SetLoc, StepOf, TaskShapes
    <3> HIDE DEF l
    <3> QED  BY <1>1, <1>3, <3>3, <3>4, TypedStart, SameStore DEF StepOf, Keyed, Holding
  <2> QED  BY <1>9, <2>1, <2>2 DEF Written
<1> QED  BY <1>4, <1>5, <1>6, <1>7, <1>8, <1>9 DEF ViewStep

LEMMA RefreshTyped ==
    ASSUME NEW r \in Refreshers, StepOf(r), ViewsOK, RefreshStep(r)
    PROVE  Typed(r)
<1> r \in Tasks
    BY Tasked
<1>1. UNCHANGED cacheVars
    BY RefreshStepMoves DEF StepOf
<1>2. CASE GetMeta(r)
  <2>1. CASE UNCHANGED <<pc, loc>>
      BY <1>1, <2>1, TypedStay
  <2>2. CASE Exists(r[2]) /\ StartQuery(r, meta[r[2]].source)
    <3>1. r[2] \in ViewNames
        BY DEF Refreshers
    <3>2. meta[r[2]].source \in Keys
        BY <2>2, <3>1, ViewAssumption DEF ViewsOK, Exists, DefinitionsOf
    <3> QED  BY <2>2, <3>2, TypedQuery
  <2> QED  BY <1>2, <2>1, <2>2 DEF GetMeta, NothingToDo
<1>3. CASE StoreResult(r) \/ RefreshFails(r)
    BY <1>1, <1>3, TypedFree DEF StoreResult, RefreshFails
<1>4. CASE SaveMeta(r)
    BY <1>1, <1>4, TypedStay DEF SaveMeta
<1> QED  BY <1>2, <1>3, <1>4 DEF RefreshStep

LEMMA CallTyped ==
    ASSUME NEW c \in Clients, StepOf(c), Call(c)
    PROVE  Moves(c) /\ Typed(c) /\ WorldOK'
<1> c \in Tasks
    BY Tasked
<1>1. UNCHANGED world => WorldOK'
    BY DEF StepOf, WorldOK, world
<1>2. ASSUME NEW p \in Paths, NEW op \in Writes, Write(c, p, op)
      PROVE  Moves(c) /\ Typed(c) /\ WorldOK'
  <2>1. Change(c, p, op) /\ UNCHANGED cacheVars
      BY <1>2 DEF Write, Change
  <2>2. WorldOK'
      BY <2>1, CacheAssumption DEF Change, StepOf, WorldOK, Versions
  <2>3. CASE UNCHANGED <<pc, loc>>
      BY <2>1, <2>2, <2>3, TypedStay
  <2>4. CASE SetLoc(c, WriteLocals(p, op)) /\ Goto(c, "list")
    <3>1. Shaped(WriteLocals(p, op)) /\ LocalsOK(WriteLocals(p, op))
        BY FreshIsShaped, FreshTyped DEF WriteLocals
    <3> QED  BY <2>1, <2>2, <2>4, <3>1, TypedStart, SameStore
             DEF Alone, StepOf, Labels, Keyed, Holding
  <2> QED  BY <2>1, <2>3, <2>4 DEF Change, SetLoc, WriteLocals
<1>3. ASSUME NEW k \in Keys, Query(c, k)
      PROVE  Moves(c) /\ Typed(c) /\ WorldOK'
    BY <1>1, <1>3, TypedQuery DEF Query, StartQuery
<1>4. ASSUME NEW p \in Paths, NEW wide \in BOOLEAN, Clear(c, p, wide)
      PROVE  Moves(c) /\ Typed(c) /\ WorldOK'
  <2> DEFINE k == <<p, Fresh.key[2]>>
             l == [Fresh EXCEPT !.op = "clear", !.key = k, !.wide = wide]
  <2>1. SetLoc(c, l) /\ Goto(c, "list") /\ UNCHANGED <<world, cacheVars>>
      BY <1>4 DEF Clear, StartClear, SetLoc
  <2> HIDE DEF k
  <2>2. Shaped(l)
      BY FreshIsShaped
  <2>3. LocalsOK(l)
      BY FreshTyped
  <2> HIDE DEF l
  <2> QED  BY <1>1, <2>1, <2>2, <2>3, TypedStart, SameStore
           DEF Alone, StepOf, Labels, Keyed, Holding
<1>5. ASSUME NEW k \in Keys, ClearOne(c, k)
      PROVE  Moves(c) /\ Typed(c) /\ WorldOK'
  <2> DEFINE todo == {k}
             l == [Fresh EXCEPT !.op = "clear", !.key = k, !.todo = todo]
  <2>1. /\ SetLoc(c, l) /\ Goto(c, "wipe") /\ UNCHANGED <<world, tracked, total, lock>>
        /\ store' = [store EXCEPT ![k] = None]
      BY <1>5 DEF ClearOne, ClearQuery, SetLoc
  <2>2. todo \in SUBSET Keys
      OBVIOUS
  <2> HIDE DEF todo
  <2>3. Shaped(l)
      BY FreshIsShaped
  <2>4. LocalsOK(l)
      BY <2>2, FreshTyped
  <2>5. StoreTyped
      BY <2>1, StoreSet DEF StepOf
  <2> HIDE DEF l
  <2> QED  BY <1>1, <2>1, <2>3, <2>4, <2>5, TypedStart DEF Alone, Labels, Keyed, Holding
<1>6. ASSUME NEW label \in {"lookup", "delete", "refresh", "create", "update", "refreshAll"},
             NEW j, Ask(c, label, j)
      PROVE  Moves(c) /\ Typed(c) /\ WorldOK'
  <2>1. label \in Labels \ Keyed
      BY DEF Labels, Keyed, Holding
  <2>2. Goto(c, label) /\ UNCHANGED <<world, cacheVars, loc>>
      BY <1>6 DEF Ask, Cache
  <2> QED  BY <1>1, <2>1, <2>2, TypedOn
<1>7. ASSUME NEW v \in ViewNames, CallView(c, v)
      PROVE  Moves(c) /\ Typed(c) /\ WorldOK'
    BY <1>6, <1>7 DEF CallView
<1> QED  BY <1>2, <1>3, <1>4, <1>5, <1>6, <1>7 DEF Call, Writes

-----------------------------------------------------------------------------
\* What a client's step leaves of its job, the refreshes and the views.
JobTyped(e) ==
    /\ JobShapes' /\ CallOK(e)'
    /\ \A c \in Clients \ {e} : job'[c] = job[c]

ClientTyped(e) == JobTyped(e) /\ RefreshesOK' /\ ViewsOK'

LEMMA BeginTyped ==
    ASSUME RefreshesOK, NEW c, NEW vs, Begin(c, vs), UNCHANGED copy
    PROVE  RefreshesOK'
BY DEF RefreshesOK, RefreshOK, StepFunction, Begin

LEMMA SameRefreshes ==
    ASSUME RefreshesOK, UNCHANGED <<step, copy>>
    PROVE  RefreshesOK'
BY DEF RefreshesOK, RefreshOK, StepFunction

LEMMA SameViews ==
    ASSUME ViewsOK, UNCHANGED <<meta, view>>
    PROVE  ViewsOK'
BY DEF ViewsOK

\* The client's state that its step uses.
CallOf(e) == TaskShapes /\ JobShapes /\ RefreshesOK /\ ViewsOK /\ CallOK(e)

LEMMA AwaitTyped ==
    ASSUME NEW e \in Clients, CallOf(e), NEW vs \in SUBSET ViewNames,
           NEW next \in {"written", "return", "fetch"}, Await(e, vs, next),
           next = "fetch" => job[e].view \in ViewNames, UNCHANGED <<view, copy, loc>>
    PROVE  JobTyped(e) /\ RefreshesOK'
<1> DEFINE started == vs \ inFlight
           j == [job[e] EXCEPT !.next = next, !.started = started]
<1>1. JobShaped(job[e])
    BY DEF CallOf, JobShapes
<1>2. SetJob(e, j) /\ Goto(e, "refreshing") /\ Begin(e, vs)
    BY DEF Await, SetJob, CallOf, JobShapes
<1>3. started \subseteq ViewNames
    OBVIOUS
<1> HIDE DEF started
<1>4. JobShaped(j)
    BY <1>1, ChangedJob
<1>5. j.view = job[e].view /\ j.next = next /\ j.started = started
    BY <1>1 DEF JobShaped, JobFields
<1> HIDE DEF j
<1>6. JobShapes' /\ job'[e] = j /\ \A c \in Clients \ {e} : job'[c] = job[c]
    BY <1>2, <1>4, SetJobEffect DEF CallOf
<1>7. pc'[e] = "refreshing"
    BY <1>2, LabelMoves, Tasked DEF CallOf
<1>8. CallOK(e)'
    BY <1>3, <1>5, <1>6, <1>7 DEF CallOK, OfView
<1> QED  BY <1>2, <1>6, <1>8, BeginTyped DEF JobTyped, CallOf

LEMMA StopTyped ==
    ASSUME NEW e \in Clients, CallOf(e), SetJob(e, NoJob), Goto(e, "idle")
    PROVE  JobTyped(e)
<1>1. JobShapes' /\ job'[e] = NoJob /\ \A c \in Clients \ {e} : job'[c] = job[c]
    BY SetJobEffect, NoJobIsShaped DEF CallOf
<1>2. pc'[e] = "idle"
    BY Tasked DEF Goto, CallOf, TaskShapes
<1>3. CallOK(e)'
    BY <1>1, <1>2 DEF CallOK, OfView, NoJob
<1> QED  BY <1>1, <1>3 DEF JobTyped

LEMMA GoneTyped ==
    ASSUME NEW e \in Clients, CallOf(e), UNCHANGED job, NEW label, Goto(e, label),
           \/ label \in {"written", "return", "answered", "list"}
           \/ label \in {"fetch", "deleteData"} /\ OfView(e)
           \/ label = "save" /\ pc[e] = "create"
    PROVE  JobTyped(e)
<1>1. pc'[e] = label
    BY Tasked DEF Goto, CallOf, TaskShapes
<1>2. JobShapes' /\ job'[e] = job[e] /\ \A c \in Clients \ {e} : job'[c] = job[c]
    BY DEF CallOf, JobShapes
<1>3. CallOK(e)'
    BY <1>1, <1>2 DEF CallOf, CallOK, OfView
<1> QED  BY <1>2, <1>3 DEF JobTyped

LEMMA ViewStepJobs ==
    ASSUME NEW c \in Clients, CallOf(c), ViewStep(c)
    PROVE  ClientTyped(c)
<1> DEFINE v == job[c].view
<1>1. Stop(c) => JobTyped(c) /\ UNCHANGED step
    BY StopTyped DEF Stop, SetJob
<1>2. UNCHANGED <<step, copy>> => RefreshesOK'
    BY SameRefreshes DEF CallOf
<1>3. UNCHANGED <<meta, view>> => ViewsOK'
    BY SameViews DEF CallOf
<1>4. OfView(c) => v \in ViewNames
    BY DEF CallOf, CallOK
<1>5. \A vs \in SUBSET ViewNames, next \in {"written", "return", "fetch"} :
            Await(c, vs, next) /\ (next = "fetch" => v \in ViewNames)
              /\ UNCHANGED <<view, copy, loc>>
              => JobTyped(c) /\ RefreshesOK'
    BY AwaitTyped
<1> HIDE DEF v
<1>6. CASE Return(c)
    BY <1>2, <1>3, <1>6, StopTyped DEF Return, Free, SetJob, ClientTyped
<1>7. CASE Awaited(c)
  <2>1. /\ pc[c] = "refreshing" /\ Goto(c, job[c].next)
        /\ UNCHANGED <<job, step, copy, meta, view>>
      BY <1>7 DEF Awaited
  <2>2. job[c].next \in {"idle", "written", "return", "fetch"}
      BY DEF CallOf, CallOK
  <2>3. CASE job[c].next = "idle"
    <3>1. pc'[c] = "idle"
        BY <2>1, <2>3, Tasked DEF Goto, CallOf, TaskShapes
    <3>2. JobTyped(c)
        BY <2>1, <3>1 DEF JobTyped, CallOf, CallOK, OfView, JobShapes
    <3> QED  BY <1>2, <1>3, <2>1, <3>2 DEF ClientTyped
  <2>4. CASE job[c].next # "idle"
    <3>1. JobTyped(c)
        BY <2>1, <2>2, <2>4, GoneTyped DEF OfView
    <3> QED  BY <1>2, <1>3, <2>1, <3>1 DEF ClientTyped
  <2> QED  BY <2>3, <2>4
<1>8. CASE Create(c)
  <2>1. pc[c] = "create" /\ UNCHANGED <<meta, view, copy>>
      BY <1>8 DEF Create
  <2>2. CASE Stop(c)
      BY <1>1, <1>2, <1>3, <2>1, <2>2 DEF ClientTyped
  <2>3. CASE Goto(c, "save") /\ UNCHANGED <<step, job>>
      BY <1>2, <1>3, <2>1, <2>3, GoneTyped DEF ClientTyped
  <2> QED  BY <1>8, <2>2, <2>3 DEF Create
<1>9. CASE Update(c)
  <2>1. pc[c] = "update" /\ UNCHANGED <<meta, view, copy>> /\ v \in ViewNames
      BY <1>4, <1>9 DEF Update, OfView
  <2>2. CASE Stop(c)
      BY <1>1, <1>2, <1>3, <2>1, <2>2 DEF ClientTyped
  <2>3. CASE ~Stop(c)
    <3> DEFINE def == IF job[c].what = "source"
                      THEN [meta[v] EXCEPT !.source = job[c].def.source]
                      ELSE [meta[v] EXCEPT !.strategy = job[c].def.strategy]
               j == [job[c] EXCEPT !.def = def]
    <3>1. /\ Exists(v) /\ Goto(c, "save") /\ UNCHANGED <<step, copy>>
          /\ job' = [job EXCEPT ![c].def = def]
        BY <1>9, <2>1, <2>3 DEF Update, v
    <3>2. SetJob(c, j) /\ JobShaped(job[c])
        BY <3>1 DEF SetJob, CallOf, JobShapes
    <3>3. meta[v] \in DefinitionsOf(v) /\ job[c].def \in DefinitionsOf(v)
        BY <2>1, <3>1 DEF Exists, CallOf, ViewsOK, CallOK, v
    <3>4. def \in DefinitionsOf(v)
        BY <3>3 DEF DefinitionsOf
    <3> HIDE DEF def
    <3>5. JobShaped(j)
        BY <3>2, ChangedJob
    <3>6. j.view = v /\ j.next = job[c].next /\ j.started = job[c].started /\ j.def = def
        BY <3>2 DEF JobShaped, JobFields, v
    <3> HIDE DEF j
    <3>7. JobShapes' /\ job'[c] = j /\ \A d \in Clients \ {c} : job'[d] = job[d]
        BY <3>2, <3>5, SetJobEffect DEF CallOf
    <3>8. pc'[c] = "save"
        BY <3>1, Tasked DEF Goto, CallOf, TaskShapes
    <3>9. CallOK(c)'
        BY <2>1, <3>4, <3>6, <3>7, <3>8 DEF CallOf, CallOK, OfView
    <3> QED  BY <1>2, <1>3, <2>1, <3>1, <3>7, <3>9 DEF ClientTyped, JobTyped
  <2> QED  BY <2>2, <2>3
<1>10. CASE Save(c)
  <2>1. /\ pc[c] = "save" /\ meta' = [meta EXCEPT ![v] = job[c].def]
        /\ UNCHANGED <<view, copy, loc>> /\ v \in ViewNames
      BY <1>4, <1>10 DEF Save, Cache, OfView, v
  <2>2. job[c].def \in DefinitionsOf(v)
      BY <2>1 DEF CallOf, CallOK, v
  <2>3. ViewsOK'
      BY <2>1, <2>2 DEF CallOf, ViewsOK
  <2>4. Stop(c) \/ Await(c, {v}, "return")
      BY <1>10 DEF Save, v
  <2>5. JobTyped(c) /\ RefreshesOK'
    <3>1. {v} \in SUBSET ViewNames
        BY <2>1
    <3> QED  BY <1>1, <1>2, <1>5, <2>1, <2>4, <3>1
  <2> QED  BY <2>3, <2>5 DEF ClientTyped
<1>11. CASE Lookup(c) \/ Fetch(c)
  <2>1. UNCHANGED <<meta, view, copy, loc>> /\ v \in ViewNames /\ OfView(c)
      BY <1>4, <1>11 DEF Lookup, Fetch, Cache, OfView
  <2>2. \/ Stop(c) \/ Await(c, {v}, "return") \/ Await(c, {v}, "fetch")
        \/ Goto(c, "fetch") /\ UNCHANGED <<step, job>>
      BY <1>11 DEF Lookup, Fetch, v
  <2>3. JobTyped(c) /\ RefreshesOK'
    <3>1. {v} \in SUBSET ViewNames
        BY <2>1
    <3>2. CASE Stop(c) \/ (Goto(c, "fetch") /\ UNCHANGED <<step, job>>)
        BY <1>1, <1>2, <2>1, <3>2, GoneTyped
    <3>3. CASE Await(c, {v}, "return") \/ Await(c, {v}, "fetch")
        BY <1>5, <2>1, <3>1, <3>3
    <3> QED  BY <2>2, <3>2, <3>3
  <2> QED  BY <1>3, <2>1, <2>3 DEF ClientTyped
<1>12. CASE Delete(c)
  <2>1. /\ meta' = [meta EXCEPT ![v] = None] /\ Goto(c, "deleteData")
        /\ UNCHANGED <<job, step, copy, view>> /\ OfView(c)
      BY <1>12 DEF Delete, OfView, v
  <2>2. ViewsOK'
      BY <2>1 DEF CallOf, ViewsOK
  <2> QED  BY <1>2, <2>1, <2>2, GoneTyped DEF ClientTyped
<1>13. CASE DeleteData(c)
  <2>1. /\ view' \in {view, [view EXCEPT ![v] = None]} /\ Stop(c) /\ UNCHANGED <<meta, copy>>
      BY <1>13 DEF DeleteData, v
  <2>2. ViewsOK'
      BY <2>1 DEF CallOf, ViewsOK
  <2> QED  BY <1>1, <1>2, <2>1, <2>2 DEF ClientTyped
<1>14. CASE Refresh(c) \/ RefreshAll(c)
  <2>1. PICK vs \in SUBSET ViewNames : Await(c, vs, "return")
    <3>1. CASE Refresh(c)
      <4>1. {v} \in SUBSET ViewNames
          BY <1>4, <3>1 DEF Refresh, OfView
      <4> QED  BY <3>1, <4>1 DEF Refresh, v
    <3>2. CASE RefreshAll(c)
        BY <3>2 DEF RefreshAll
    <3> QED  BY <1>14, <3>1, <3>2
  <2>2. UNCHANGED <<meta, view, copy, loc>>
      BY <1>14 DEF Refresh, RefreshAll, Cache
  <2> QED  BY <1>3, <1>5, <2>1, <2>2 DEF ClientTyped
<1>15. CASE AfterWrite(c)
  <2> DEFINE vs == Dependents(KeyPath(loc[c].key))
  <2>1. \/ Goto(c, "answered") /\ UNCHANGED <<job, step>>
        \/ Await(c, vs, "written")
      BY <1>15 DEF AfterWrite
  <2>2. UNCHANGED <<meta, view, copy, loc>> /\ vs \in SUBSET ViewNames
      BY <1>15 DEF AfterWrite, Cache, Dependents
  <2> HIDE DEF vs
  <2>3. JobTyped(c) /\ RefreshesOK'
      BY <1>2, <1>5, <2>1, <2>2, GoneTyped
  <2> QED  BY <1>3, <2>2, <2>3 DEF ClientTyped
<1>16. CASE Written(c)
  <2>1. \/ Goto(c, "answered") \/ Goto(c, "list")
      BY <1>16 DEF Written
  <2>2. UNCHANGED <<meta, view, copy, job, step>>
      BY <1>16 DEF Written
  <2> QED  BY <1>2, <1>3, <2>1, <2>2, GoneTyped DEF ClientTyped
<1> QED  BY <1>6, <1>7, <1>8, <1>9, <1>10, <1>11, <1>12, <1>13, <1>14, <1>15, <1>16 DEF ViewStep

LEMMA AskTyped ==
    ASSUME NEW c \in Clients, CallOf(c), NEW label \in Labels, NEW j, Ask(c, label, j),
           JobShaped(j), label \notin {"save", "fetch", "deleteData", "refreshing"},
           j.next = "idle", j.started = {},
           label \in {"create", "update", "lookup", "delete", "refresh"}
               => j.view \in ViewNames,
           label \in {"create", "update"} => j.def \in DefinitionsOf(j.view)
    PROVE  ClientTyped(c)
<1>1. SetJob(c, j) /\ UNCHANGED <<step, copy, meta, view, loc>> /\ Goto(c, label)
    BY DEF Ask, SetJob, Cache
<1>2. JobShapes' /\ job'[c] = j /\ \A d \in Clients \ {c} : job'[d] = job[d]
    BY <1>1, SetJobEffect DEF CallOf
<1>3. pc'[c] = label
    BY <1>1, Tasked DEF Goto, CallOf, TaskShapes
<1>4. CallOK(c)'
    BY <1>2, <1>3 DEF CallOK, OfView
<1> QED  BY <1>1, <1>2, <1>4, SameRefreshes, SameViews DEF ClientTyped, JobTyped, CallOf

LEMMA CallJobs ==
    ASSUME NEW c \in Clients, CallOf(c), Call(c), Moves(c)
    PROVE  ClientTyped(c)
<1> c \in Tasks
    BY Tasked
<1>1. /\ UNCHANGED <<step, copy>> => RefreshesOK'
      /\ UNCHANGED <<meta, view>> => ViewsOK'
    BY SameRefreshes, SameViews DEF CallOf
<1>2. JobShapes => job = [d \in Clients |-> job[d]]
    BY DEF JobShapes
\* The calls of the cache itself.
<1>3. ASSUME UNCHANGED <<job, meta, view, step, copy>>,
             pc'[c] \in {"look", "read", "list", "wipe"}
      PROVE  ClientTyped(c)
  <2>1. JobTyped(c)
      BY <1>3 DEF JobTyped, CallOf, CallOK, OfView, JobShapes
  <2> QED  BY <1>1, <1>3, <2>1 DEF ClientTyped
<1>4. \A label : Goto(c, label) => pc'[c] = label
    BY DEF Goto, CallOf, TaskShapes
<1>5. ASSUME NEW k \in Keys, Query(c, k) \/ ClearOne(c, k)
      PROVE  ClientTyped(c)
    BY <1>3, <1>4, <1>5 DEF Query, StartQuery, ClearOne, ClearQuery, viewVars
<1>6. ASSUME NEW p \in Paths, NEW wide \in BOOLEAN, Clear(c, p, wide)
      PROVE  ClientTyped(c)
    BY <1>3, <1>4, <1>6 DEF Clear, StartClear, viewVars
<1>7. ASSUME NEW p \in Paths, NEW op \in Writes, Write(c, p, op)
      PROVE  ClientTyped(c)
  <2> DEFINE j == [NoJob EXCEPT !.stamp = writes + 1]
  <2>1. SetJob(c, j) /\ UNCHANGED <<meta, view, step, copy>> /\ pc[c] = "idle"
      BY <1>7 DEF Write, Change, SetJob
  <2>2. JobShaped(j) /\ j.next = "idle" /\ j.started = {}
      BY NoJobIsShaped DEF NoJob
  <2>3. pc'[c] \in {"idle", "list"}
      BY <1>4, <1>7, <2>1 DEF Write, Change
  <2> HIDE DEF j
  <2>4. JobShapes' /\ job'[c] = j /\ \A d \in Clients \ {c} : job'[d] = job[d]
      BY <2>1, <2>2, SetJobEffect DEF CallOf
  <2>5. CallOK(c)'
      BY <2>2, <2>3, <2>4 DEF CallOK, OfView
  <2> QED  BY <1>1, <2>1, <2>4, <2>5 DEF ClientTyped, JobTyped
<1>8. ASSUME NEW v \in ViewNames, CallView(c, v)
      PROVE  ClientTyped(c)
  <2>1. \A label \in {"lookup", "delete"} :
            Ask(c, label, [NoJob EXCEPT !.view = v]) => ClientTyped(c)
    <3> DEFINE j == [NoJob EXCEPT !.view = v]
    <3>1. JobShaped(j) /\ j.next = "idle" /\ j.started = {} /\ j.view = v
        BY NoJobIsShaped DEF NoJob
    <3> HIDE DEF j
    <3>2. \A label \in {"lookup", "delete"} : Ask(c, label, j) => ClientTyped(c)
        BY <3>1, AskTyped DEF Labels
    <3> QED  BY <3>2 DEF j
  <2>2. ASSUME NEW force \in BOOLEAN, Ask(c, "refresh", [NoJob EXCEPT !.view = v, !.force = force])
        PROVE  ClientTyped(c)
    <3> DEFINE j == [NoJob EXCEPT !.view = v, !.force = force]
    <3>1. JobShaped(j) /\ j.next = "idle" /\ j.started = {} /\ j.view = v
        BY NoJobIsShaped DEF NoJob
    <3>2. Ask(c, "refresh", j)
        BY <2>2
    <3> HIDE DEF j
    <3> QED  BY <3>1, <3>2, AskTyped DEF Labels
  <2>3. ASSUME NEW def \in Definitions(v), Ask(c, "create", [NoJob EXCEPT !.view = v, !.def = def])
        PROVE  ClientTyped(c)
    <3> DEFINE j == [NoJob EXCEPT !.view = v, !.def = def]
    <3>1. JobShaped(j) /\ j.next = "idle" /\ j.started = {} /\ j.view = v /\ j.def = def
        BY NoJobIsShaped DEF NoJob
    <3>2. def \in DefinitionsOf(v)
        BY DEF Definitions, DefinitionsOf
    <3>3. Ask(c, "create", j)
        BY <2>3
    <3> HIDE DEF j
    <3> QED  BY <3>1, <3>2, <3>3, AskTyped DEF Labels
  <2>4. ASSUME NEW def \in DefinitionsOf(v), NEW what,
               Ask(c, "update", [NoJob EXCEPT !.view = v, !.what = what, !.def = def])
        PROVE  ClientTyped(c)
    <3> DEFINE j == [NoJob EXCEPT !.view = v, !.what = what, !.def = def]
    <3>1. JobShaped(j) /\ j.next = "idle" /\ j.started = {} /\ j.view = v /\ j.def = def
        BY NoJobIsShaped DEF NoJob
    <3>2. Ask(c, "update", j)
        BY <2>4
    <3> HIDE DEF j
    <3> QED  BY <3>1, <3>2, AskTyped DEF Labels
  <2>5. SomeDefinition(v) \in DefinitionsOf(v)
    <3>1. Definitions(v) # {}
      <4>1. PICK s \in Sources(v), x \in Strategies(v) : TRUE
          BY ViewAssumption
      <4>2. [source |-> s, strategy |-> x, old |-> FALSE] \in Definitions(v)
          BY DEF Definitions
      <4> QED  BY <4>2
    <3>2. SomeDefinition(v) \in Definitions(v)
        BY <3>1 DEF SomeDefinition
    <3> QED  BY <3>2 DEF Definitions, DefinitionsOf
  <2>6. /\ \A s \in Sources(v) :
              [SomeDefinition(v) EXCEPT !.source = s] \in DefinitionsOf(v)
        /\ \A s \in Strategies(v) :
              [SomeDefinition(v) EXCEPT !.strategy = s] \in DefinitionsOf(v)
      BY <2>5 DEF DefinitionsOf
  <2> QED  BY <1>8, <2>1, <2>2, <2>3, <2>4, <2>6 DEF CallView
<1>9. CASE Ask(c, "refreshAll", NoJob)
  <2>1. JobShaped(NoJob) /\ NoJob.next = "idle" /\ NoJob.started = {}
      BY NoJobIsShaped DEF NoJob
  <2> QED  BY <1>9, <2>1, AskTyped DEF Labels
<1> QED  BY <1>5, <1>6, <1>7, <1>8, <1>9 DEF Call, Writes

\* What the step of a refresh leaves of the refreshes and the views.
LEMMA FinishTyped ==
    ASSUME RefreshesOK, NEW r \in Refreshers, Finish(r)
    PROVE  RefreshesOK'
BY DEF RefreshesOK, RefreshOK, StepFunction, Finish

LEMMA RefreshStepViews ==
    ASSUME RefreshesOK, ViewsOK, NEW r \in Refreshers, RefreshStep(r), TaskOK(r)
    PROVE  RefreshesOK' /\ ViewsOK'
<1>1. r[2] \in ViewNames
    BY DEF Refreshers
<1>2. RefreshOK(r)
    BY DEF RefreshesOK
<1>3. CASE GetMeta(r)
  <2>1. UNCHANGED <<meta, view>>
      BY <1>3 DEF GetMeta
  <2>2. CASE Finish(r)
      BY <2>1, <2>2, FinishTyped, SameViews
  <2>3. CASE ~Finish(r)
    <3>1. /\ Exists(r[2]) /\ copy' = [copy EXCEPT ![r] = meta[r[2]]]
          /\ step' = [step EXCEPT ![r] = "query"]
        BY <1>3, <2>3 DEF GetMeta, NothingToDo
    <3>2. meta[r[2]] \in DefinitionsOf(r[2])
        BY <1>1, <3>1 DEF ViewsOK, Exists
    <3> QED  BY <2>1, <3>1, <3>2, SameViews DEF RefreshesOK, RefreshOK, StepFunction
  <2> QED  BY <2>2, <2>3
<1>4. CASE StoreResult(r)
  <2>1. /\ view' = [view EXCEPT ![r[2]] = loc[r].answer] /\ UNCHANGED <<meta, copy>>
        /\ step' = [step EXCEPT ![r] = "save"] /\ step[r] = "query"
      BY <1>4 DEF StoreResult
  <2>2. loc[r].answer \in Answers \cup {None}
      BY DEF TaskOK, LocalsOK
  <2>3. ViewsOK'
      BY <2>1, <2>2 DEF ViewsOK
  <2>4. RefreshesOK'
      BY <1>2, <2>1 DEF RefreshesOK, RefreshOK, StepFunction
  <2> QED  BY <2>3, <2>4
<1>5. CASE SaveMeta(r)
  <2> DEFINE saved == [copy[r] EXCEPT !.old = FALSE]
  <2>1. /\ step[r] = "save" /\ UNCHANGED view /\ Finish(r)
        /\ meta' = [meta EXCEPT ![r[2]] = saved]
      BY <1>5 DEF SaveMeta
  <2>2. saved \in DefinitionsOf(r[2])
      BY <1>2, <2>1 DEF RefreshOK, DefinitionsOf
  <2> HIDE DEF saved
  <2>3. ViewsOK'
      BY <2>1, <2>2 DEF ViewsOK
  <2> QED  BY <2>1, <2>3, FinishTyped
<1>6. CASE RefreshFails(r)
    BY <1>6, FinishTyped, SameViews DEF RefreshFails
<1> QED  BY <1>3, <1>4, <1>5, <1>6 DEF RefreshStep

LEMMA SameCall ==
    ASSUME NEW c, CallOK(c), pc'[c] = pc[c], SameJob(c)
    PROVE  CallOK(c)'
BY DEF CallOK, OfView, SameJob

LEMMA AllTyped ==
    ASSUME TypeInv, NEW t \in Tasks, Moves(t), Typed(t)
    PROVE  CacheOK' /\ TaskShapes' /\ \A u \in Tasks : TaskOK(u)' /\ LockOK(u)'
<1>1. \A u \in Tasks \ {t} : TaskOK(u)'
    BY SameTask DEF TypeInv, Moves
<1> QED  BY <1>1 DEF Typed, Moves

LEMMA ClientsTyped ==
    ASSUME TypeInv, NEW e \in Clients, Moves(e), Typed(e), ClientTyped(e), WorldOK'
    PROVE  TypeInv'
<1>1. CacheOK' /\ TaskShapes' /\ \A u \in Tasks : TaskOK(u)' /\ LockOK(u)'
    BY AllTyped, Tasked
<1>2. \A c \in Clients \ {e} : pc'[c] = pc[c] /\ SameJob(c)
    BY Tasked DEF Moves, Same, ClientTyped, JobTyped, SameJob
<1>3. \A c \in Clients : CallOK(c)'
    BY <1>2, SameCall DEF TypeInv, ClientTyped, JobTyped
<1> QED  BY <1>1, <1>3 DEF TypeInv, ClientTyped, JobTyped

LEMMA NextTyped ==
    ASSUME TypeInv, [Next]_vars
    PROVE  TypeInv'
<1>1. \A t \in Tasks : StepOf(t)
    BY DEF TypeInv, StepOf
<1>2. \A c \in Clients : c \in Tasks /\ CallOf(c) /\ CallOK(c)
    BY Tasked DEF TypeInv, CallOf
<1>3. TaskShapes /\ JobShapes /\ RefreshesOK /\ ViewsOK /\ CacheOK /\ WorldOK
    BY DEF TypeInv
<1>4. UNCHANGED world => WorldOK'
    BY <1>3 DEF WorldOK, world
<1>5. CASE \E c \in Clients : Call(c)
  <2>1. PICK c \in Clients : Call(c)
      BY <1>5
  <2>2. Moves(c) /\ Typed(c) /\ WorldOK'
      BY <1>1, <1>2, <2>1, CallTyped
  <2> QED  BY <1>2, <2>1, <2>2, CallJobs, ClientsTyped
<1>6. CASE \E c \in Clients : ViewStep(c)
  <2>1. PICK c \in Clients : ViewStep(c)
      BY <1>6
  <2>2. Moves(c) /\ UNCHANGED world
      BY <1>3, <2>1, ViewStepMoves
  <2>3. Typed(c) /\ ClientTyped(c)
      BY <1>1, <1>2, <2>1, ViewStepTyped, ViewStepJobs
  <2> QED  BY <1>4, <2>2, <2>3, ClientsTyped
<1>7. CASE \E r \in Refreshers : RefreshStep(r)
  <2>1. PICK r \in Refreshers : RefreshStep(r)
      BY <1>7
  <2>2. PICK d \in Clients, v \in ViewNames : r = <<d, v>>
      BY DEF Refreshers
  <2>3. r \in Tasks /\ Moves(r) /\ UNCHANGED world
      BY <1>3, <2>1, RefreshStepMoves, Tasked
  <2>4. Typed(r)
      BY <1>1, <1>3, <2>1, <2>3, RefreshTyped
  <2>5. RefreshesOK' /\ ViewsOK'
      BY <1>3, <2>1, <2>3, RefreshStepViews DEF TypeInv
  <2>6. JobShapes' /\ \A c \in Clients : SameJob(c)
      BY <1>3, <2>1, <2>2, RefreshJobs
  <2>7. \A c \in Clients : CallOK(c)'
      BY <1>2, <2>1, <2>3, <2>6, SameCall, Tasked DEF Moves, Same
  <2>8. CacheOK' /\ TaskShapes' /\ \A u \in Tasks : TaskOK(u)' /\ LockOK(u)'
      BY <2>3, <2>4, AllTyped
  <2> QED  BY <1>4, <2>3, <2>5, <2>6, <2>7, <2>8 DEF TypeInv
<1>8. CASE \E t \in Tasks : CacheTask(t)
  <2>1. PICK t \in Tasks : CacheTask(t)
      BY <1>8
  <2>2. CacheStep(t) /\ UNCHANGED <<meta, view, step, copy, job>>
      BY <2>1 DEF CacheTask, viewVars
  <2>3. Moves(t) /\ Typed(t)
      BY <1>1, <1>3, <2>2, StepMoves, StepTyped
  <2>4. UNCHANGED world
      BY <2>2 DEF CacheStep, Look, DropLate, ForgetLate, Read, Enter, Evict, Evicted, Put,
            Track, List, Wipe, Forget
  <2>5. RefreshesOK' /\ ViewsOK' /\ JobShapes'
      BY <1>3, <2>2, SameRefreshes, SameViews DEF JobShapes
  <2>6. ASSUME NEW c \in Clients
        PROVE  CallOK(c)'
    <3>1. SameJob(c)
        BY <2>2 DEF SameJob
    <3>2. CASE c # t
        BY <1>2, <2>3, <3>1, <3>2, SameCall DEF Moves, Same
    <3>3. CASE c = t
      <4>1. pc'[c] \in Working \cup {"answered", "cleared"}
          BY <1>3, <2>2, <3>3, StepGoes
      <4>2. ~OfView(c)' /\ pc'[c] \notin {"create", "update", "save"}
          BY <4>1 DEF OfView, Working
      <4> QED  BY <1>2, <3>1, <4>2 DEF CallOK, SameJob
    <3> QED  BY <3>2, <3>3
  <2>7. CacheOK' /\ TaskShapes' /\ \A u \in Tasks : TaskOK(u)' /\ LockOK(u)'
      BY <2>3, AllTyped
  <2> QED  BY <1>4, <2>4, <2>5, <2>6, <2>7 DEF TypeInv
<1>9. CASE Time \/ UNCHANGED vars
  <2>1. UNCHANGED <<world, tracked, total, lock, pc, loc, view, step, copy, job>>
      BY <1>9 DEF Time, Expire, Age, Cache, cacheVars, vars, viewVars
  <2>2. StoreTyped
    <3>1. UNCHANGED store => StoreTyped
        BY <1>3 DEF StoreTyped, CacheOK
    <3>2. ASSUME NEW k \in Keys, Expire(k)
          PROVE  StoreTyped
      <4>1. CASE store' = [store EXCEPT ![k] = None]
          BY <1>3, <4>1, StoreSet
      <4>2. CASE store' = [store EXCEPT ![k].late = TRUE] /\ store[k] # None
        <5>1. store[k] \in Entries
            BY <1>3, <4>2 DEF CacheOK
        <5>2. [store[k] EXCEPT !.late = TRUE] \in Entries
            BY <5>1 DEF Entries
        <5> QED  BY <1>3, <4>2, <5>2 DEF CacheOK, StoreTyped
      <4> QED  BY <3>2, <4>1, <4>2 DEF Expire
    <3> QED  BY <1>9, <3>1, <3>2 DEF Time, Age, Cache, cacheVars, vars
  <2>3. ViewsOK'
    <3>1. UNCHANGED meta => ViewsOK'
        BY <1>3, <2>1, SameViews
    <3>2. ASSUME NEW v \in ViewNames, Age(v)
          PROVE  ViewsOK'
      <4>1. meta' = [meta EXCEPT ![v].old = TRUE] /\ meta[v] \in DefinitionsOf(v)
          BY <1>3, <3>2 DEF Age, Exists, ViewsOK
      <4>2. [meta[v] EXCEPT !.old = TRUE] \in DefinitionsOf(v)
          BY <4>1 DEF DefinitionsOf
      <4> QED  BY <1>3, <2>1, <4>1, <4>2 DEF ViewsOK
    <3> QED  BY <1>9, <3>1, <3>2 DEF Time, vars, viewVars
  <2>4. RefreshesOK' /\ JobShapes' /\ TaskShapes'
      BY <1>3, <2>1, SameRefreshes DEF JobShapes, TaskShapes
  <2>5. CacheOK'
      BY <1>3, <2>1, <2>2 DEF CacheOK, StoreTyped
  <2>6. \A t \in Tasks : TaskOK(t)' /\ LockOK(t)'
      BY <2>1 DEF TypeInv, TaskOK, LocalsOK, LockOK, Queued
  <2>7. \A c \in Clients : CallOK(c)'
      BY <1>2, <2>1 DEF CallOK, OfView
  <2> QED  BY <1>4, <2>1, <2>3, <2>4, <2>5, <2>6, <2>7 DEF TypeInv
<1> QED  BY <1>5, <1>6, <1>7, <1>8, <1>9 DEF Next, Progress

LEMMA InitTyped == Init => TypeInv
<1> SUFFICES ASSUME Init PROVE TypeInv
    OBVIOUS
<1>1. WorldOK
    BY CacheAssumption DEF Init, CacheInit, WorldOK, Versions
<1>2. \A k \in Keys : Answer(k) \in Answers
    BY <1>1, AnswerTyped
<1>3. CacheOK
  <2>1. PICK warm \in SUBSET Keys :
            /\ store = [k \in Keys |-> IF k \in warm THEN Entry(k, Answer(k)) ELSE None]
            /\ tracked \in {NoneTracked, Only([k \in Keys |-> SizeOf(Answer(k))], warm)}
      BY DEF Init, CacheInit
  <2>2. store \in [Keys -> {None} \cup Entries]
    <3>1. \A k \in Keys : Entry(k, Answer(k)) \in Entries
        BY <1>2 DEF Entry, Entries
    <3> QED  BY <2>1, <3>1
  <2>3. tracked \in Accounts
    <3>1. [k \in Keys |-> SizeOf(Answer(k))] \in Accounts
        BY <1>2, SizeAssumption DEF Accounts
    <3>2. \A f \in Accounts : Only(f, warm) \in Accounts
        BY SizesSplit
    <3> QED  BY <2>1, <3>1, <3>2, SizesOfNone
  <2>4. total \in Int /\ lock \in Seq(Tasks)
    <3>1. total = Sizes(tracked) /\ lock = <<>>
        BY DEF Init, CacheInit
    <3>2. Sizes(tracked) \in Nat
        BY <2>3, SizesSplit
    <3> QED  BY <3>1, <3>2
  <2> QED  BY <2>2, <2>3, <2>4 DEF CacheOK
<1>4. RefreshesOK
    BY DEF Init, RefreshesOK, RefreshOK, StepFunction
<1>5. ViewsOK
  <2>1. meta = [v \in ViewNames |-> meta[v]]
      BY DEF Init
  <2>2. \A v \in ViewNames : meta[v] \in DefinitionsOf(v) \cup {None}
      BY DEF Init, Exists, Definitions, DefinitionsOf
  <2>3. \A v \in ViewNames : meta[v] # None => meta[v].source \in Keys
      BY <2>2, ViewAssumption DEF DefinitionsOf
  <2>4. view = [v \in ViewNames |-> IF meta[v] # None THEN Answer(meta[v].source) ELSE None]
      BY DEF Init, Exists
  <2> QED  BY <1>2, <2>1, <2>2, <2>3, <2>4 DEF ViewsOK
<1>6. TaskShapes
    BY FreshIsShaped DEF Init, TaskShapes
<1>7. JobShapes /\ \A c \in Clients : job[c] = NoJob
    BY NoJobIsShaped DEF Init, JobShapes
<1>8. \A t \in Tasks : TaskOK(t) /\ LockOK(t)
  <2>1. \A t \in Tasks : pc[t] = "idle" /\ loc[t] = Fresh
      BY DEF Init
  <2>2. LocalsOK(Fresh)
      BY FreshTyped
  <2> QED  BY <2>1, <2>2 DEF TaskOK, LockOK, Labels, Keyed, Holding
<1>9. \A c \in Clients : CallOK(c)
    BY <1>7, Tasked DEF Init, CallOK, OfView, NoJob
<1> QED  BY <1>1, <1>3, <1>4, <1>5, <1>6, <1>7, <1>8, <1>9 DEF TypeInv

\* Every variable keeps its type, whatever calls overlap and whatever fails.  The
\* invariant behind it says more: what a refresh works with is a definition of its
\* own view, and a task that evicts or stores is the first in the chain of set().
THEOREM ViewsTypeCorrect == Spec => []TypeOK
<1>1. TypeInv => TypeOK
  <2> SUFFICES ASSUME TypeInv PROVE TypeOK
      OBVIOUS
  <2>1. \A v \in ViewNames : DefinitionsOf(v) \subseteq AllDefinitions
      BY DEF DefinitionsOf, AllDefinitions
  <2>2. meta \in [ViewNames -> AllDefinitions \cup {None}]
      BY <2>1 DEF TypeInv, ViewsOK
  <2>3. \A r \in Refreshers : /\ step[r] \in {"idle", "meta", "query", "save"}
                              /\ copy[r] \in AllDefinitions \cup {None}
    <3> TAKE r \in Refreshers
    <3>1. RefreshOK(r) /\ r[2] \in ViewNames
        BY DEF TypeInv, RefreshesOK, Refreshers
    <3> QED  BY <2>1, <3>1 DEF RefreshOK
  <2>4. /\ step \in [Refreshers -> {"idle", "meta", "query", "save"}]
        /\ copy \in [Refreshers -> AllDefinitions \cup {None}]
      BY <2>3 DEF TypeInv, RefreshesOK, StepFunction
  <2>5. pc \in [Tasks -> Labels]
      BY DEF TypeInv, TaskShapes, TaskOK
  <2>6. \A c \in Clients : job[c].started \subseteq ViewNames /\ job[c].next \in Labels
      BY DEF TypeInv, CallOK, Labels
  <2>7. \A t \in Tasks : /\ loc[t].answer \in Answers \cup {None}
                         /\ loc[t].victims \subseteq Keys /\ loc[t].saved \in Accounts
                         /\ loc[t].left \subseteq loc[t].todo /\ loc[t].todo \subseteq Keys
      BY DEF TypeInv, TaskOK, LocalsOK
  <2> QED  BY <2>2, <2>4, <2>5, <2>6, <2>7 DEF TypeOK, TypeInv, WorldOK, CacheOK, ViewsOK, Entries
<1> QED  BY <1>1, InitTyped, NextTyped, PTL DEF Spec

-----------------------------------------------------------------------------
(* The cap.  While a set() holds the lock, the other calls can only take    *)
(* sizes out of the account it saved, and the bytes in use beside those of  *)
(* its own key are at most what it found, less what it has freed: the loop  *)
(* of evictUntilFits may stop too early, but by less than one entry.        *)

Gathering == Keyed \ Holding
Room(t) == total - tracked[loc[t].key]
NewSize(t) == SizeOf(loc[t].answer)
Ceiling == MaxBytes + LargestEntry

Saved(t) ==
    LET l == loc[t] IN
    /\ l.savedTotal <= Sizes(l.saved) /\ l.savedTotal < Ceiling
    /\ \A k \in Keys : tracked[k] \in {0, l.saved[k]}

Spent(t) ==
    LET l == loc[t] IN
    Room(t) <= 0 \/ Room(t) <= l.savedTotal - l.saved[l.key] - l.freed

\* Nothing had to go, or all that is tracked beside the own key is to go.
Planned(t) ==
    LET l == loc[t] IN
    \/ l.victims = {} /\ l.freed = 0 /\ (l.need <= 0 \/ l.savedTotal + l.need <= MaxBytes)
    \/ \A k \in Keys : tracked[k] > 0 => k \in l.victims \cup {l.key}

Evicting(t) ==
    LET l == loc[t] IN
    /\ l.need = NewSize(t) - l.saved[l.key] /\ l.freed \in Nat
    /\ l.victims \subseteq Keys \ {l.key}
    /\ pc[t] = "evicted" => l.victim \in l.victims
    /\ Spent(t) /\ Planned(t)

Fitting(t) == Room(t) <= 0 \/ Room(t) + NewSize(t) < Ceiling

CapOf(t) ==
    /\ pc[t] \in Gathering => loc[t].freed = 0
    /\ pc[t] \in Holding => Saved(t)
    /\ pc[t] \in {"evict", "evicted"} => Evicting(t)
    /\ pc[t] = "put" => Fitting(t)

CapInv == CapIsNearlyKept /\ \A t \in Tasks : CapOf(t)

\* A step that only takes sizes out of the account.
Shrinks ==
    /\ CapIsNearlyKept' /\ tracked' \in Accounts /\ total' \in Int
    /\ \A k \in Keys :
          /\ tracked'[k] \in {0, tracked[k]}
          /\ total' - tracked'[k] <= 0 \/ total' - tracked'[k] <= total - tracked[k]

LEMMA AccountNumbers ==
    /\ \A f \in Accounts : Sizes(f) \in Nat /\ \A k \in Keys : f[k] \in Nat
    /\ Ceiling \in Nat /\ LargestEntry \in Nat /\ MaxBytes \in Nat \ {0}
    /\ \A a \in Answers : SizeOf(a) \in 1 .. LargestEntry
<1>1. \A f \in Accounts : f \in [Keys -> Nat]
    BY SizeAssumption DEF Accounts
<1>2. \A f \in Accounts : Sizes(f) \in Nat
    BY <1>1, SizesNat
<1> QED  BY <1>1, <1>2, CacheAssumption, SizeAssumption DEF Ceiling

LEMMA StillShrinks ==
    ASSUME CacheOK, CapIsNearlyKept, UNCHANGED <<tracked, total>>
    PROVE  Shrinks
<1>1. CapIsNearlyKept'
    BY DEF CapIsNearlyKept
<1> QED  BY <1>1, AccountNumbers DEF Shrinks, CacheOK

LEMMA UntrackShrinks ==
    ASSUME CacheOK, CapIsNearlyKept, NEW keys, Untrack(keys)
    PROVE  Shrinks
<1> DEFINE rest == Only(tracked, Keys \ keys)
           gone == Only(tracked, keys)
<1>1. tracked' = rest /\ total' = total - Sizes(gone)
    BY DEF Untrack
<1>2. /\ rest \in Accounts /\ Sizes(gone) \in Nat /\ Sizes(tracked) \in Nat
      /\ Sizes(tracked) = Sizes(gone) + Sizes(rest)
    BY SizesSplit DEF CacheOK
<1>3. ASSUME NEW k \in Keys
      PROVE  /\ rest[k] = IF k \in keys THEN 0 ELSE tracked[k]
             /\ k \in keys => tracked[k] <= Sizes(gone)
             /\ tracked[k] \in Nat
  <2>1. k \in keys => tracked[k] <= Sizes(gone)
      BY SizeWithin DEF CacheOK
  <2> QED  BY <2>1, AccountNumbers DEF CacheOK, Only
<1>4. total \in Int /\ total <= Sizes(tracked) /\ total < MaxBytes + LargestEntry
    BY DEF CacheOK, CapIsNearlyKept
<1>5. Sizes(rest) \in Nat /\ MaxBytes + LargestEntry \in Nat
    BY <1>2, AccountNumbers DEF Ceiling
<1> HIDE DEF rest, gone
<1>6. Sizes(tracked') = Sizes(rest)
    BY <1>1
<1>7. total' <= Sizes(tracked') /\ total' < MaxBytes + LargestEntry /\ total' \in Int
    BY <1>1, <1>2, <1>4, <1>5, <1>6
<1>8. CapIsNearlyKept'
    BY <1>7 DEF CapIsNearlyKept
<1>9. ASSUME NEW k \in Keys
      PROVE  /\ tracked'[k] \in {0, tracked[k]}
             /\ total' - tracked'[k] <= total - tracked[k]
  <2>1. CASE k \in keys
      BY <1>1, <1>2, <1>3, <1>4, <2>1
  <2>2. CASE k \notin keys
      BY <1>1, <1>2, <1>3, <1>4, <2>2
  <2> QED  BY <2>1, <2>2
<1> QED  BY <1>1, <1>2, <1>7, <1>8, <1>9 DEF Shrinks

LEMMA EmptyShrinks ==
    ASSUME CacheOK, tracked' = NoneTracked, total' = 0
    PROVE  Shrinks
<1>1. Sizes(tracked') = 0 /\ tracked' \in Accounts
    BY SizesOfNone
<1>2. CapIsNearlyKept'
  <2>1. total' <= Sizes(tracked') /\ total' < MaxBytes + LargestEntry
      BY <1>1, AccountNumbers
  <2> QED  BY <2>1 DEF CapIsNearlyKept
<1>3. \A k \in Keys : tracked'[k] = 0
    BY DEF NoneTracked
<1> QED  BY <1>1, <1>2, <1>3 DEF Shrinks

\* What the sizes of a task at work are.
LEMMA HolderNumbers ==
    ASSUME CacheOK, NEW t, TaskOK(t), pc[t] \in {"queued"} \cup Holding
    PROVE  /\ loc[t].key \in Keys /\ NewSize(t) \in 1 .. LargestEntry /\ Room(t) \in Int
           /\ tracked \in Accounts /\ total \in Int /\ tracked[loc[t].key] \in Nat
           /\ loc[t].saved \in Accounts /\ loc[t].savedTotal \in Int
           /\ loc[t].saved[loc[t].key] \in Nat
<1>1. loc[t].key \in Keys /\ loc[t].answer \in Answers
    BY DEF TaskOK, Keyed
<1> QED  BY <1>1, AccountNumbers DEF TaskOK, LocalsOK, CacheOK, NewSize, Room

\* Other tasks' sizes may be taken out under a set() that holds the lock.
LEMMA SameCap ==
    ASSUME CacheOK, NEW t, Same(t), TaskOK(t), CapOf(t), Shrinks
    PROVE  CapOf(t)'
<1>1. CASE pc[t] \in Holding
  <2>1. /\ loc[t].key \in Keys /\ Room(t) \in Int /\ NewSize(t) \in Int
        /\ loc[t].saved \in Accounts /\ loc[t].savedTotal \in Int
        /\ tracked \in Accounts
      BY <1>1, HolderNumbers
  <2>2. loc'[t] = loc[t] /\ pc'[t] = pc[t]
      BY DEF Same
  <2>3. \A k \in Keys : tracked'[k] \in {0, tracked[k]} /\ tracked[k] \in Nat
      BY <2>1, AccountNumbers DEF Shrinks
  <2>4. Room(t)' \in Int /\ (Room(t)' <= 0 \/ Room(t)' <= Room(t))
    <3>1. Room(t)' = total' - tracked'[loc[t].key] /\ Room(t) = total - tracked[loc[t].key]
        BY <2>2 DEF Room
    <3>2. total' \in Int /\ tracked'[loc[t].key] \in Nat
        BY <2>1, AccountNumbers DEF Shrinks
    <3> QED  BY <2>1, <3>1, <3>2 DEF Shrinks
  <2>5. Saved(t)'
    <3>1. Saved(t)
        BY <1>1 DEF CapOf
    <3>2. \A k \in Keys : tracked'[k] \in {0, loc[t].saved[k]}
        BY <2>3, <3>1 DEF Saved
    <3>3. /\ loc[t].savedTotal <= Sizes(loc[t].saved) /\ loc[t].savedTotal < Ceiling
        BY <3>1 DEF Saved
    <3>4. Sizes(loc[t].saved)' = Sizes(loc[t].saved)
        BY <2>2
    <3> QED  BY <2>2, <3>2, <3>3, <3>4 DEF Saved, Ceiling
  <2>6. ASSUME Evicting(t)
        PROVE  Evicting(t)'
    <3>1. loc[t].freed \in Nat /\ loc[t].saved[loc[t].key] \in Nat
        BY <2>1, <2>6, AccountNumbers DEF Evicting
    <3>2. Spent(t)'
      <4>1. Room(t) <= 0 \/ Room(t) <= loc[t].savedTotal - loc[t].saved[loc[t].key] - loc[t].freed
          BY <2>6 DEF Evicting, Spent
      <4>2. \/ Room(t)' <= 0
            \/ Room(t)' <= loc[t].savedTotal - loc[t].saved[loc[t].key] - loc[t].freed
          BY <2>1, <2>4, <3>1, <4>1
      <4> QED  BY <2>2, <4>2 DEF Spent
    <3>3. Planned(t)'
      <4>1. Planned(t)
          BY <2>6 DEF Evicting
      <4>2. \A k \in Keys : tracked'[k] > 0 => tracked[k] > 0
          BY <2>3
      <4> QED  BY <2>2, <4>1, <4>2 DEF Planned
    <3>4. NewSize(t)' = NewSize(t)
        BY <2>2 DEF NewSize
    <3> QED  BY <2>2, <2>6, <3>2, <3>3, <3>4 DEF Evicting
  <2>7. ASSUME Fitting(t)
        PROVE  Fitting(t)'
    <3>1. NewSize(t)' = NewSize(t) /\ Ceiling \in Nat /\ Ceiling' = Ceiling
        BY <2>2, AccountNumbers DEF NewSize, Ceiling
    <3> QED  BY <2>1, <2>4, <2>7, <3>1 DEF Fitting
  <2>8. pc[t] \notin Gathering
      BY <1>1 DEF Gathering
  <2> QED  BY <2>2, <2>5, <2>6, <2>7, <2>8 DEF CapOf
<1>2. CASE pc[t] \notin Holding
    BY <1>2 DEF CapOf, Same, Holding
<1> QED  BY <1>1, <1>2

\* One task at a time holds the lock.
LEMMA AwayCap ==
    ASSUME NEW t, NEW u, t # u, Same(u), LockOK(u), CapOf(u), lock[1] = t
    PROVE  CapOf(u)'
<1>1. pc[u] \notin Holding
    BY DEF LockOK
<1> QED  BY <1>1 DEF CapOf, Same, Holding

\* Where a step takes its task.
LEMMA Gone ==
    ASSUME TaskShapes, NEW t \in Tasks, NEW label, NEW l, Goto(t, label), SetLoc(t, l)
    PROVE  pc'[t] = label /\ loc'[t] = l
BY DEF TaskShapes, Goto, SetLoc

LEMMA OtherCap ==
    ASSUME NEW t \in Tasks, StepOf(t), CapIsNearlyKept, CapOf(t),
           \/ Look(t) \/ DropLate(t) \/ ForgetLate(t) \/ Read(t)
           \/ List(t) \/ Wipe(t) \/ Forget(t)
    PROVE  CapOf(t)' /\ Shrinks
<1>1. /\ pc[t] \notin Holding
      /\ pc'[t] \notin {"evict", "evicted", "put"}
      /\ pc'[t] \in Gathering => pc[t] \in Gathering
  <2>1. \A label : Goto(t, label) => pc'[t] = label
      BY DEF Goto, StepOf, TaskShapes
  <2>2. CASE Look(t) \/ DropLate(t) \/ ForgetLate(t) \/ Read(t)
      BY <2>1, <2>2 DEF Look, Hit, DropLate, ForgetLate, Read, Gathering, Keyed, Holding
  <2>3. CASE List(t) \/ Wipe(t) \/ Forget(t)
      BY <2>1, <2>3 DEF List, Wipe, Forget, Cleared, Gathering, Keyed, Holding
  <2> QED  BY <2>2, <2>3
<1>2. loc'[t].freed = loc[t].freed
  <2>1. Shaped(loc[t])
      BY StepUses
  <2>2. UNCHANGED loc => loc'[t].freed = loc[t].freed
      OBVIOUS
  <2>3. ASSUME NEW a, loc' = [loc EXCEPT ![t].answer = a]
        PROVE  loc'[t].freed = loc[t].freed
      BY <2>1, <2>3 DEF StepOf, TaskShapes, Shaped, Fields
  <2>4. ASSUME NEW todo, loc' = [loc EXCEPT ![t].todo = todo, ![t].left = todo]
        PROVE  loc'[t].freed = loc[t].freed
      BY <2>1, <2>4 DEF StepOf, TaskShapes, Shaped, Fields
  <2>5. ASSUME NEW k, loc' = [loc EXCEPT ![t].left = @ \ {k}]
        PROVE  loc'[t].freed = loc[t].freed
      BY <2>1, <2>5 DEF StepOf, TaskShapes, Shaped, Fields
  <2>6. CASE Look(t) \/ Read(t)
      BY <2>2, <2>3, <2>6 DEF Look, Hit, Read
  <2>7. CASE DropLate(t) \/ ForgetLate(t) \/ Forget(t)
      BY <2>2, <2>7 DEF DropLate, ForgetLate, Forget
  <2>8. CASE List(t)
      BY <2>2, <2>4, <2>8 DEF List
  <2>9. CASE Wipe(t)
      BY <2>2, <2>5, <2>9 DEF Wipe
  <2> QED  BY <2>6, <2>7, <2>8, <2>9
<1>3. CapOf(t)'
    BY <1>1, <1>2 DEF CapOf, Holding
<1>4. Shrinks
  <2>1. CASE Look(t) \/ DropLate(t) \/ Read(t) \/ List(t) \/ Wipe(t)
    <3>1. UNCHANGED <<tracked, total>>
        BY <2>1 DEF Look, Hit, DropLate, Read, List, Wipe, cacheVars
    <3> QED  BY <3>1, StillShrinks DEF StepOf
  <2>2. CASE ForgetLate(t)
      BY <2>2, UntrackShrinks DEF ForgetLate, StepOf
  <2>3. CASE Forget(t)
      BY <2>3, UntrackShrinks, EmptyShrinks DEF Forget, StepOf
  <2> QED  BY <2>1, <2>2, <2>3
<1> QED  BY <1>3, <1>4

LEMMA EnterCap ==
    ASSUME NEW t \in Tasks, StepOf(t), CapIsNearlyKept, CapOf(t), Enter(t)
    PROVE  CapOf(t)' /\ Shrinks
<1> DEFINE k == loc[t].key
           need == Need(t)
           victims == IF Crowded(need) THEN {j \in Keys \ {k} : tracked[j] > 0} ELSE {}
           l == [loc[t] EXCEPT !.saved = tracked, !.savedTotal = total, !.need = need,
                               !.victims = victims]
<1>1. /\ SetLoc(t, l) /\ Goto(t, "evict") /\ UNCHANGED <<tracked, total>>
      /\ pc[t] = "queued"
    BY DEF Enter, SetLoc, cacheVars
<1>2. /\ k \in Keys /\ NewSize(t) \in Int /\ tracked \in Accounts /\ total \in Int
      /\ tracked[k] \in Nat
    BY <1>1, HolderNumbers DEF StepOf
<1>3. loc[t].freed = 0
    BY <1>1 DEF CapOf, Gathering, Keyed, Holding
<1>4. /\ need = NewSize(t) - tracked[k] /\ victims \subseteq Keys \ {k}
      /\ \/ victims = {} /\ (need <= 0 \/ total + need <= MaxBytes)
         \/ \A j \in Keys : tracked[j] > 0 => j \in victims \cup {k}
    BY <1>2, AccountNumbers DEF Need, NewSize, Crowded
<1> HIDE DEF need, victims
<1>5. /\ l.key = k /\ l.answer = loc[t].answer /\ l.saved = tracked /\ l.savedTotal = total
      /\ l.need = need /\ l.victims = victims /\ l.freed = loc[t].freed
  <2>1. Shaped(loc[t])
      BY StepUses
  <2> QED  BY <2>1 DEF Shaped, Fields
<1> HIDE DEF l
<1>6. pc'[t] = "evict" /\ loc'[t] = l
    BY <1>1, Gone DEF StepOf
<1>7. Saved(t)'
  <2>1. total <= Sizes(tracked) /\ total < Ceiling /\ Ceiling' = Ceiling
      BY DEF CapIsNearlyKept, Ceiling
  <2>2. loc'[t].saved = tracked /\ loc'[t].savedTotal = total
      BY <1>5, <1>6
  <2>3. \A j \in Keys : tracked'[j] \in {0, loc'[t].saved[j]}
      BY <1>1, <2>2
  <2>4. loc'[t].savedTotal <= Sizes(loc'[t].saved) /\ loc'[t].savedTotal < Ceiling'
      BY <2>1, <2>2
  <2> QED  BY <2>3, <2>4 DEF Saved
<1>8. NewSize(t)' = NewSize(t) /\ Room(t)' = total - tracked[k]
    BY <1>1, <1>5, <1>6 DEF NewSize, Room
<1>9. Spent(t)'
  <2>1. total - tracked[k] <= total - tracked[k] - 0
      BY <1>2
  <2> QED  BY <1>3, <1>5, <1>6, <1>8, <2>1 DEF Spent
<1>10. Planned(t)'
    BY <1>1, <1>3, <1>4, <1>5, <1>6 DEF Planned
<1>11. Evicting(t)'
    BY <1>3, <1>4, <1>5, <1>6, <1>8, <1>9, <1>10 DEF Evicting
<1>12. CapOf(t)'
    BY <1>6, <1>7, <1>11 DEF CapOf, Gathering, Holding
<1>13. Shrinks
    BY <1>1, StillShrinks DEF StepOf
<1> QED  BY <1>12, <1>13

LEMMA EvictCap ==
    ASSUME NEW t \in Tasks, StepOf(t), CapIsNearlyKept, CapOf(t), Evict(t)
    PROVE  CapOf(t)' /\ Shrinks
<1>1. PICK victim \in loc[t].victims : loc' = [loc EXCEPT ![t].victim = victim]
    BY DEF Evict
<1> DEFINE l == [loc[t] EXCEPT !.victim = victim]
<1>2. /\ SetLoc(t, l) /\ Goto(t, "evicted") /\ UNCHANGED <<tracked, total>>
      /\ pc[t] = "evict"
    BY <1>1 DEF Evict, SetLoc, StepOf, TaskShapes
<1>3. /\ l.key = loc[t].key /\ l.answer = loc[t].answer /\ l.saved = loc[t].saved
      /\ l.savedTotal = loc[t].savedTotal /\ l.need = loc[t].need
      /\ l.victims = loc[t].victims /\ l.freed = loc[t].freed /\ l.victim = victim
  <2>1. Shaped(loc[t])
      BY StepUses
  <2> QED  BY <2>1 DEF Shaped, Fields
<1> HIDE DEF l
<1>4. pc'[t] = "evicted" /\ loc'[t] = l
    BY <1>2, Gone DEF StepOf
<1>5. Saved(t) /\ Evicting(t)
    BY <1>2 DEF CapOf, Holding
<1>6. Saved(t)'
    BY <1>2, <1>3, <1>4, <1>5 DEF Saved, Ceiling
<1>7. Room(t)' = Room(t) /\ NewSize(t)' = NewSize(t)
    BY <1>2, <1>3, <1>4 DEF Room, NewSize
<1>8. Spent(t)' /\ Planned(t)'
    BY <1>2, <1>3, <1>4, <1>5, <1>7 DEF Evicting, Spent, Planned
<1>9. Evicting(t)'
    BY <1>3, <1>4, <1>5, <1>7, <1>8 DEF Evicting
<1>10. CapOf(t)'
    BY <1>4, <1>6, <1>9 DEF CapOf, Gathering, Holding
<1>11. Shrinks
    BY <1>2, StillShrinks DEF StepOf
<1> QED  BY <1>10, <1>11

\* The victim is no longer tracked, and its bytes no longer counted.
LEMMA EvictedCap ==
    ASSUME NEW t \in Tasks, StepOf(t), CapIsNearlyKept, CapOf(t), Evicted(t)
    PROVE  CapOf(t)' /\ CapIsNearlyKept'
<1> DEFINE k == loc[t].key
           v == loc[t].victim
           saved == loc[t].saved
           size == saved[v]
           victims == loc[t].victims \ {v}
           freed == loc[t].freed + size
           l == [loc[t] EXCEPT !.victims = victims, !.freed = freed]
<1>1. /\ Goto(t, "evict") /\ pc[t] = "evicted"
      /\ tracked' = [tracked EXCEPT ![v] = 0] /\ total' = total - size
    BY DEF Evicted
<1>2. Shaped(loc[t])
    BY StepUses
<1>3. SetLoc(t, l)
  <2>1. loc' = [loc EXCEPT ![t].victims = victims, ![t].freed = freed]
      BY <1>2 DEF Evicted, StepOf, TaskShapes, Shaped, Fields
  <2> QED  BY <2>1 DEF SetLoc, StepOf, TaskShapes
<1>4. Saved(t) /\ Evicting(t)
    BY <1>1 DEF CapOf, Holding
<1>5. /\ k \in Keys /\ NewSize(t) \in Int /\ Room(t) \in Int
      /\ tracked \in Accounts /\ total \in Int /\ saved \in Accounts
      /\ loc[t].savedTotal \in Int /\ saved[k] \in Nat
    BY <1>1, HolderNumbers DEF StepOf, Holding
<1>6. v \in loc[t].victims /\ v \in Keys /\ v # k /\ loc[t].freed \in Nat
    BY <1>1, <1>4 DEF Evicting
<1>7. tracked[v] \in {0, size} /\ size \in Nat /\ tracked[v] \in Nat /\ tracked[v] <= size
    BY <1>4, <1>5, <1>6, AccountNumbers DEF Saved
<1>8. CapIsNearlyKept'
  <2>1. Sizes(tracked') = Sizes(tracked) - tracked[v] + 0
    <3>1. 0 \in 0 .. LargestEntry
        BY AccountNumbers
    <3>2. Sizes([tracked EXCEPT ![v] = 0]) = Sizes(tracked) - tracked[v] + 0
        BY <1>5, <1>6, <3>1, SizesChanged
    <3> QED  BY <1>1, <3>2
  <2>2. Sizes(tracked) \in Nat /\ MaxBytes + LargestEntry \in Nat
      BY <1>5, AccountNumbers DEF Ceiling
  <2>3. total <= Sizes(tracked) /\ total < MaxBytes + LargestEntry
      BY DEF CapIsNearlyKept
  <2> HIDE DEF size
  <2>4. total' <= Sizes(tracked') /\ total' < MaxBytes + LargestEntry
      BY <1>1, <1>5, <1>7, <2>1, <2>2, <2>3
  <2> QED  BY <2>4 DEF CapIsNearlyKept
<1>9. /\ l.key = k /\ l.answer = loc[t].answer /\ l.saved = saved
      /\ l.savedTotal = loc[t].savedTotal /\ l.need = loc[t].need
      /\ l.victims = victims /\ l.freed = freed
  <2> HIDE DEF victims, freed
  <2> QED  BY <1>2 DEF Shaped, Fields
<1> HIDE DEF l
<1>10. pc'[t] = "evict" /\ loc'[t] = l
    BY <1>1, <1>3, Gone DEF StepOf
<1>11. /\ \A j \in Keys : tracked'[j] = IF j = v THEN 0 ELSE tracked[j]
       /\ \A j \in Keys : tracked[j] \in Nat
    BY <1>1, <1>5, AccountNumbers DEF Accounts
<1>12. Saved(t)'
  <2>1. \A j \in Keys : tracked'[j] \in {0, saved[j]}
      BY <1>4, <1>11 DEF Saved
  <2> QED  BY <1>4, <1>9, <1>10, <2>1 DEF Saved, Ceiling
<1>13. NewSize(t)' = NewSize(t)
    BY <1>9, <1>10 DEF NewSize
<1>14. Room(t)' = Room(t) - size
  <2>1. Room(t)' = total' - tracked'[k]
      BY <1>9, <1>10 DEF Room
  <2>2. tracked'[k] = tracked[k] /\ tracked[k] \in Nat
      BY <1>5, <1>6, <1>11
  <2> QED  BY <1>1, <1>5, <1>7, <2>1, <2>2 DEF Room
<1>15. Spent(t)'
  <2>1. Room(t) <= 0 \/ Room(t) <= loc[t].savedTotal - saved[k] - loc[t].freed
      BY <1>4 DEF Evicting, Spent
  <2> HIDE DEF size
  <2>2. Room(t)' <= 0 \/ Room(t)' <= loc[t].savedTotal - saved[k] - freed
      BY <1>5, <1>6, <1>7, <1>14, <2>1
  <2> QED  BY <1>9, <1>10, <2>2 DEF Spent
<1>16. Planned(t)'
  <2>1. \A j \in Keys : tracked[j] > 0 => j \in loc[t].victims \cup {k}
      BY <1>4, <1>6 DEF Evicting, Planned
  <2>2. \A j \in Keys : tracked'[j] > 0 => j \in victims \cup {k}
      BY <1>11, <2>1
  <2> QED  BY <1>9, <1>10, <2>2 DEF Planned
<1>17. Evicting(t)'
  <2>1. freed \in Nat /\ victims \subseteq Keys \ {k}
      BY <1>4, <1>6, <1>7 DEF Evicting
  <2>2. loc[t].need = NewSize(t) - saved[k]
      BY <1>4 DEF Evicting
  <2> QED  BY <1>9, <1>10, <1>13, <1>15, <1>16, <2>1, <2>2 DEF Evicting
<1>18. CapOf(t)'
    BY <1>10, <1>12, <1>17 DEF CapOf, Gathering, Holding
<1> QED  BY <1>8, <1>18

\* Where the loop of evictUntilFits stops: each victim has been deducted from `total'
\* and again as `freed', and the entry may pass the cap by less than its own size.
LEMMA FitsSoon ==
    ASSUME CacheOK, NEW t, TaskOK(t), CapIsNearlyKept, CapOf(t), pc[t] = "evict",
           loc[t].victims = {} \/ Fits(t)
    PROVE  Fitting(t)
<1> DEFINE k == loc[t].key
           saved == loc[t].saved[k]
           sum == loc[t].savedTotal
           freed == loc[t].freed
           room == Room(t)
           size == NewSize(t)
           own == tracked[k]
<1>1. Saved(t) /\ Evicting(t)
    BY DEF CapOf, Holding
<1>2. /\ k \in Keys /\ size \in 1 .. LargestEntry /\ room \in Int /\ own \in Nat
      /\ tracked \in Accounts /\ total \in Int /\ sum \in Int /\ saved \in Nat
    BY HolderNumbers DEF Holding
<1>3. MaxBytes \in Nat \ {0} /\ LargestEntry \in Nat /\ Ceiling = MaxBytes + LargestEntry
    BY AccountNumbers DEF Ceiling
<1>4. /\ loc[t].need = size - saved /\ freed \in Nat /\ room = total - own
      /\ room <= 0 \/ room <= sum - saved - freed
      /\ sum < Ceiling /\ own \in {0, saved}
    BY <1>1, <1>2 DEF Evicting, Spent, Saved, Room
<1>5. Planned(t)
    BY <1>1 DEF Evicting
<1>6. CASE /\ loc[t].victims = {} /\ freed = 0
           /\ loc[t].need <= 0 \/ sum + loc[t].need <= MaxBytes
  <2> HIDE DEF saved, sum, freed, room, size, own
  <2>1. room <= 0 \/ room + size < Ceiling
      BY <1>2, <1>3, <1>4, <1>6
  <2> QED  BY <2>1 DEF Fitting, room, size
<1>7. CASE /\ loc[t].victims = {}
           /\ \A j \in Keys : tracked[j] > 0 => j \in loc[t].victims \cup {k}
  <2>1. tracked \in [Keys -> Int] /\ \A j \in Keys \ {k} : tracked[j] = 0
      BY <1>2, <1>7, AccountNumbers DEF Accounts
  <2>2. Sizes(tracked) = own
      BY <1>2, <2>1, SizesOfOne
  <2>3. total <= own
      BY <2>2 DEF CapIsNearlyKept
  <2> HIDE DEF own
  <2>4. room <= 0
      BY <1>2, <1>4, <2>3
  <2> QED  BY <2>4 DEF Fitting
<1>8. CASE Fits(t)
  <2>1. total + loc[t].need - freed <= MaxBytes
      BY <1>8 DEF Fits
  <2> HIDE DEF saved, sum, freed, room, size, own
  <2>2. total + (size - saved) - freed <= MaxBytes
      BY <1>4, <2>1
  <2>3. CASE room <= sum - saved - freed
    <3>1. (room + size) + (room + size) <= sum + MaxBytes + size
        BY <1>2, <1>3, <1>4, <2>2, <2>3
    <3>2. sum + MaxBytes + size < Ceiling + Ceiling
        BY <1>2, <1>3, <1>4
    <3>3. room + size < Ceiling
        BY <1>2, <1>3, <3>1, <3>2
    <3> QED  BY <3>3 DEF Fitting, room, size
  <2>4. CASE room <= 0
      BY <2>4 DEF Fitting, room
  <2> QED  BY <1>4, <2>3, <2>4
<1> QED  BY <1>5, <1>6, <1>7, <1>8 DEF Planned

LEMMA PutCap ==
    ASSUME NEW t \in Tasks, StepOf(t), CapIsNearlyKept, CapOf(t), Put(t)
    PROVE  CapOf(t)' /\ CapIsNearlyKept'
<1>1. pc[t] = "evict" /\ (loc[t].victims = {} \/ Fits(t))
    BY DEF Put
<1>2. CASE Goto(t, "put") /\ UNCHANGED <<tracked, total, lock, loc>>
  <2>1. pc'[t] = "put"
      BY <1>2 DEF Goto, StepOf, TaskShapes
  <2>2. Saved(t) /\ Fitting(t)
      BY <1>1, FitsSoon DEF StepOf, CapOf, Holding
  <2>3. Saved(t)' /\ Fitting(t)'
      BY <1>2, <2>2 DEF Saved, Fitting, Room, NewSize, Ceiling
  <2>4. Shrinks
      BY <1>2, StillShrinks DEF StepOf
  <2> QED  BY <2>1, <2>3, <2>4 DEF CapOf, Gathering, Holding, Shrinks
<1>3. CASE tracked' = loc[t].saved /\ total' = loc[t].savedTotal /\ Leave(t)
  <2>1. pc'[t] = "answered"
      BY <1>3 DEF Leave, Goto, StepOf, TaskShapes
  <2>2. Saved(t)
      BY <1>1 DEF CapOf, Holding
  <2>3. total' <= Sizes(tracked') /\ total' < Ceiling
      BY <1>3, <2>2 DEF Saved
  <2> QED  BY <2>1, <2>3 DEF CapOf, Gathering, Keyed, Holding, CapIsNearlyKept, Ceiling
<1> QED  BY <1>2, <1>3 DEF Put

LEMMA TrackCap ==
    ASSUME NEW t \in Tasks, StepOf(t), CapIsNearlyKept, CapOf(t), Track(t)
    PROVE  CapOf(t)' /\ CapIsNearlyKept'
<1> DEFINE k == loc[t].key
           size == NewSize(t)
<1>1. /\ pc[t] = "put" /\ tracked' = [tracked EXCEPT ![k] = size]
      /\ total' = total - tracked[k] + size /\ Leave(t)
    BY DEF Track, NewSize
<1>2. pc'[t] = "answered"
    BY <1>1 DEF Leave, Goto, StepOf, TaskShapes
<1>3. /\ k \in Keys /\ size \in 1 .. LargestEntry /\ Room(t) \in Int
      /\ tracked \in Accounts /\ total \in Int /\ tracked[k] \in Nat
    BY <1>1, HolderNumbers DEF StepOf, Holding
<1>4. Room(t) <= 0 \/ Room(t) + size < MaxBytes + LargestEntry
    BY <1>1 DEF CapOf, Fitting, Ceiling
<1>5. Room(t) = total - tracked[k]
    BY DEF Room
<1> HIDE DEF size
<1>6. Sizes(tracked') = Sizes(tracked) - tracked[k] + size
  <2>1. size \in 0 .. LargestEntry
      BY <1>3, AccountNumbers
  <2> QED  BY <1>1, <1>3, <2>1, SizesChanged
<1>7. Sizes(tracked) \in Nat /\ MaxBytes \in Nat \ {0} /\ LargestEntry \in Nat
    BY <1>3, AccountNumbers
<1>8. total <= Sizes(tracked)
    BY DEF CapIsNearlyKept
<1>9. total' <= Sizes(tracked') /\ total' < MaxBytes + LargestEntry
    BY <1>1, <1>3, <1>4, <1>5, <1>6, <1>7, <1>8
<1> QED  BY <1>2, <1>9 DEF CapOf, Gathering, Keyed, Holding, CapIsNearlyKept

\* The other steps of a task: it stays, starts a query, or is not at work in the cache.
Outside(t) ==
    \/ Same(t)
    \/ pc'[t] \in {"look", "read"} /\ loc'[t].freed = 0
    \/ pc'[t] \notin Keyed

LEMMA QueryOutside ==
    ASSUME TaskShapes, NEW t \in Tasks, NEW k, StartQuery(t, k)
    PROVE  Outside(t)
BY StartQueryMoves DEF Outside, Fresh

LEMMA ViewStepOutside ==
    ASSUME NEW c \in Clients, StepOf(c), CallOK(c), ViewStep(c)
    PROVE  Outside(c)
<1>1. \A label : Goto(c, label) => pc'[c] = label
    BY Tasked DEF Goto, StepOf, TaskShapes
<1>2. job[c].next \notin Keyed
    BY DEF CallOK, Keyed, Holding
<1>3. \E label : Goto(c, label) /\ label \notin Keyed
  <2>1. CASE Return(c) \/ Awaited(c) \/ Delete(c) \/ Written(c)
      BY <1>2, <2>1 DEF Return, Free, Awaited, Delete, Written, Keyed, Holding
  <2>2. CASE Create(c) \/ Update(c) \/ DeleteData(c)
      BY <2>2 DEF Create, Update, DeleteData, Stop, Keyed, Holding
  <2>3. CASE Save(c) \/ Lookup(c) \/ Fetch(c)
      BY <2>3 DEF Save, Lookup, Fetch, Stop, Await, Keyed, Holding
  <2>4. CASE Refresh(c) \/ RefreshAll(c) \/ AfterWrite(c)
      BY <2>4 DEF Refresh, RefreshAll, AfterWrite, Await, Keyed, Holding
  <2> QED  BY <2>1, <2>2, <2>3, <2>4 DEF ViewStep
<1> QED  BY <1>1, <1>3 DEF Outside

LEMMA RefreshOutside ==
    ASSUME NEW r \in Refreshers, TaskShapes, RefreshStep(r)
    PROVE  Outside(r)
<1> r \in Tasks
    BY Tasked
<1>1. CASE GetMeta(r)
    BY <1>1, QueryOutside DEF GetMeta, Outside, Same
<1>2. CASE StoreResult(r) \/ RefreshFails(r)
    BY <1>2, FreeMoves DEF StoreResult, RefreshFails, Outside, Keyed, Holding
<1>3. CASE SaveMeta(r)
    BY <1>3 DEF SaveMeta, Outside, Same
<1> QED  BY <1>1, <1>2, <1>3 DEF RefreshStep

LEMMA CallOutside ==
    ASSUME NEW c \in Clients, StepOf(c), Call(c)
    PROVE  Outside(c) /\ UNCHANGED <<tracked, total>>
<1> c \in Tasks
    BY Tasked
<1>1. \A label : label \notin Keyed /\ Goto(c, label) => Outside(c)
    BY DEF Goto, StepOf, TaskShapes, Outside
<1>2. {"list", "wipe", "lookup", "delete", "refresh", "create", "update", "refreshAll"}
            \cap Keyed = {}
    BY DEF Keyed, Holding
<1>3. ASSUME NEW p, NEW op, Write(c, p, op)
      PROVE  Outside(c) /\ UNCHANGED <<tracked, total>>
    BY <1>1, <1>2, <1>3 DEF Write, Change, cacheVars, Outside, Same
<1>4. ASSUME NEW k, Query(c, k)
      PROVE  Outside(c) /\ UNCHANGED <<tracked, total>>
    BY <1>4, QueryOutside DEF Query, StartQuery, cacheVars, StepOf
<1>5. ASSUME NEW k, ClearOne(c, k)
      PROVE  Outside(c) /\ UNCHANGED <<tracked, total>>
    BY <1>1, <1>2, <1>5 DEF ClearOne, ClearQuery
<1>6. ASSUME NEW p, NEW wide, Clear(c, p, wide)
      PROVE  Outside(c) /\ UNCHANGED <<tracked, total>>
    BY <1>1, <1>2, <1>6 DEF Clear, StartClear, cacheVars
<1>7. ASSUME NEW label \in {"lookup", "delete", "refresh", "create", "update", "refreshAll"},
             NEW j, Ask(c, label, j)
      PROVE  Outside(c) /\ UNCHANGED <<tracked, total>>
    BY <1>1, <1>2, <1>7 DEF Ask, Cache, cacheVars
<1>8. ASSUME NEW v \in ViewNames, CallView(c, v)
      PROVE  Outside(c) /\ UNCHANGED <<tracked, total>>
    BY <1>7, <1>8 DEF CallView
<1> QED  BY <1>3, <1>4, <1>5, <1>6, <1>7, <1>8 DEF Call

\* The steps of the cache, for the task that takes it and for the others.
LEMMA StepCap ==
    ASSUME TypeInv, CapInv, NEW t \in Tasks, CacheStep(t)
    PROVE  CapInv'
<1>1. /\ StepOf(t) /\ CapIsNearlyKept /\ CapOf(t) /\ CacheOK
      /\ \A u \in Tasks : TaskOK(u) /\ LockOK(u) /\ CapOf(u)
    BY DEF TypeInv, StepOf, CapInv
<1>2. \A u \in Tasks \ {t} : Same(u)
    BY StepMoves DEF TypeInv, Moves
<1>3. CASE \/ Look(t) \/ DropLate(t) \/ ForgetLate(t) \/ Read(t)
           \/ List(t) \/ Wipe(t) \/ Forget(t) \/ Enter(t) \/ Evict(t)
  <2>1. CapOf(t)' /\ Shrinks
      BY <1>1, <1>3, OtherCap, EnterCap, EvictCap
  <2>2. \A u \in Tasks \ {t} : CapOf(u)'
      BY <1>1, <1>2, <2>1, SameCap
  <2> QED  BY <2>1, <2>2 DEF CapInv, Shrinks
<1>4. CASE Evicted(t) \/ Put(t) \/ Track(t)
  <2>1. CapOf(t)' /\ CapIsNearlyKept'
      BY <1>1, <1>4, EvictedCap, PutCap, TrackCap
  <2>2. lock[1] = t
      BY <1>1, <1>4 DEF Evicted, Put, Track, LockOK, Holding
  <2>3. \A u \in Tasks \ {t} : CapOf(u)'
      BY <1>1, <1>2, <2>2, AwayCap
  <2> QED  BY <2>1, <2>3 DEF CapInv
<1> QED  BY <1>3, <1>4 DEF CacheStep

LEMMA NextCap ==
    ASSUME TypeInv, CapInv, [Next]_vars
    PROVE  CapInv'
<1>1. /\ CacheOK /\ TaskShapes /\ CapIsNearlyKept
      /\ \A u \in Tasks : StepOf(u) /\ TaskOK(u) /\ CapOf(u)
    BY DEF TypeInv, StepOf, CapInv
<1>2. ASSUME NEW t \in Tasks, Moves(t), Outside(t), UNCHANGED <<tracked, total>>
      PROVE  CapInv'
  <2>1. Shrinks
      BY <1>1, <1>2, StillShrinks
  <2>2. CapOf(t)'
    <3>1. CASE Same(t)
        BY <1>1, <2>1, <3>1, SameCap
    <3>2. CASE ~Same(t)
        BY <1>2, <3>2 DEF Outside, CapOf, Gathering, Keyed, Holding
    <3> QED  BY <3>1, <3>2
  <2>3. \A u \in Tasks \ {t} : CapOf(u)'
      BY <1>1, <1>2, <2>1, SameCap DEF Moves
  <2> QED  BY <2>1, <2>2, <2>3 DEF CapInv, Shrinks
<1>3. CASE \E c \in Clients : Call(c)
  <2>1. PICK c \in Clients : Call(c)
      BY <1>3
  <2>2. Moves(c) /\ Outside(c) /\ UNCHANGED <<tracked, total>> /\ c \in Tasks
      BY <1>1, <2>1, CallTyped, CallOutside, Tasked
  <2> QED  BY <1>2, <2>2
<1>4. CASE \E c \in Clients : ViewStep(c)
  <2>1. PICK c \in Clients : ViewStep(c)
      BY <1>4
  <2>2. Moves(c) /\ UNCHANGED <<tracked, total>> /\ c \in Tasks
      BY <1>1, <2>1, ViewStepMoves, Tasked DEF cacheVars
  <2>3. Outside(c)
      BY <1>1, <2>1, <2>2, ViewStepOutside DEF TypeInv
  <2> QED  BY <1>2, <2>2, <2>3
<1>5. CASE \E r \in Refreshers : RefreshStep(r)
  <2>1. PICK r \in Refreshers : RefreshStep(r)
      BY <1>5
  <2>2. Moves(r) /\ UNCHANGED <<tracked, total>> /\ r \in Tasks /\ Outside(r)
      BY <1>1, <2>1, RefreshStepMoves, RefreshOutside, Tasked DEF cacheVars
  <2> QED  BY <1>2, <2>2
<1>6. CASE \E t \in Tasks : CacheTask(t)
    BY <1>6, StepCap DEF CacheTask
<1>7. CASE Time \/ UNCHANGED vars
  <2>1. UNCHANGED <<tracked, total, pc, loc>>
      BY <1>7 DEF Time, Expire, Age, Cache, cacheVars, vars
  <2>2. Shrinks
      BY <1>1, <2>1, StillShrinks
  <2>3. \A u \in Tasks : CapOf(u)'
    <3> TAKE u \in Tasks
    <3>1. Same(u)
        BY <2>1 DEF Same
    <3> QED  BY <1>1, <2>2, <3>1, SameCap
  <2> QED  BY <2>2, <2>3 DEF CapInv, Shrinks
<1> QED  BY <1>3, <1>4, <1>5, <1>6, <1>7 DEF Next, Progress

LEMMA InitCap ==
    ASSUME Init, TypeInv
    PROVE  CapInv
<1>1. total = Sizes(tracked) /\ total <= MaxBytes
    BY DEF Init, CacheInit
<1>2. Sizes(tracked) \in Nat /\ MaxBytes \in Nat /\ LargestEntry \in Nat
    BY AccountNumbers DEF TypeInv, CacheOK
<1>3. total <= Sizes(tracked) /\ total < MaxBytes + LargestEntry
  <2>1. [p \in {} |-> 0] \in [{} -> Versions]
      OBVIOUS
  <2>2. [p \in {} |-> 0] \in Answers
      BY <2>1 DEF Answers
  <2>3. LargestEntry >= 1
      BY <1>2, <2>2, AccountNumbers
  <2> QED  BY <1>1, <1>2, <2>3
<1>4. \A t \in Tasks : CapOf(t)
    BY DEF Init, CapOf, Gathering, Keyed, Holding
<1> QED  BY <1>3, <1>4 DEF CapInv, CapIsNearlyKept

\* The count of bytes never claims more than is tracked, and stays below maxCacheSize
\* and one entry, whatever other calls clear or find expired while set() evicts and
\* whatever fails.
THEOREM CapIsAlmostKept == Spec => []CapIsNearlyKept
<1>1. Init => TypeInv /\ CapInv
    BY InitTyped, InitCap
<1>2. TypeInv /\ CapInv /\ [Next]_vars => TypeInv' /\ CapInv'
    BY NextTyped, NextCap
<1>3. CapInv => CapIsNearlyKept
    BY DEF CapInv
<1> QED  BY <1>1, <1>2, <1>3, PTL DEF Spec
=============================================================================
