------------------------------- MODULE Inbox -------------------------------
(***************************************************************************)
(* One messaging inbox (src/messaging/inbox.ts): items, an index of the    *)
(* item ids, a pending marker per ingest in flight, and blobs, all in      *)
(* adapters that survive a crash; and the index write chain, a queue of    *)
(* index updates that does not.                                            *)
(*                                                                         *)
(* A step is one adapter call with the code that follows it up to the next *)
(* await.  A write may fail before or after its effect.  The content of an *)
(* item does not matter, only whether it is stored.                        *)
(***************************************************************************)
EXTENDS Sequences, FiniteSets

CONSTANTS
    Tasks,      \* calls of the inbox; each is made at most once
    Ids,        \* item ids
    Ops         \* the operations that are called

AllOps == {"ingest", "force", "fields", "delete", "recover"}

ASSUME InboxAssumption == Ops \subseteq AllOps /\ Ids # {}

VARIABLES
    items,      \* the ids with an item record
    blobs,      \* the ids whose blobs are stored
    pending,    \* the ids with a pending marker
    index,      \* the ids the index file lists
    chain,      \* indexWriteChain: the tasks whose update is not finished
    pc,         \* where each call is
    req,        \* its operation and its id (of recover: the id in hand)
    snap,       \* its copy of the index
    todo,       \* recover: the markers still to be handled
    acked,      \* history: ids whose ingest returned, not deleted since
    exposed     \* history: ids a delete or a recovery may have damaged

disk == <<items, blobs, pending, index>>
locals == <<snap, todo>>
history == <<acked, exposed>>
vars == <<disk, chain, pc, req, locals, history>>

PCs == {"idle", "probe", "blobs", "mark", "put", "queued", "indexSet",
        "unmark", "readFields", "putFields", "loadIndex", "readItem",
        "dropBlobs", "dropItem", "saveIndex", "list", "marker", "lookItem",
        "lookIndex", "ended"}

TypeOK ==
    /\ items \in SUBSET Ids
    /\ blobs \in SUBSET Ids
    /\ pending \in SUBSET Ids
    /\ index \in SUBSET Ids
    /\ chain \in Seq(Tasks)
    /\ pc \in [Tasks -> PCs]
    /\ req \in [Tasks -> [op : AllOps, id : Ids]]
    /\ snap \in [Tasks -> SUBSET Ids]
    /\ todo \in [Tasks -> SUBSET Ids]
    /\ acked \in SUBSET Ids
    /\ exposed \in SUBSET Ids

SomeId == CHOOSE i \in Ids : TRUE

NoRequest == [op |-> "ingest", id |-> SomeId]

Init ==
    /\ items = {} /\ blobs = {} /\ pending = {} /\ index = {}
    /\ chain = <<>>
    /\ pc = [t \in Tasks |-> "idle"]
    /\ req = [t \in Tasks |-> NoRequest]
    /\ snap = [t \in Tasks |-> {}]
    /\ todo = [t \in Tasks |-> {}]
    /\ acked = {} /\ exposed = {}

-----------------------------------------------------------------------------
Op(t) == req[t].op
Id(t) == req[t].id
Ingesting(t) == Op(t) \in {"ingest", "force"}

Live(t) == pc[t] \notin {"idle", "ended"}
LiveTasks == {t \in Tasks : Live(t)}

\* The request of a call that ended is of no interest.
Goto(t, label) ==
    /\ pc' = [pc EXCEPT ![t] = label]
    /\ req' = IF label = "ended" THEN [req EXCEPT ![t] = NoRequest] ELSE req

\* An adapter call that goes through, or throws after its effect.
Proceed(t, label) == Goto(t, label) \/ Goto(t, "ended")

First(op) ==
    CASE op = "ingest" -> "probe"
      [] op = "force" -> "blobs"
      [] op = "fields" -> "readFields"
      [] op = "delete" -> "loadIndex"
      [] op = "recover" -> "list"

\* delete rewrites the index outside the chain; recover may take the marker of
\* an ingest that has not stored its item yet for a leftover.
Clash(op1, op2) ==
    \/ "delete" \in {op1, op2}
    \/ op1 = "recover" /\ op2 \in {"ingest", "force"}
    \/ op2 = "recover" /\ op1 \in {"ingest", "force"}

\* What two clashing calls may damage: the ids they were called with, and
\* anything if one deletes while the other recovers.
Named(op, id) == IF op = "recover" THEN {} ELSE {id}

Damaged(op, id, u) ==
    IF {op, Op(u)} = {"delete", "recover"}
    THEN Ids
    ELSE Named(op, id) \cup Named(Op(u), Id(u))

Start(t, op, id) ==
    /\ pc[t] = "idle"
    /\ pc' = [pc EXCEPT ![t] = First(op)]
    /\ req' = [req EXCEPT ![t] = [op |-> op, id |-> id]]
    /\ exposed' = exposed \cup
           UNION {Damaged(op, id, u) : u \in {v \in LiveTasks : Clash(op, Op(v))}}
    /\ acked' = IF op = "delete" THEN acked \ {id} ELSE acked
    /\ UNCHANGED <<disk, chain, snap, todo>>

-----------------------------------------------------------------------------
(* _ingest: probe for a duplicate, blobs, marker, item, index, marker.     *)
Probe(t) ==
    /\ pc[t] = "probe"
    /\ IF Id(t) \in items
       THEN Goto(t, "ended") /\ acked' = acked \cup {Id(t)}
       ELSE Goto(t, "blobs") /\ UNCHANGED acked
    /\ UNCHANGED <<disk, chain, locals, exposed>>

PutBlobs(t) ==
    /\ pc[t] = "blobs"
    /\ blobs' = blobs \cup {Id(t)}
    /\ Proceed(t, "mark")
    /\ UNCHANGED <<items, pending, index, chain, locals, history>>

\* Mutant: no marker.
MarkSkipped(t) ==
    /\ pc[t] = "mark"
    /\ Proceed(t, "put")
    /\ UNCHANGED <<disk, chain, locals, history>>

Mark(t) ==
    /\ pc[t] = "mark"
    /\ pending' = pending \cup {Id(t)}
    /\ Proceed(t, "put")
    /\ UNCHANGED <<items, blobs, index, chain, locals, history>>

\* Mutant: the entry joins the chain, not the update.
PutMistyped(t) ==
    /\ pc[t] = "put"
    /\ items' = items \cup {Id(t)}
    /\ Goto(t, "queued")
    /\ chain' = Append(chain, Id(t))
    /\ UNCHANGED <<blobs, pending, index, locals, history>>

\* The item is stored; the call joins the chain.
Put(t) ==
    /\ pc[t] = "put"
    /\ items' = items \cup {Id(t)}
    /\ \/ Goto(t, "queued") /\ chain' = Append(chain, t)
       \/ Goto(t, "ended") /\ UNCHANGED chain
    /\ UNCHANGED <<blobs, pending, index, locals, history>>

-----------------------------------------------------------------------------
(* appendIndex: the head of the chain loads the index and writes it back.  *)
\* Mutant: the update does not wait for its turn.
LoadUnchained(t) ==
    /\ pc[t] = "queued"
    /\ Goto(t, "indexSet")
    /\ snap' = [snap EXCEPT ![t] = index]
    /\ UNCHANGED <<disk, chain, todo, history>>

LoadForAppend(t) ==
    /\ pc[t] = "queued"
    /\ Head(chain) = t
    /\ IF Id(t) \in index
       THEN /\ Goto(t, "unmark")
            /\ chain' = Tail(chain)
            /\ UNCHANGED snap
       ELSE /\ Goto(t, "indexSet")
            /\ snap' = [snap EXCEPT ![t] = index]
            /\ UNCHANGED chain
    /\ UNCHANGED <<disk, todo, history>>

\* Mutant: the caller is given the chain with its errors swallowed.
IndexSetSwallowed(t) ==
    /\ pc[t] = "indexSet"
    /\ index' \in {index, snap[t] \cup {Id(t)}}
    /\ chain' = Tail(chain)
    /\ snap' = [snap EXCEPT ![t] = {}]
    /\ Goto(t, "unmark")
    /\ UNCHANGED <<items, blobs, pending, todo, history>>

\* Whatever the outcome, the next update of the chain may run.
IndexSet(t) ==
    /\ pc[t] = "indexSet"
    /\ index' = snap[t] \cup {Id(t)}
    /\ chain' = Tail(chain)
    /\ snap' = [snap EXCEPT ![t] = {}]
    /\ Proceed(t, "unmark")
    /\ UNCHANGED <<items, blobs, pending, todo, history>>

\* Clear the marker; a failure to do so is ignored.
Unmark(t) ==
    /\ pc[t] = "unmark"
    /\ \/ pending' = pending \ {Id(t)}
       \/ UNCHANGED pending
    /\ IF Op(t) = "recover"
       THEN Goto(t, "marker") /\ UNCHANGED acked
       ELSE Goto(t, "ended") /\ acked' = acked \cup {Id(t)}
    /\ UNCHANGED <<items, blobs, index, chain, locals, exposed>>

-----------------------------------------------------------------------------
(* _ingest with fields_only: read the item, merge, write it back.          *)
ReadFields(t) ==
    /\ pc[t] = "readFields"
    /\ Goto(t, IF Id(t) \in items THEN "putFields" ELSE "ended")
    /\ UNCHANGED <<disk, chain, locals, history>>

PutFields(t) ==
    /\ pc[t] = "putFields"
    /\ items' = items \cup {Id(t)}
    /\ Goto(t, "ended")
    /\ UNCHANGED <<blobs, pending, index, chain, locals, history>>

-----------------------------------------------------------------------------
(* delete: blobs, item, then the index as it was loaded, without the id.   *)
LoadForDelete(t) ==
    /\ pc[t] = "loadIndex"
    /\ IF Id(t) \in index
       THEN Goto(t, "readItem") /\ snap' = [snap EXCEPT ![t] = index]
       ELSE Goto(t, "ended") /\ UNCHANGED snap
    /\ UNCHANGED <<disk, chain, todo, history>>

ReadItem(t) ==
    /\ pc[t] = "readItem"
    /\ Goto(t, IF Id(t) \in items THEN "dropBlobs" ELSE "dropItem")
    /\ UNCHANGED <<disk, chain, locals, history>>

DropBlobs(t) ==
    /\ pc[t] = "dropBlobs"
    /\ \/ blobs' = blobs \ {Id(t)}
       \/ UNCHANGED blobs          \* errors are ignored
    /\ Goto(t, "dropItem")
    /\ UNCHANGED <<items, pending, index, chain, locals, history>>

DropItem(t) ==
    /\ pc[t] = "dropItem"
    /\ items' = items \ {Id(t)}
    /\ Goto(t, "saveIndex")
    /\ UNCHANGED <<blobs, pending, index, chain, locals, history>>

SaveIndex(t) ==
    /\ pc[t] = "saveIndex"
    /\ index' = snap[t] \ {Id(t)}
    /\ snap' = [snap EXCEPT ![t] = {}]
    /\ Goto(t, "ended")
    /\ UNCHANGED <<items, blobs, pending, chain, todo, history>>

-----------------------------------------------------------------------------
(* recoverOrphans: for each marker listed at the start, reap it, or index  *)
(* its item if need be, and clear it.                                      *)
ListMarkers(t) ==
    /\ pc[t] = "list"
    /\ todo' = [todo EXCEPT ![t] = pending]
    /\ Goto(t, "marker")
    /\ UNCHANGED <<disk, chain, snap, history>>

\* Read the next marker; one that is gone is deleted again.
ReadMarker(t) ==
    /\ pc[t] = "marker"
    /\ \/ /\ todo[t] = {}
          /\ Goto(t, "ended")
          /\ UNCHANGED todo
       \/ \E i \in todo[t] :
            /\ req' = [req EXCEPT ![t].id = i]
            /\ todo' = [todo EXCEPT ![t] = @ \ {i}]
            /\ pc' = [pc EXCEPT ![t] = IF i \in pending
                                       THEN "lookItem" ELSE "unmark"]
    /\ UNCHANGED <<disk, chain, snap, history>>

\* Mutant: a marker is taken for proof of an item.
LookItemSkipped(t) ==
    /\ pc[t] = "lookItem"
    /\ Goto(t, "lookIndex")
    /\ UNCHANGED <<disk, chain, locals, history>>

LookItem(t) ==
    /\ pc[t] = "lookItem"
    /\ Goto(t, IF Id(t) \in items THEN "lookIndex" ELSE "unmark")
    /\ UNCHANGED <<disk, chain, locals, history>>

LookIndex(t) ==
    /\ pc[t] = "lookIndex"
    /\ IF Id(t) \in index
       THEN Goto(t, "unmark") /\ UNCHANGED chain
       ELSE Goto(t, "queued") /\ chain' = Append(chain, t)
    /\ UNCHANGED <<disk, locals, history>>

-----------------------------------------------------------------------------
\* Mutant: an update that throws poisons the chain.
FailPoisoning(t) ==
    /\ pc[t] \in PCs \ {"idle", "ended", "unmark", "dropBlobs"}
    /\ pc[t] = "queued" => Head(chain) = t
    /\ Goto(t, "ended")
    /\ snap' = [snap EXCEPT ![t] = {}]
    /\ todo' = [todo EXCEPT ![t] = {}]
    /\ exposed' = IF Op(t) = "delete" THEN exposed \cup {Id(t)} ELSE exposed
    /\ UNCHANGED <<disk, chain, acked>>

\* An adapter call throws, and the call with it; deletes of markers and blobs
\* are caught.  An update of the index that throws leaves the chain.
Fail(t) ==
    /\ pc[t] \in PCs \ {"idle", "ended", "unmark", "dropBlobs"}
    /\ pc[t] = "queued" => Head(chain) = t
    /\ Goto(t, "ended")
    /\ chain' = IF pc[t] \in {"queued", "indexSet"} THEN Tail(chain) ELSE chain
    /\ snap' = [snap EXCEPT ![t] = {}]
    /\ todo' = [todo EXCEPT ![t] = {}]
    /\ exposed' = IF Op(t) = "delete" THEN exposed \cup {Id(t)} ELSE exposed
    /\ UNCHANGED <<disk, acked>>

\* The worker is evicted: calls and chain are gone.
Crash ==
    /\ LiveTasks # {}
    /\ pc' = [t \in Tasks |-> IF Live(t) THEN "ended" ELSE pc[t]]
    /\ req' = [t \in Tasks |-> NoRequest]
    /\ chain' = <<>>
    /\ snap' = [t \in Tasks |-> {}]
    /\ todo' = [t \in Tasks |-> {}]
    /\ exposed' = exposed \cup {Id(t) : t \in {u \in LiveTasks : Op(u) = "delete"}}
    /\ UNCHANGED <<disk, acked>>

Step(t) ==
    \/ Probe(t) \/ PutBlobs(t) \/ Mark(t) \/ Put(t)
    \/ LoadForAppend(t) \/ IndexSet(t) \/ Unmark(t)
    \/ ReadFields(t) \/ PutFields(t)
    \/ LoadForDelete(t) \/ ReadItem(t) \/ DropBlobs(t) \/ DropItem(t)
    \/ SaveIndex(t)
    \/ ListMarkers(t) \/ ReadMarker(t) \/ LookItem(t) \/ LookIndex(t)

Finished ==
    /\ \A t \in Tasks : pc[t] = "ended"
    /\ UNCHANGED vars

Next ==
    \/ \E t \in Tasks :
         \/ \E op \in Ops, id \in Ids : Start(t, op, id)
         \/ Step(t)
         \/ Fail(t)
    \/ Crash
    \/ Finished

\* Every adapter call settles and every microtask runs.
Fairness == \A t \in Tasks : WF_vars(Step(t))

Spec == Init /\ [][Next]_vars /\ Fairness
-----------------------------------------------------------------------------
\* Updates through the chain do not overlap: what an appendIndex writes back
\* was read after the last change of the index, as far as no delete is involved.
ChainSerializes ==
    \A t \in Tasks :
        pc[t] = "indexSet" =>
            /\ Head(chain) = t
            /\ snap[t] \ exposed = index \ exposed

\* No crash or failed write leaves an item that is in storage, invisible to
\* list and query, and unknown to recoverOrphans.
Recoverable ==
    \A i \in items \ exposed : i \in index \/ i \in pending

\* An ingest that returned, be it because it found a duplicate, is in storage
\* with its blobs, and listed or recoverable.
AckedKept ==
    \A i \in acked \ exposed : i \in items /\ i \in blobs /\ i \in index \cup pending

\* The index lists an id only if its item is stored, crashes included, unless a
\* delete of the id is under way or broke off.
ListedIsStored ==
    \A i \in index \ exposed :
        i \in items \/ \E t \in LiveTasks : Op(t) = "delete" /\ Id(t) = i

\* No update of the index that fails or dies blocks those queued behind it, and
\* a recovery ends: the calls that are under way all end.
InboxBecomesIdle == (LiveTasks # {}) ~> (LiveTasks = {})

\* inbox.ts: recoverOrphans is "safe to call from cron, an admin endpoint, or
\* boot": whenever the inbox is idle each item is listed or recoverable.
RecoverySafe ==
    LiveTasks = {} => \A i \in items : i \in index \/ i \in pending
=============================================================================
