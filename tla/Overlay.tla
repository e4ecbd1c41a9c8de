------------------------------ MODULE Overlay ------------------------------
(***************************************************************************)
(* The copy-on-write adapter of src/adapters/overlay.ts: an overlay with   *)
(* tombstones over a base, concurrent calls of get, set, delete, discard,  *)
(* commit, snapshot and restore, and the promise chain that serializes     *)
(* commit and snapshot (_withLock).                                        *)
(*                                                                         *)
(* A step is one call of an inner adapter with the code up to the next     *)
(* await.  Inner calls may fail before or after their effect.  Both inner  *)
(* adapters survive a crash; an overlay that does not is one discarded.    *)
(* There are one snapshot and no prefixes.                                 *)
(***************************************************************************)
EXTENDS Naturals, Sequences

CONSTANTS
    Tasks,      \* calls of the adapter; each is made at most once
    Keys,
    Values,
    None,       \* null
    Unknown     \* a value that the calls made so far do not determine

ASSUME OverlayAssumption ==
    /\ Keys # {}
    /\ None \notin Values /\ Unknown \notin Values \cup {None}

VARIABLES
    base, over,   \* what the two inner adapters hold
    tomb,         \* the keys with a tombstone in the overlay
    saved,        \* the snapshot: {} or {its entries}
    queue,        \* _opLock: the calls that hold or await it
    pc,           \* where each call is
    req,          \* what each call asks for
    loc,          \* its local variables
    expect,       \* history: what a reader should see
    exposed,      \* history: keys with calls that must not overlap
    seen          \* history: what was visible of its key during each get

files == <<base, over, tomb>>
vars == <<files, saved, queue, pc, req, loc, expect, exposed, seen>>

-----------------------------------------------------------------------------
Content == Values \cup {None}
Contents == [Keys -> Content]
Nothing == [k \in Keys |-> None]
Present(f) == {k \in Keys : f[k] # None}

Locked == {"commit", "snapshot"}
Wide == {"discard", "restore"}          \* write every key
Ops == {"get", "set", "delete"} \cup Locked \cup Wide

PCs == {"idle", "hasTomb", "dropTomb", "write", "hasOver", "dropOver", "bury",
        "getTomb", "getOver", "getBase", "answer", "clear", "replay",
        "queued", "readOver", "publish", "listOver", "listTomb", "unpublish",
        "wipe", "snapTomb", "snapBase", "capture", "done", "failed"}

SomeKey == CHOOSE k \in Keys : TRUE
NoRequest == [op |-> "get", key |-> SomeKey, value |-> None]
FreshLocals == [key |-> SomeKey, value |-> None, keep |-> {}, todo |-> {},
                copy |-> Nothing]

TypeOK ==
    /\ base \in Contents
    /\ over \in Contents
    /\ tomb \in SUBSET Keys
    /\ saved \in SUBSET Contents
    /\ queue \in Seq(Tasks)
    /\ pc \in [Tasks -> PCs]
    /\ req \in [Tasks -> [op : Ops, key : Keys, value : Content]]
    /\ loc \in [Tasks -> [key : Keys, value : Content, keep : SUBSET Keys,
                          todo : SUBSET Keys, copy : Contents]]
    /\ expect \in [Keys -> Content \cup {Unknown}]
    /\ exposed \in SUBSET Keys
    /\ seen \in [Tasks -> SUBSET Content]

\* What a get that nothing interrupts returns.
View == [k \in Keys |-> IF k \in tomb THEN None
                        ELSE IF over[k] # None THEN over[k] ELSE base[k]]

\* Each key is shadowed, deleted or passed through.
Init ==
    /\ base \in Contents
    /\ over \in Contents
    /\ tomb \in SUBSET {k \in Keys : over[k] = None}
    /\ saved = {}
    /\ queue = <<>>
    /\ pc = [t \in Tasks |-> "idle"]
    /\ req = [t \in Tasks |-> NoRequest]
    /\ loc = [t \in Tasks |-> FreshLocals]
    /\ expect = View
    /\ exposed = {}
    /\ seen = [t \in Tasks |-> {}]

-----------------------------------------------------------------------------
Op(t) == req[t].op
Live(t) == pc[t] \notin {"idle", "done", "failed"}

Goto(t, label) == pc' = [pc EXCEPT ![t] = label]

\* The end of a call: _withLock releases in its finally block.
End(t, label) ==
    /\ Goto(t, label)
    /\ queue' = IF Op(t) \in Locked THEN Tail(queue) ELSE queue
    /\ loc' = [loc EXCEPT ![t] = FreshLocals]
    /\ req' = [req EXCEPT ![t] = NoRequest]

Forgotten(keys) == [k \in Keys |-> IF k \in keys THEN Unknown ELSE expect[k]]
Expect(f) == expect' = [k \in Keys |-> IF k \in exposed THEN Unknown ELSE f[k]]

\* Calls that the adapter does not isolate: writes of one key, and writes during
\* a commit or a snapshot.
Touches(op, key) ==
    CASE op \in {"set", "delete"} -> {key}
      [] op \in Wide -> Keys
      [] OTHER -> {}

Endangered(op, key, u) ==
    LET mine == Touches(op, key)
        theirs == Touches(Op(u), req[u].key)
    IN CASE op \in Locked -> theirs
         [] Op(u) \in Locked -> mine
         [] OTHER -> mine \cap theirs

First(op) ==
    CASE op = "get" -> "getTomb"
      [] op = "set" -> "hasTomb"
      [] op = "delete" -> "hasOver"
      [] op \in Wide -> "clear"
      [] op \in Locked -> "queued"

Start(t, op, key, value) ==
    /\ pc[t] = "idle"
    /\ op = "restore" => saved # {}
    /\ Goto(t, First(op))
    /\ req' = [req EXCEPT ![t] = [op |-> op, key |-> key, value |-> value]]
    /\ loc' = [loc EXCEPT ![t] = [FreshLocals EXCEPT
                  !.key = key,
                  !.copy = IF op = "restore" THEN CHOOSE s \in saved : TRUE ELSE @]]
    /\ queue' = IF op \in Locked THEN Append(queue, t) ELSE queue
    /\ exposed' = exposed \cup
           UNION {Endangered(op, key, u) : u \in {v \in Tasks : Live(v)}}
    /\ expect' = Forgotten(Touches(op, key) \cup exposed')
    /\ UNCHANGED <<files, saved>>

-----------------------------------------------------------------------------
(* get, alone or inside snapshot.                                          *)
Got(t, v) ==
    IF Op(t) = "get"
    THEN /\ loc' = [loc EXCEPT ![t].value = v]
         /\ Goto(t, "answer")
    ELSE /\ loc' = [loc EXCEPT ![t].copy[loc[t].key] = v, ![t].key = SomeKey]
         /\ Goto(t, "capture")

\* Mutant: get looks for no tombstone.
GetTombSkipped(t) ==
    /\ pc[t] = "getTomb"
    /\ Goto(t, "getOver") /\ UNCHANGED loc
    /\ UNCHANGED <<files, saved, queue, req, expect, exposed>>

GetTomb(t) ==
    /\ pc[t] = "getTomb"
    /\ IF loc[t].key \in tomb THEN Got(t, None)
       ELSE Goto(t, "getOver") /\ UNCHANGED loc
    /\ UNCHANGED <<files, saved, queue, req, expect, exposed>>

GetOver(t) ==
    /\ pc[t] = "getOver"
    /\ IF over[loc[t].key] # None THEN Got(t, over[loc[t].key])
       ELSE Goto(t, "getBase") /\ UNCHANGED loc
    /\ UNCHANGED <<files, saved, queue, req, expect, exposed>>

GetBase(t) ==
    /\ pc[t] = "getBase"
    /\ Got(t, base[loc[t].key])
    /\ UNCHANGED <<files, saved, queue, req, expect, exposed>>

Answer(t) ==
    /\ pc[t] = "answer"
    /\ End(t, "done")
    /\ UNCHANGED <<files, saved, expect, exposed>>

-----------------------------------------------------------------------------
(* set: drop the tombstone if there is one, then write.                    *)
\* Mutant: set leaves the tombstone.
HasTombSkipped(t) ==
    /\ pc[t] = "hasTomb"
    /\ Goto(t, "write")
    /\ UNCHANGED <<files, saved, queue, req, loc, expect, exposed>>

HasTomb(t) ==
    /\ pc[t] = "hasTomb"
    /\ Goto(t, IF req[t].key \in tomb THEN "dropTomb" ELSE "write")
    /\ UNCHANGED <<files, saved, queue, req, loc, expect, exposed>>

DropTomb(t) ==
    /\ pc[t] = "dropTomb"
    /\ tomb' = tomb \ {req[t].key}
    /\ Goto(t, "write")
    /\ UNCHANGED <<base, over, saved, queue, req, loc, expect, exposed>>

Write(t) ==
    /\ pc[t] = "write"
    /\ over' = [over EXCEPT ![req[t].key] = req[t].value]
    /\ End(t, "done")
    /\ Expect([expect EXCEPT ![req[t].key] = req[t].value])
    /\ UNCHANGED <<base, tomb, saved, exposed>>

(* delete: drop the overlay's value if there is one, then write a tombstone. *)
HasOver(t) ==
    /\ pc[t] = "hasOver"
    /\ Goto(t, IF over[req[t].key] # None THEN "dropOver" ELSE "bury")
    /\ UNCHANGED <<files, saved, queue, req, loc, expect, exposed>>

DropOver(t) ==
    /\ pc[t] = "dropOver"
    /\ over' = [over EXCEPT ![req[t].key] = None]
    /\ Goto(t, "bury")
    /\ UNCHANGED <<base, tomb, saved, queue, req, loc, expect, exposed>>

\* Mutant: the tombstone names the request, not the key.
BuryMistyped(t) ==
    /\ pc[t] = "bury"
    /\ tomb' = tomb \cup {req[t]}
    /\ End(t, "done")
    /\ Expect([expect EXCEPT ![req[t].key] = None])
    /\ UNCHANGED <<base, over, saved, exposed>>

Bury(t) ==
    /\ pc[t] = "bury"
    /\ tomb' = tomb \cup {req[t].key}
    /\ End(t, "done")
    /\ Expect([expect EXCEPT ![req[t].key] = None])
    /\ UNCHANGED <<base, over, saved, exposed>>

(* discard and restore: clear the overlay; restore replays the snapshot.   *)
Clear(t) ==
    /\ pc[t] = "clear"
    /\ over' = Nothing
    /\ tomb' = {}
    /\ IF Op(t) = "discard"
       THEN End(t, "done") /\ Expect(base)
       ELSE /\ Goto(t, "replay")
            /\ loc' = [loc EXCEPT ![t].todo = Present(loc[t].copy)]
            /\ UNCHANGED <<queue, req, expect>>
    /\ UNCHANGED <<base, saved, exposed>>

Replay(t) ==
    /\ pc[t] = "replay"
    /\ \E k \in loc[t].todo :
         /\ over' = [over EXCEPT ![k] = loc[t].copy[k]]
         /\ loc' = [loc EXCEPT ![t].todo = @ \ {k}]
    /\ UNCHANGED <<base, tomb, saved, queue, pc, req, expect, exposed>>

Replayed(t) ==
    /\ pc[t] = "replay"
    /\ loc[t].todo = {}
    /\ End(t, "done")
    /\ Expect([k \in Keys |-> IF loc[t].copy[k] # None THEN loc[t].copy[k]
                              ELSE Unknown])
    /\ UNCHANGED <<files, saved, exposed>>

-----------------------------------------------------------------------------
(* _withLock: a call goes on when those before it have ended; commit lists *)
(* the base first, snapshot the overlay.                                   *)
Enter(t) ==
    /\ pc[t] = "queued"
    /\ Head(queue) = t
    /\ IF Op(t) = "commit"
       THEN /\ loc' = [loc EXCEPT ![t].keep = Present(base)]
            /\ Goto(t, "listOver")
       ELSE /\ loc' = [loc EXCEPT ![t].keep = Present(over)]
            /\ Goto(t, "snapTomb")
    /\ UNCHANGED <<files, saved, queue, req, expect, exposed>>

(* commit: write the overlay's values to the base, delete the tombstoned   *)
(* keys the base had at the start, wipe the overlay.                       *)
ListOver(t) ==
    /\ pc[t] = "listOver"
    /\ loc' = [loc EXCEPT ![t].todo = Present(over)]
    /\ Goto(t, "readOver")
    /\ UNCHANGED <<files, saved, queue, req, expect, exposed>>

ReadOver(t) ==
    /\ pc[t] = "readOver"
    /\ \E k \in loc[t].todo :
         /\ loc' = [loc EXCEPT ![t].key = IF over[k] = None THEN @ ELSE k,
                               ![t].value = over[k],
                               ![t].todo = @ \ {k}]
         /\ IF over[k] = None THEN UNCHANGED pc ELSE Goto(t, "publish")
    /\ UNCHANGED <<files, saved, queue, req, expect, exposed>>

Publish(t) ==
    /\ pc[t] = "publish"
    /\ base' = [base EXCEPT ![loc[t].key] = loc[t].value]
    /\ loc' = [loc EXCEPT ![t].key = SomeKey, ![t].value = None]
    /\ Goto(t, "readOver")
    /\ UNCHANGED <<over, tomb, saved, queue, req, expect, exposed>>

\* Mutant: tombstones are not committed.
ListTombSkipped(t) ==
    /\ pc[t] = "readOver" /\ loc[t].todo = {}
    /\ Goto(t, "unpublish")
    /\ UNCHANGED <<files, saved, queue, req, loc, expect, exposed>>

\* Mutant: every key the base had is deleted.
ListTombIgnored(t) ==
    /\ pc[t] = "readOver" /\ loc[t].todo = {}
    /\ loc' = [loc EXCEPT ![t].todo = loc[t].keep, ![t].keep = {}]
    /\ Goto(t, "unpublish")
    /\ UNCHANGED <<files, saved, queue, req, expect, exposed>>

ListTomb(t) ==
    /\ pc[t] = "readOver" /\ loc[t].todo = {}
    /\ loc' = [loc EXCEPT ![t].todo = tomb \cap loc[t].keep, ![t].keep = {}]
    /\ Goto(t, "unpublish")
    /\ UNCHANGED <<files, saved, queue, req, expect, exposed>>

Unpublish(t) ==
    /\ pc[t] = "unpublish"
    /\ \E k \in loc[t].todo :
         /\ base' = [base EXCEPT ![k] = None]
         /\ loc' = [loc EXCEPT ![t].todo = @ \ {k}]
    /\ UNCHANGED <<over, tomb, saved, queue, pc, req, expect, exposed>>

Wipe(t) ==
    /\ pc[t] = "unpublish" /\ loc[t].todo = {}
    /\ over' = Nothing
    /\ tomb' = {}
    /\ End(t, "done")
    /\ UNCHANGED <<base, saved, expect, exposed>>

(* snapshot: keys(), then get() of each.                                   *)
SnapTomb(t) ==
    /\ pc[t] = "snapTomb"
    /\ loc' = [loc EXCEPT ![t].todo = tomb]
    /\ Goto(t, "snapBase")
    /\ UNCHANGED <<files, saved, queue, req, expect, exposed>>

\* Mutant: a key only the overlay has is not listed.
SnapBaseOnly(t) ==
    /\ pc[t] = "snapBase"
    /\ loc' = [loc EXCEPT ![t].todo = Present(base) \ loc[t].todo, ![t].keep = {}]
    /\ Goto(t, "capture")
    /\ UNCHANGED <<files, saved, queue, req, expect, exposed>>

SnapBase(t) ==
    /\ pc[t] = "snapBase"
    /\ loc' = [loc EXCEPT ![t].todo = loc[t].keep \cup (Present(base) \ loc[t].todo),
                          ![t].keep = {}]
    /\ Goto(t, "capture")
    /\ UNCHANGED <<files, saved, queue, req, expect, exposed>>

Capture(t) ==
    /\ pc[t] = "capture"
    /\ \E k \in loc[t].todo :
         loc' = [loc EXCEPT ![t].key = k, ![t].todo = @ \ {k}]
    /\ Goto(t, "getTomb")
    /\ UNCHANGED <<files, saved, queue, req, expect, exposed>>

Captured(t) ==
    /\ pc[t] = "capture" /\ loc[t].todo = {}
    /\ saved' = {loc[t].copy}
    /\ End(t, "done")
    /\ UNCHANGED <<files, expect, exposed>>

-----------------------------------------------------------------------------
Step(t) ==
    \/ GetTomb(t) \/ GetOver(t) \/ GetBase(t) \/ Answer(t)
    \/ HasTomb(t) \/ DropTomb(t) \/ Write(t)
    \/ HasOver(t) \/ DropOver(t) \/ Bury(t)
    \/ Clear(t) \/ Replay(t) \/ Replayed(t)
    \/ Enter(t) \/ ListOver(t) \/ ReadOver(t) \/ Publish(t) \/ ListTomb(t)
    \/ Unpublish(t) \/ Wipe(t)
    \/ SnapTomb(t) \/ SnapBase(t) \/ Capture(t) \/ Captured(t)

\* The effect a failing call of an inner adapter may have had.
Effect(t) ==
    LET k == req[t].key IN
    CASE pc[t] = "dropTomb" -> <<base, over, tomb \ {k}>>
      [] pc[t] = "write" -> <<base, [over EXCEPT ![k] = req[t].value], tomb>>
      [] pc[t] = "dropOver" -> <<base, [over EXCEPT ![k] = None], tomb>>
      [] pc[t] = "bury" -> <<base, over, tomb \cup {k}>>
      [] pc[t] = "publish" -> <<[base EXCEPT ![loc[t].key] = loc[t].value], over, tomb>>
      [] pc[t] = "clear" -> <<base, Nothing, {}>>
      [] pc[t] = "unpublish" /\ loc[t].todo = {} -> <<base, Nothing, {}>>
      [] OTHER -> files

\* The error is thrown to the caller, before or after the effect.
Fail(t) ==
    /\ Live(t) /\ pc[t] # "answer"
    /\ pc[t] = "queued" => Head(queue) = t
    /\ \E f \in {files, Effect(t)} :
         base' = f[1] /\ over' = f[2] /\ tomb' = f[3]
    /\ End(t, "failed")
    /\ UNCHANGED <<saved, expect, exposed>>

\* The process dies: calls, lock and snapshot are gone.
Crash ==
    /\ \E t \in Tasks : Live(t)
    /\ pc' = [t \in Tasks |-> IF Live(t) THEN "failed" ELSE pc[t]]
    /\ req' = [t \in Tasks |-> NoRequest]
    /\ loc' = [t \in Tasks |-> FreshLocals]
    /\ queue' = <<>>
    /\ saved' = {}
    /\ UNCHANGED <<files, expect, exposed>>

\* What becomes visible of its key during a get.
Watch ==
    seen' = [t \in Tasks |->
                IF Live(t)' /\ Op(t)' = "get"
                THEN seen[t] \cup {View'[req'[t].key]} ELSE {}]

Finished ==
    /\ \A t \in Tasks : ~Live(t) /\ pc[t] # "idle"
    /\ UNCHANGED vars

Requests(op) ==
    CASE op = "set" -> Keys \X Values
      [] op \in {"get", "delete"} -> Keys \X {None}
      [] OTHER -> {<<SomeKey, None>>}

Next ==
    \/ \E t \in Tasks :
         /\ \/ \E op \in Ops : \E r \in Requests(op) : Start(t, op, r[1], r[2])
            \/ Step(t)
            \/ Fail(t)
         /\ Watch
    \/ Crash /\ Watch
    \/ Finished

Spec == Init /\ [][Next]_vars
-----------------------------------------------------------------------------
Safe == Keys \ exposed

\* A get, three calls of the inner adapters with writes and commits in between,
\* returns what was visible of its key at some moment while it ran.
GetIsRegular ==
    \A t \in Tasks :
        pc[t] = "answer" /\ req[t].key \in Safe => loc[t].value \in seen[t]

\* What the last write of a key left stays visible, through commits and snapshots
\* at any stage, their failures and crashes, until the next write of the key.
WritesKept ==
    \A k \in Safe : expect[k] # Unknown => View[k] = expect[k]

\* When commit wipes the overlay the base has everything: values, deletions,
\* and what an earlier commit that broke off had already written.
CommitIsComplete ==
    \A t \in Tasks :
        pc[t] = "unpublish" /\ loc[t].todo = {} =>
            \A k \in Safe : base[k] = View[k]

\* A snapshot, taken key by key, is the view of one moment.
SnapshotIsView ==
    \A t \in Tasks :
        pc[t] = "capture" /\ loc[t].todo = {} =>
            \A k \in Safe : loc[t].copy[k] = View[k]

\* What call t is to leave in a key it writes.
Leaves(t, k) ==
    CASE Op(t) = "set" -> req[t].value
      [] Op(t) = "delete" -> None
      [] Op(t) = "restore" /\ loc[t].copy[k] # None -> loc[t].copy[k]
      [] OTHER -> base[k]

Writers(k) == {t \in Tasks : Live(t) /\ k \in Touches(Op(t), req[t].key)}
Coming == [k \in Keys |-> {Leaves(t, k) : t \in Writers(k)}]

Layers == INSTANCE CopyOnWrite WITH shown <- View, coming <- Coming

\* The overlay is a copy-on-write map: readers see a key change only by its own
\* writes, to what they leave or to what the base has, and nothing reaches the
\* base but what readers see already, whatever fails or dies in between.
ImplementsCopyOnWrite == Layers!Spec

\* A restore brings back the view that was captured.
RestoreRestores ==
    \A t \in Tasks :
        pc[t] = "replay" /\ loc[t].todo = {} =>
            \A k \in Safe : View[k] = loc[t].copy[k]
=============================================================================
