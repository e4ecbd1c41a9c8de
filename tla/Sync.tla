-------------------------------- MODULE Sync --------------------------------
(***************************************************************************)
(* syncAdapters (src/sync.ts): one pair of adapters, synchronised again    *)
(* and again while their users go on editing both sides.  Mode "sync" is   *)
(* the three-way merge against the baseline of the last run; "push" and    *)
(* "pull" copy one way; "merge" is mode sync without a syncId, which       *)
(* copies the keys only one side has, first one way, then the other.       *)
(*                                                                         *)
(* A step is the code between two awaits.  Keys are the keys left after    *)
(* the prefix mapping; there is no transform and no dry run.               *)
(***************************************************************************)
EXTENDS Naturals, FiniteSets

CONSTANTS
    Keys,
    Values,       \* what a key may hold
    Hash,         \* stableHash of each value, which need not be injective
    None,         \* no value, its hash, no key
    Options,      \* the options a run may be given
    Starts,       \* what the two sides may hold before the first run
    MaxEdits,     \* bound: edits by users
    MaxRuns       \* bound: runs of syncAdapters

Modes == {"sync", "push", "pull", "merge"}
Resolutions == {"skip", "source", "target", "callback"}

VARIABLES
    data,      \* what the source and the target hold
    base,      \* the saved baseline, per key the hashes of both sides
    pc,        \* where the run is
    opts,      \* its options
    listed,    \* the keys each side listed
    seen,      \* the values read from each side
    todo,      \* keys the current loop has not reached
    used,      \* the baseline the run loaded
    plan,      \* what computeSyncDiff decided for each key
    fresh,     \* the entries of the new baseline
    cur,       \* the key and value a loop body works on
    start,     \* history: both sides and the baseline at the start
    touched,   \* history: keys edited or failed since the start
    skipped,   \* history: conflicts skipped as they are now
    edits, runs

local == <<opts, listed, seen, todo, used, plan, fresh, cur>>
history == <<start, touched, skipped, edits, runs>>
vars == <<data, base, pc, local, history>>

-----------------------------------------------------------------------------
Sides == {"source", "target"}
Other(side) == IF side = "source" THEN "target" ELSE "source"

Content == Values \cup {None}
H(v) == IF v = None THEN None ELSE Hash[v]
Hashes == {H(v) : v \in Content}

Contents == [Sides -> [Keys -> Content]]
Nothing == [side \in Sides |-> [k \in Keys |-> None]]

\* A key without an entry has neither hash, and no baseline has no entries.
Entries == [Keys -> [Sides -> Hashes]]
NoEntry == [side \in Sides |-> None]
NoEntries == [k \in Keys |-> NoEntry]

ASSUME SyncAssumption ==
    /\ None \notin Values \cup Keys
    /\ \A v \in Values : Hash[v] # None
    /\ Options # {}
    /\ Options \subseteq [mode : Modes, resolution : Resolutions,
                          detect : BOOLEAN, overwrite : BOOLEAN,
                          skipUnchanged : BOOLEAN]
    /\ Starts \subseteq Contents
    /\ MaxEdits \in Nat /\ MaxRuns \in Nat

Plans == {"push", "pull", "dropSource", "dropTarget", "conflict", "keep"}

\* The phases that write, in their order.
Phases == {"push", "pull", "dropSource", "dropTarget", "conflict"}

PCs == Phases \cup
    {"idle", "done", "unsaved",
     "listSource", "listTarget", "readSource", "readTarget", "load",
     "both", "rebase", "rebaseTarget", "save",
     "copyList", "copy", "copyHas", "copyCompare", "copySet"}

Ended == pc \in {"done", "unsaved"}
Resting == pc = "idle" \/ Ended

TypeOK ==
    /\ data \in Contents
    /\ base \in Entries
    /\ pc \in PCs
    /\ opts \in Options
    /\ listed \in [Sides -> SUBSET Keys]
    /\ seen \in Contents
    /\ todo \in SUBSET Keys
    /\ used \in Entries
    /\ plan \in [Keys -> Plans]
    /\ fresh \in Entries
    /\ cur \in [key : Keys \cup {None}, value : Content, from : Sides]
    /\ start \in [data : Contents, base : Entries]
    /\ touched \in SUBSET Keys
    /\ skipped \in SUBSET Keys
    /\ edits \in 0..MaxEdits
    /\ runs \in 0..MaxRuns

NoCur == [key |-> None, value |-> None, from |-> "source"]
SomeOptions == CHOOSE o \in Options : TRUE
NoStart == [data |-> Nothing, base |-> NoEntries]
KeepAll == [k \in Keys |-> "keep"]

\* Two sides that were never synchronised.
Init ==
    /\ data \in Starts
    /\ base = NoEntries
    /\ pc = "idle"
    /\ opts = SomeOptions
    /\ listed = [side \in Sides |-> {}]
    /\ seen = Nothing
    /\ todo = {}
    /\ used = NoEntries
    /\ plan = KeepAll
    /\ fresh = NoEntries
    /\ cur = NoCur
    /\ start = NoStart
    /\ touched = {}
    /\ skipped = {}
    /\ edits = 0
    /\ runs = 0

-----------------------------------------------------------------------------
Put(side, k, v) == [data EXCEPT ![side][k] = v]
Present(side) == {k \in Keys : data[side][k] # None}
Touch(k) == touched' = touched \cup {k}

\* The users of either adapter write and delete what they like, when they like.
Edit(side, k, v) ==
    /\ edits < MaxEdits
    /\ data[side][k] # v
    /\ data' = Put(side, k, v)
    /\ IF pc = "idle" THEN UNCHANGED touched ELSE Touch(k)
    /\ skipped' = skipped \ {k}
    /\ edits' = edits + 1
    /\ UNCHANGED <<base, pc, local, start, runs>>

\* The server lets one run at a time work on a pair.
Begin(o) ==
    /\ Resting
    /\ runs < MaxRuns
    /\ opts' = o
    /\ pc' = IF o.mode \in {"sync", "merge"} THEN "listSource" ELSE "copyList"
    /\ plan' = [k \in Keys |-> IF o.mode \in {"push", "pull"} THEN o.mode ELSE "keep"]
    /\ cur' = [NoCur EXCEPT !.from = IF o.mode = "pull" THEN "target" ELSE "source"]
    /\ start' = [data |-> data, base |-> base]
    /\ touched' = {}
    /\ runs' = runs + 1
    /\ UNCHANGED <<data, base, listed, seen, todo, used, fresh, skipped, edits>>

\* The end of a run; its local variables are gone.
Finish(label) ==
    /\ pc' = label
    /\ listed' = [side \in Sides |-> {}]
    /\ seen' = Nothing
    /\ todo' = {}
    /\ used' = NoEntries
    /\ plan' = KeepAll
    /\ fresh' = NoEntries
    /\ cur' = NoCur

(* The process dies, or an adapter throws outside the try blocks: while    *)
(* keys are listed, values hashed or the new baseline computed.            *)
Abort ==
    /\ ~Resting
    /\ Finish("idle")
    /\ opts' = SomeOptions
    /\ start' = NoStart
    /\ touched' = {}
    /\ UNCHANGED <<data, base, skipped, edits, runs>>

-----------------------------------------------------------------------------
(* Keys and values of both sides.                                          *)

ListSource ==
    /\ pc = "listSource"
    /\ listed' = [listed EXCEPT !["source"] = Present("source")]
    /\ pc' = "listTarget"
    /\ UNCHANGED <<data, base, opts, seen, todo, used, plan, fresh, cur, history>>

ListTarget ==
    /\ pc = "listTarget"
    /\ listed' = [listed EXCEPT !["target"] = Present("target")]
    /\ IF opts.mode = "sync"
       THEN pc' = "readSource" /\ todo' = listed["source"] /\ UNCHANGED plan
       ELSE /\ pc' = "copyList"
            /\ plan' = [k \in Keys |->
                 IF k \in listed["source"] \ Present("target") THEN "push"
                 ELSE IF k \in Present("target") \ listed["source"] THEN "pull"
                 ELSE "keep"]
            /\ UNCHANGED todo
    /\ UNCHANGED <<data, base, opts, seen, used, fresh, cur, history>>

Read(k) ==
    /\ pc \in {"readSource", "readTarget"}
    /\ k \in todo
    /\ seen' = IF pc = "readSource"
               THEN [seen EXCEPT !["source"][k] = data["source"][k]]
               ELSE [seen EXCEPT !["target"][k] = data["target"][k]]
    /\ todo' = todo \ {k}
    /\ UNCHANGED <<data, base, pc, opts, listed, used, plan, fresh, cur, history>>

-----------------------------------------------------------------------------
(* computeSyncDiff: s and t are the hashes of the two sides, b the entry   *)
(* of the baseline.                                                        *)

\* Mutant: a deletion is propagated without a look at the surviving side.
DiffCareless(s, t, b) ==
    CASE s = t -> "keep"
      [] t = None -> IF b # NoEntry /\ opts.detect THEN "dropSource" ELSE "push"
      [] s = None -> IF b # NoEntry /\ opts.detect THEN "dropTarget" ELSE "pull"
      [] OTHER ->
           IF b = NoEntry \/ (s # b["source"] /\ t # b["target"]) THEN "conflict"
           ELSE IF s # b["source"] THEN "push"
           ELSE IF t # b["target"] THEN "pull"
           ELSE "keep"

Diff(s, t, b) ==
    LET deletable == b # NoEntry /\ opts.detect IN
    CASE s = t -> "keep"
      [] s # t /\ t = None ->
           IF ~deletable THEN "push"
           ELSE IF s = b["source"] THEN "dropSource" ELSE "conflict"
      [] s # t /\ s = None ->
           IF ~deletable THEN "pull"
           ELSE IF t = b["target"] THEN "dropTarget" ELSE "conflict"
      [] OTHER ->
           IF b = NoEntry \/ (s # b["source"] /\ t # b["target"]) THEN "conflict"
           ELSE IF s # b["source"] THEN "push"
           ELSE IF t # b["target"] THEN "pull"
           ELSE "keep"

\* A key whose two sides agree keeps the hashes that were read.
Decide(entries) ==
    /\ used' = entries
    /\ plan' = [k \in Keys |->
                  Diff(H(seen["source"][k]), H(seen["target"][k]), entries[k])]
    /\ fresh' = [k \in Keys |->
                   IF plan'[k] = "keep"
                   THEN [side \in Sides |-> H(seen[side][k])] ELSE NoEntry]
    /\ pc' = "push"
    /\ todo' = {k \in Keys : plan'[k] = "push"}

\* A baseline that cannot be read is no baseline.
Load ==
    /\ pc = "load"
    /\ \/ Decide(base) /\ UNCHANGED touched
       \/ Decide(NoEntries) /\ touched' = Keys
    /\ UNCHANGED <<data, base, opts, listed, seen, cur, start, skipped, edits, runs>>

-----------------------------------------------------------------------------
(* The writes: pushes, pulls, deletions, conflicts.                        *)

\* The winner of a conflict, or the side the others copy from.
Winner == IF pc = "push" THEN "source"
          ELSE IF pc = "pull" THEN "target"
          ELSE opts.resolution

Written(k) ==
    IF pc = "dropSource" THEN Put("source", k, None)
    ELSE IF pc = "dropTarget" THEN Put("target", k, None)
    ELSE Put(Other(Winner), k, seen[Winner][k])

ByRule == pc \in Phases /\ (pc = "conflict" => opts.resolution \in Sides)

Apply(k) ==
    /\ ByRule /\ k \in todo
    /\ pc = "conflict" => seen[Winner][k] # None
    /\ data' = Written(k)
    /\ todo' = todo \ {k}
    /\ UNCHANGED <<base, pc, opts, listed, seen, used, plan, fresh, cur, history>>

(* The error is recorded and the loop goes on; the write may have happened. *)
(* A winner that was deleted is written as undefined, whose hash throws.    *)
ApplyFails(k) ==
    /\ ByRule /\ k \in todo
    /\ data' \in {data, Written(k)}
    /\ todo' = todo \ {k}
    /\ Touch(k)
    /\ UNCHANGED <<base, pc, opts, listed, seen, used, plan, fresh, cur, start,
                   skipped, edits, runs>>

\* conflictResolution `skip', or a callback that returns null.
SkipConflict(k) ==
    /\ pc = "conflict" /\ opts.resolution \in {"skip", "callback"}
    /\ k \in todo
    /\ skipped' = IF k \in touched THEN skipped ELSE skipped \cup {k}
    /\ todo' = todo \ {k}
    /\ UNCHANGED <<data, base, pc, opts, listed, seen, used, plan, fresh, cur,
                   start, touched, edits, runs>>

\* A callback names a value and one side, or both: then the source is first.
Resolve(k) ==
    /\ pc = "conflict" /\ opts.resolution = "callback"
    /\ k \in todo
    /\ \E v \in Values :
         \/ \E side \in Sides : data' = Put(side, k, v) /\ UNCHANGED <<pc, cur>>
         \/ /\ data' = Put("source", k, v)
            /\ cur' = [cur EXCEPT !.key = k, !.value = v]
            /\ pc' = "both"
    /\ todo' = todo \ {k}
    /\ UNCHANGED <<base, opts, listed, seen, used, plan, fresh, history>>

ResolveBoth ==
    /\ pc = "both"
    /\ data' = Put("target", cur.key, cur.value)
    /\ pc' = "conflict"
    /\ cur' = NoCur
    /\ UNCHANGED <<base, opts, listed, seen, todo, used, plan, fresh, history>>

ResolveFails ==
    /\ \/ /\ pc = "conflict" /\ opts.resolution = "callback"
          /\ \E k \in todo : todo' = todo \ {k} /\ Touch(k)
       \/ pc = "both" /\ Touch(cur.key) /\ UNCHANGED todo
    /\ pc' = "conflict"
    /\ cur' = NoCur
    /\ UNCHANGED <<data, base, opts, listed, seen, used, plan, fresh, start,
                   skipped, edits, runs>>

-----------------------------------------------------------------------------
(* The new baseline: keys that were written, or might have been, are read  *)
(* again; the entries of deleted keys are gone.                            *)

\* Mutant: the hashes read at the start of the run are used for every key.
RebaseStale(k) ==
    /\ pc = "rebase"
    /\ k \in todo
    /\ fresh' = [fresh EXCEPT ![k] = [side \in Sides |-> H(seen[side][k])]]
    /\ todo' = todo \ {k}
    /\ UNCHANGED <<data, base, pc, opts, listed, seen, used, plan, cur, history>>

Rebase(k) ==
    /\ pc = "rebase"
    /\ k \in todo
    /\ fresh' = [fresh EXCEPT ![k]["source"] = H(data["source"][k])]
    /\ cur' = [cur EXCEPT !.key = k]
    /\ pc' = "rebaseTarget"
    /\ todo' = todo \ {k}
    /\ UNCHANGED <<data, base, opts, listed, seen, used, plan, history>>

RebaseTarget ==
    /\ pc = "rebaseTarget"
    /\ fresh' = [fresh EXCEPT ![cur.key]["target"] = H(data["target"][cur.key])]
    /\ pc' = "rebase"
    /\ cur' = NoCur
    /\ UNCHANGED <<data, base, opts, listed, seen, todo, used, plan, history>>

\* Mutant: the baseline is saved as one hash per key.
SaveMistyped ==
    /\ pc = "save"
    /\ base' = [k \in Keys |-> fresh[k]["source"]]
    /\ Finish("done")
    /\ UNCHANGED <<data, opts, history>>

Save ==
    /\ pc = "save"
    /\ base' = fresh
    /\ Finish("done")
    /\ UNCHANGED <<data, opts, history>>

\* The run succeeds although its baseline is lost.
SaveFails ==
    /\ pc = "save"
    /\ Finish("unsaved")
    /\ UNCHANGED <<data, base, opts, history>>

NextLoop ==
    [readSource |-> "readTarget", readTarget |-> "load",
     push |-> "pull", pull |-> "dropSource", dropSource |-> "dropTarget",
     dropTarget |-> "conflict", conflict |-> "rebase", rebase |-> "save"]

EndLoop ==
    /\ pc \in DOMAIN NextLoop
    /\ todo = {}
    /\ pc' = NextLoop[pc]
    /\ todo' = CASE pc' = "readTarget" -> listed["target"]
                 [] pc' \in Phases -> {k \in Keys : plan[k] = pc'}
                 [] pc' = "rebase" ->
                      {k \in Keys : plan[k] \in {"push", "pull", "conflict"}}
                 [] OTHER -> {}
    /\ UNCHANGED <<data, base, opts, listed, seen, used, plan, fresh, cur, history>>

-----------------------------------------------------------------------------
(* copyKeys.                                                               *)
From == cur.from
To == Other(cur.from)

CopyList ==
    /\ pc = "copyList"
    /\ todo' = {k \in Present(From) :
                  plan[k] = IF From = "source" THEN "push" ELSE "pull"}
    /\ pc' = "copy"
    /\ UNCHANGED <<data, base, opts, listed, seen, used, plan, fresh, cur, history>>

Copy(k) ==
    /\ pc = "copy"
    /\ k \in todo
    /\ todo' = todo \ {k}
    /\ IF data[From][k] = None
       THEN UNCHANGED <<pc, cur>>
       ELSE /\ cur' = [cur EXCEPT !.key = k, !.value = data[From][k]]
            /\ pc' = "copyHas"
    /\ UNCHANGED <<data, base, opts, listed, seen, used, plan, fresh, history>>

CopyHas ==
    /\ pc = "copyHas"
    /\ LET exists == data[To][cur.key] # None IN
       pc' = IF exists /\ ~opts.overwrite THEN "copy"
             ELSE IF exists /\ opts.skipUnchanged THEN "copyCompare"
             ELSE "copySet"
    /\ UNCHANGED <<data, base, local, history>>

\* valuesEqual compares the hashes.
CopyCompare ==
    /\ pc = "copyCompare"
    /\ pc' = IF H(data[To][cur.key]) = H(cur.value) THEN "copy" ELSE "copySet"
    /\ UNCHANGED <<data, base, local, history>>

CopySet ==
    /\ pc = "copySet"
    /\ data' = Put(To, cur.key, cur.value)
    /\ pc' = "copy"
    /\ UNCHANGED <<base, local, history>>

CopyFails ==
    /\ \/ /\ pc = "copy"
          /\ \E k \in todo : todo' = todo \ {k} /\ Touch(k)
          /\ UNCHANGED data
       \/ /\ pc \in {"copyHas", "copyCompare", "copySet"}
          /\ data' \in {data} \cup
                 (IF pc = "copySet" THEN {Put(To, cur.key, cur.value)} ELSE {})
          /\ Touch(cur.key)
          /\ UNCHANGED todo
    /\ pc' = "copy"
    /\ UNCHANGED <<base, opts, listed, seen, used, plan, fresh, cur, start,
                   skipped, edits, runs>>

\* The legacy merge copies the other way too.
CopyEnds ==
    /\ pc = "copy"
    /\ todo = {}
    /\ IF opts.mode = "merge" /\ From = "source"
       THEN /\ pc' = "copyList"
            /\ cur' = [NoCur EXCEPT !.from = "target"]
            /\ UNCHANGED <<listed, seen, todo, used, plan, fresh>>
       ELSE Finish("done")
    /\ UNCHANGED <<data, base, opts, history>>

-----------------------------------------------------------------------------
Run ==
    \/ ListSource \/ ListTarget \/ Load \/ EndLoop
    \/ \E k \in Keys :
         Read(k) \/ Apply(k) \/ SkipConflict(k) \/ Resolve(k) \/ Rebase(k) \/ Copy(k)
    \/ ResolveBoth \/ RebaseTarget \/ Save
    \/ CopyList \/ CopyHas \/ CopyCompare \/ CopySet \/ CopyEnds

Failures ==
    \/ \E k \in Keys : ApplyFails(k)
    \/ ResolveFails \/ SaveFails \/ CopyFails \/ Abort

Next ==
    \/ \E side \in Sides, k \in Keys, v \in Content : Edit(side, k, v)
    \/ \E o \in Options : Begin(o)
    \/ Run
    \/ Failures

Spec == Init /\ [][Next]_vars
-----------------------------------------------------------------------------
\* What a run should make of a key: the three-way merge of its source s, its
\* target t and the entry b of the last run on which both sides agreed.
Merged(o, s, t, b) ==
    LET remembered == IF ~o.detect /\ None \in {s, t} THEN NoEntry ELSE b
        changed == {side \in Sides :
                      H(IF side = "source" THEN s ELSE t) # remembered[side]}
    IN
    IF H(s) = H(t) THEN {<<s, t>>}
    ELSE CASE changed = {"source"} -> {<<s, s>>}
           [] changed = {"target"} -> {<<t, t>>}
           [] OTHER ->
                CASE o.resolution = "source" -> {<<s, s>>}
                  [] o.resolution = "target" -> {<<t, t>>}
                  [] o.resolution = "skip" -> {<<s, t>>}
                  [] o.resolution = "callback" ->
                       {<<s, t>>} \cup {<<v, t>> : v \in Values}
                         \cup {<<s, v>> : v \in Values}
                         \cup {<<v, v>> : v \in Values}

\* The outcome of a one-way copy from a value v over a value w.
Copied(o, v, w) ==
    IF v = None \/ (w # None /\ ~o.overwrite) THEN w
    ELSE IF w # None /\ o.skipUnchanged /\ H(v) = H(w) THEN w
    ELSE v

Outcomes(o, s, t, b) ==
    CASE o.mode = "sync" -> Merged(o, s, t, b)
      [] o.mode = "push" -> {<<s, Copied(o, s, t)>>}
      [] o.mode = "pull" -> {<<Copied(o, t, s), t>>}
      [] o.mode = "merge" -> {<<IF s = None THEN t ELSE s, IF t = None THEN s ELSE t>>}

Agreed(b) == b["source"] = b["target"]

\* Whatever happens to the other keys during a run (edits, failing writes, a lost
\* baseline write), a key that nobody edited and whose own writes worked ends up
\* as the three-way merge, or the copy, of what it was when the run began.
UntouchedKeysMerge ==
    Ended =>
        \A k \in Keys \ touched :
            (opts.mode = "sync" => Agreed(start.base[k])) =>
               <<data["source"][k], data["target"][k]>> \in
                   Outcomes(opts, start.data["source"][k], start.data["target"][k],
                            start.base[k])

\* After a run that saved its baseline, a key that nobody edited and whose own
\* writes worked is recorded as it is on each side.  So the next run, with the same
\* options, leaves it alone: it neither copies it again nor takes it for a conflict
\* or a deletion.  The exception is an edit against a deletion that was skipped, or
\* left to a callback that wrote one side only: that key the next run deletes.
Planned(k) == Diff(H(data["source"][k]), H(data["target"][k]), base[k])
OneSided(k) == \E side \in Sides : data[side][k] # None /\ data[Other(side)][k] = None

BaselineDescribes ==
    pc = "done" /\ opts.mode = "sync" =>
        \A k \in Keys \ touched :
            /\ \A side \in Sides : base[k][side] = H(data[side][k])
            /\ \/ Planned(k) = "keep"
               \/ /\ opts.resolution \in {"skip", "callback"} /\ OneSided(k)
                  /\ Diff(H(start.data["source"][k]), H(start.data["target"][k]),
                          start.base[k]) = "conflict"

\* A push that overwrites leaves the target's value equal to the source's, all of
\* it: it skips a write only if the two values are identical.
PushCopies ==
    Ended /\ opts.mode = "push" /\ opts.overwrite =>
        \A k \in Keys \ touched :
            data["source"][k] # None => data["target"][k] = data["source"][k]

\* A value that survived an edit-against-delete conflict because the conflict was
\* skipped is preserved until a user deletes it: later runs that skip conflicts
\* do not delete it.
SkipPreserves ==
    [][\A k \in skipped, side \in Sides :
         /\ opts.resolution = "skip" /\ edits' = edits
         /\ data[side][k] # None
         => data'[side][k] # None]_vars
=============================================================================
