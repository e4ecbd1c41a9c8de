----------------------------- MODULE SyncProofs -----------------------------
(***************************************************************************)
(* Theorems about Sync, for any keys, values, hashes, options and bounds.  *)
(*                                                                         *)
(* The invariant follows one key that no user edits and no failure hits    *)
(* since its run began (k \notin touched): what the run has read of it,    *)
(* what it decided, what it has written, and what the new baseline says.   *)
(***************************************************************************)
EXTENDS Sync, TLAPS

Listing == {"listSource", "listTarget"}
Reading == {"readSource", "readTarget", "load"}
Writing == Phases \cup {"both"}
Rebasing == {"rebase", "rebaseTarget", "save"}
Handling == {"copyHas", "copyCompare", "copySet"}
Copying == {"copyList", "copy"} \cup Handling

\* Source, target and entry of a key when the run began; what it holds now.
S(k) == start.data["source"][k]
T(k) == start.data["target"][k]
B(k) == start.base[k]
Pair(k) == <<data["source"][k], data["target"][k]>>
AsStarted(k) == data["source"][k] = S(k) /\ data["target"][k] = T(k)

(* What a label says of the run as a whole.                                 *)
Stages ==
    /\ pc \in Listing => opts.mode \in {"sync", "merge"} /\ cur.from = "source"
    /\ pc \in Reading \cup Writing \cup Rebasing => opts.mode = "sync"
    /\ pc \in Copying =>
         /\ opts.mode \in {"push", "pull", "merge"}
         /\ opts.mode = "push" => cur.from = "source"
         /\ opts.mode = "pull" => cur.from = "target"
    /\ pc = "both" => opts.resolution = "callback"
    /\ pc \in Handling \cup {"both", "rebaseTarget"} => cur.key \in Keys
    /\ pc \in Handling \cup {"both"} => cur.value \in Values
    /\ Resting \/ pc \in Listing => seen = Nothing
    /\ ~Resting => base = start.base

(* What is left to do are keys the loop is about.                           *)
Loops ==
    /\ pc \in Phases => \A k \in todo : plan[k] = pc
    /\ pc = "both" => /\ \A k \in todo \cup {cur.key} : plan[k] = "conflict"
                      /\ cur.key \notin todo
    /\ pc \in Rebasing => \A k \in todo : plan[k] \in {"push", "pull", "conflict"}
    /\ pc = "rebaseTarget" => /\ plan[cur.key] \in {"push", "pull", "conflict"}
                              /\ cur.key \notin todo
    /\ pc = "save" => todo = {}

(* The mode sync, key by key.                                               *)
ReadSoFar(k) ==
    /\ pc \in Listing \cup Reading => AsStarted(k)
    /\ pc \in Reading \cup {"listTarget"} => (k \in listed["source"] <=> S(k) # None)
    /\ pc \in Reading => (k \in listed["target"] <=> T(k) # None)
    /\ pc = "readSource" => /\ k \notin todo => seen["source"][k] = S(k)
                            /\ seen["target"][k] = None
    /\ pc = "readTarget" => /\ seen["source"][k] = S(k)
                            /\ k \notin todo => seen["target"][k] = T(k)
    /\ pc \in {"load"} \cup Writing \cup Rebasing =>
         seen["source"][k] = S(k) /\ seen["target"][k] = T(k)

\* The entry that tells of two hashes.
Entry(s, t) == [side \in Sides |-> IF side = "source" THEN s ELSE t]

Decided(k) ==
    pc \in Writing \cup Rebasing =>
        /\ plan[k] = Diff(H(S(k)), H(T(k)), B(k))
        /\ plan[k] = "keep" => fresh[k] = Entry(H(S(k)), H(T(k)))
        /\ plan[k] \in {"dropSource", "dropTarget"} => fresh[k] = NoEntry

\* The pairs a key may end up as, by its plan.
Fate(k) ==
    CASE plan[k] = "push" -> {<<S(k), S(k)>>}
      [] plan[k] = "pull" -> {<<T(k), T(k)>>}
      [] plan[k] \in {"dropSource", "dropTarget"} -> {<<None, None>>}
      [] plan[k] = "keep" -> {<<S(k), T(k)>>}
      [] plan[k] = "conflict" ->
           CASE opts.resolution = "source" -> {<<S(k), S(k)>>}
             [] opts.resolution = "target" -> {<<T(k), T(k)>>}
             [] opts.resolution = "skip" -> {<<S(k), T(k)>>}
             [] opts.resolution = "callback" ->
                  {<<S(k), T(k)>>} \cup {<<v, T(k)>> : v \in Values}
                    \cup {<<S(k), v>> : v \in Values}
                    \cup {<<v, v>> : v \in Values}

\* The phases before the one of a plan.
Before(p) ==
    CASE p = "push" -> {}
      [] p = "pull" -> {"push"}
      [] p = "dropSource" -> {"push", "pull"}
      [] p = "dropTarget" -> {"push", "pull", "dropSource"}
      [] p = "conflict" -> {"push", "pull", "dropSource", "dropTarget"}
      [] p = "keep" -> {}

Ahead(k) == pc \in Before(plan[k]) \/ (pc \in Writing /\ k \in todo)
Halfway(k) == pc = "both" /\ cur.key = k

WrittenSoFar(k) ==
    /\ pc \in Writing /\ Ahead(k) => AsStarted(k)
    /\ Halfway(k) => data["source"][k] = cur.value /\ data["target"][k] = T(k)
    /\ pc \in Writing /\ ~Ahead(k) /\ ~Halfway(k) => Pair(k) \in Fate(k)
    /\ pc \in Rebasing => Pair(k) \in Fate(k)

RebasedSoFar(k) ==
    /\ pc \in Rebasing /\ k \notin todo /\ ~(pc = "rebaseTarget" /\ cur.key = k) =>
         \A side \in Sides : fresh[k][side] = H(data[side][k])
    /\ pc = "rebaseTarget" /\ cur.key = k =>
         fresh[k]["source"] = H(data["source"][k])

(* The copies, key by key.                                                  *)
Way == IF From = "source" THEN "push" ELSE "pull"

CopyLoops ==
    /\ pc \in Copying /\ opts.mode \in {"push", "pull"} => \A k \in Keys : plan[k] = opts.mode
    /\ pc \in Copying /\ opts.mode = "merge" => \A k \in Keys : plan[k] \in {"push", "pull", "keep"}
    /\ pc \in Copying \ {"copyList"} => \A k \in todo : plan[k] = Way
    /\ pc \in Handling => plan[cur.key] = Way /\ cur.key \notin todo

\* What a copy makes of a key, by its direction.
Goal(k) ==
    CASE plan[k] = "push" -> <<S(k), Copied(opts, S(k), T(k))>>
      [] plan[k] = "pull" -> <<Copied(opts, T(k), S(k)), T(k)>>
      [] plan[k] = "keep" -> <<S(k), T(k)>>

Handled(k) == pc \in Handling /\ cur.key = k

Uncopied(k) ==
    \/ plan[k] = Way /\ (pc = "copyList" \/ k \in todo \/ Handled(k))
    \/ plan[k] = "pull" /\ From = "source"

CopiedSoFar(k) ==
    /\ pc \in Copying /\ opts.mode = "merge" =>
         /\ plan[k] = "push" <=> S(k) # None /\ T(k) = None
         /\ plan[k] = "pull" <=> S(k) = None /\ T(k) # None
    /\ pc \in Copying /\ Uncopied(k) => AsStarted(k)
    /\ pc \in Copying /\ ~Uncopied(k) => Pair(k) = Goal(k)
    /\ Handled(k) => cur.value = start.data[From][k]
    /\ Handled(k) /\ pc = "copyCompare" =>
         start.data[To][k] # None /\ opts.overwrite /\ opts.skipUnchanged
    /\ Handled(k) /\ pc = "copySet" =>
         Copied(opts, start.data[From][k], start.data[To][k]) = cur.value

KeyOK(k) ==
    /\ ReadSoFar(k)
    /\ Decided(k)
    /\ WrittenSoFar(k)
    /\ RebasedSoFar(k)
    /\ CopiedSoFar(k)

IInv ==
    /\ TypeOK
    /\ Stages
    /\ Loops
    /\ CopyLoops
    /\ \A k \in Keys \ touched : KeyOK(k)
    /\ UntouchedKeysMerge
    /\ BaselineDescribes

-----------------------------------------------------------------------------
(* Types.                                                                   *)

(* SidesAre: there are two sides, each the other's other.                   *)
LEMMA SidesAre ==
    /\ Sides = {"source", "target"}
    /\ Other("source") = "target" /\ Other("target") = "source"
    /\ \A side \in Sides : Other(side) \in Sides
BY DEF Sides, Other

(* HashTypes: a value has a hash, and only no value has none.               *)
LEMMA HashTypes ==
    /\ \A v \in Content : H(v) \in Hashes /\ (H(v) = None <=> v = None)
    /\ None \in Content /\ None \in Hashes /\ H(None) = None
    /\ None \notin Keys /\ None \notin Values
BY SyncAssumption DEF H, Hashes, Content

(* Constants: what the initial values and the end of a run assign.          *)
LEMMA Constants ==
    /\ Nothing \in Contents /\ NoEntry \in [Sides -> Hashes] /\ NoEntries \in Entries
    /\ \A side \in Sides, k \in Keys : Nothing[side][k] = None
    /\ \A side \in Sides : NoEntry[side] = None
    /\ NoCur \in [key : Keys \cup {None}, value : Content, from : Sides]
    /\ NoCur.from = "source"
    /\ SomeOptions \in Options
    /\ NoStart \in [data : Contents, base : Entries]
    /\ KeepAll \in [Keys -> Plans]
BY HashTypes, SyncAssumption
DEF Nothing, NoEntry, NoEntries, NoCur, SomeOptions, NoStart, KeepAll, Contents, Entries, Sides, Plans

(* PutTypes: a write changes one key of one side.                           *)
LEMMA PutTypes ==
    ASSUME data \in Contents, NEW side \in Sides, NEW k \in Keys, NEW v \in Content
    PROVE  /\ Put(side, k, v) \in Contents
           /\ Put(side, k, v)[side][k] = v
           /\ \A x \in Sides, n \in Keys :
                x # side \/ n # k => Put(side, k, v)[x][n] = data[x][n]
<1>1. data[side] \in [Keys -> Content] /\ data \in [Sides -> [Keys -> Content]]
  BY DEF Contents
<1>2. [data[side] EXCEPT ![k] = v] \in [Keys -> Content]
  BY <1>1
<1>3. Put(side, k, v) = [data EXCEPT ![side] = [data[side] EXCEPT ![k] = v]]
  BY DEF Put
<1>4. Put(side, k, v) \in Contents
  BY <1>1, <1>2, <1>3 DEF Contents
<1> QED BY <1>1, <1>3, <1>4

(* OptionTypes: the options of a run.                                       *)
LEMMA OptionTypes ==
    ASSUME NEW o \in Options
    PROVE  o.mode \in Modes /\ o.resolution \in Resolutions
BY SyncAssumption DEF Modes, Resolutions

(* InitTypes: the initial states are typed.                                 *)
LEMMA InitTypes == Init => TypeOK
BY Constants, SyncAssumption DEF Init, TypeOK, PCs, Phases, KeepAll, Plans

(* FinishTypes: the end of a run leaves nothing of its local variables.     *)
LEMMA FinishTypes ==
    ASSUME NEW label \in {"idle", "done", "unsaved"}, Finish(label)
    PROVE  /\ pc' = label /\ pc' \in PCs
           /\ listed' \in [Sides -> SUBSET Keys] /\ seen' \in Contents /\ seen' = Nothing
           /\ todo' = {} /\ used' \in Entries /\ plan' \in [Keys -> Plans]
           /\ fresh' \in Entries
           /\ cur' \in [key : Keys \cup {None}, value : Content, from : Sides]
BY Constants DEF Finish, PCs

(* UserTypes: edits, begins, ends and aborts keep the types.                *)
LEMMA EditTypes ==
    ASSUME TypeOK, NEW side \in Sides, NEW k \in Keys, NEW v \in Content, Edit(side, k, v)
    PROVE  TypeOK'
<1>1. data' \in Contents
  BY PutTypes DEF Edit, TypeOK
<1>2. edits' \in 0..MaxEdits
  BY SyncAssumption DEF Edit, TypeOK
<1>3. touched' \in SUBSET Keys /\ skipped' \in SUBSET Keys
  BY DEF Edit, TypeOK, Touch
<1> QED BY <1>1, <1>2, <1>3 DEF Edit, TypeOK, local

LEMMA BeginTypes ==
    ASSUME TypeOK, NEW o \in Options, Begin(o)
    PROVE  TypeOK'
<1>1. plan' \in [Keys -> Plans]
  BY DEF Begin, Plans
<1>2. cur' \in [key : Keys \cup {None}, value : Content, from : Sides]
  BY Constants, SidesAre DEF Begin
<1>3. start' \in [data : Contents, base : Entries]
  BY DEF Begin, TypeOK
<1>4. runs' \in 0..MaxRuns
  BY SyncAssumption DEF Begin, TypeOK
<1>5. pc' \in PCs
  BY DEF Begin, PCs
<1> QED BY <1>1, <1>2, <1>3, <1>4, <1>5 DEF Begin, TypeOK

LEMMA AbortTypes == TypeOK /\ Abort => TypeOK'
BY FinishTypes, Constants DEF Abort, TypeOK

(* ListTypes: so do the listings and the readings.                          *)
LEMMA ListTypes ==
    ASSUME TypeOK, ListSource \/ ListTarget
    PROVE  TypeOK'
<1>1. \A side \in Sides : Present(side) \in SUBSET Keys
  BY DEF Present
<1>2. CASE ListSource
  <2>1. listed' \in [Sides -> SUBSET Keys]
    BY <1>1, <1>2, SidesAre DEF ListSource, TypeOK
  <2> QED BY <1>2, <2>1 DEF ListSource, TypeOK, history, PCs
<1>3. CASE ListTarget
  <2>1. listed' \in [Sides -> SUBSET Keys]
    BY <1>1, <1>3, SidesAre DEF ListTarget, TypeOK
  <2>2. plan' \in [Keys -> Plans] /\ todo' \in SUBSET Keys
    BY <1>3, SidesAre DEF ListTarget, TypeOK, Plans
  <2>3. pc' \in PCs
    BY <1>3 DEF ListTarget, PCs
  <2> QED BY <1>3, <2>1, <2>2, <2>3 DEF ListTarget, TypeOK, history
<1> QED BY <1>2, <1>3

LEMMA ReadTypes ==
    ASSUME TypeOK, NEW k \in Keys, Read(k)
    PROVE  /\ TypeOK'
           /\ \A side \in Sides, n \in Keys :
                seen'[side][n] = IF n = k /\ side = (IF pc = "readSource" THEN "source" ELSE "target")
                                 THEN data[side][n] ELSE seen[side][n]
<1> DEFINE side == IF pc = "readSource" THEN "source" ELSE "target"
<1>1. side \in Sides /\ data[side][k] \in Content /\ seen \in [Sides -> [Keys -> Content]]
  BY DEF TypeOK, Contents, Sides
<1>2. seen' = [seen EXCEPT ![side][k] = data[side][k]]
  BY DEF Read
<1> HIDE DEF side
<1>3. /\ seen' \in Contents
      /\ \A x \in Sides, n \in Keys :
           seen'[x][n] = IF n = k /\ x = side THEN data[x][n] ELSE seen[x][n]
  BY <1>1, <1>2 DEF Contents
<1>4. TypeOK'
  BY <1>3 DEF Read, TypeOK, history
<1> QED BY <1>3, <1>4 DEF side

(* DiffTypes: computeSyncDiff decides on a plan.                            *)
LEMMA DiffTypes ==
    ASSUME NEW s, NEW t, NEW b
    PROVE  Diff(s, t, b) \in Plans
BY DEF Diff, Plans

LEMMA LoadTypes ==
    ASSUME TypeOK, Load
    PROVE  TypeOK'
<1>1. PICK entries \in {base, NoEntries} : Decide(entries)
  BY DEF Load
<1>2. entries \in Entries
  BY Constants DEF TypeOK
<1>3. plan' \in [Keys -> Plans]
  BY <1>1, DiffTypes DEF Decide
<1>4. \A side \in Sides, k \in Keys : H(seen[side][k]) \in Hashes
  BY HashTypes DEF TypeOK, Contents
<1>5. fresh' \in Entries
  BY <1>1, <1>4, Constants DEF Decide, Entries
<1>6. todo' \in SUBSET Keys /\ pc' \in PCs /\ touched' \in SUBSET Keys /\ used' \in Entries
  BY <1>1, <1>2 DEF Decide, PCs, Phases, Load, TypeOK
<1> QED BY <1>3, <1>5, <1>6 DEF Load, TypeOK

(* WrittenIsPut: what the loops of the phases write, phase by phase.        *)
LEMMA WrittenIsPut ==
    ASSUME TypeOK, NEW k \in Keys, ByRule
    PROVE  /\ pc = "push" \/ (pc = "conflict" /\ opts.resolution = "source") =>
                Written(k) = Put("target", k, seen["source"][k])
           /\ pc = "pull" \/ (pc = "conflict" /\ opts.resolution = "target") =>
                Written(k) = Put("source", k, seen["target"][k])
           /\ pc = "dropSource" => Written(k) = Put("source", k, None)
           /\ pc = "dropTarget" => Written(k) = Put("target", k, None)
           /\ pc = "conflict" => Winner = opts.resolution /\ opts.resolution \in Sides
           /\ \E side \in Sides, v \in Content : Written(k) = Put(side, k, v)
<1>1. \A side \in Sides : seen[side][k] \in Content
  BY DEF TypeOK, Contents
<1>2. CASE pc = "push"
  BY <1>1, <1>2, SidesAre DEF Written, Winner
<1>3. CASE pc = "pull"
  BY <1>1, <1>3, SidesAre DEF Written, Winner
<1>4. CASE pc \in {"dropSource", "dropTarget"}
  BY <1>4, HashTypes, SidesAre DEF Written
<1>5. CASE pc = "conflict"
  <2>1. opts.resolution \in {"source", "target"} /\ Winner = opts.resolution
    BY <1>5, SidesAre DEF ByRule, Winner
  <2> QED BY <1>1, <1>5, <2>1, SidesAre DEF Written
<1> QED BY <1>2, <1>3, <1>4, <1>5 DEF ByRule, Phases

(* WriteTypes: the loops that write keep the types.                         *)
LEMMA WriteTypes ==
    ASSUME TypeOK, NEW k \in Keys, Apply(k) \/ ApplyFails(k) \/ SkipConflict(k)
    PROVE  TypeOK'
<1>1. CASE Apply(k)
  <2>1. Written(k) \in Contents
    BY <1>1, WrittenIsPut, PutTypes DEF Apply, TypeOK
  <2> QED BY <1>1, <2>1 DEF Apply, TypeOK, history
<1>2. CASE ApplyFails(k)
  <2>1. Written(k) \in Contents
    BY <1>2, WrittenIsPut, PutTypes DEF ApplyFails, TypeOK
  <2> QED BY <1>2, <2>1 DEF ApplyFails, TypeOK, Touch
<1>3. CASE SkipConflict(k)
  BY <1>3 DEF SkipConflict, TypeOK
<1> QED BY <1>1, <1>2, <1>3

(* ResolveSteps: a resolution by the callback.                              *)
LEMMA ResolveSteps ==
    ASSUME TypeOK, NEW k \in Keys, Resolve(k)
    PROVE  \E v \in Values :
              \/ /\ \E side \in Sides : data' = Put(side, k, v)
                 /\ UNCHANGED <<pc, cur>>
              \/ /\ data' = Put("source", k, v) /\ pc' = "both"
                 /\ cur'.key = k /\ cur'.value = v /\ cur'.from = cur.from
                 /\ cur' \in [key : Keys \cup {None}, value : Content, from : Sides]
BY DEF Resolve, TypeOK, Content

LEMMA ResolveTypes ==
    ASSUME TypeOK, Stages,
           (\E k \in Keys : Resolve(k)) \/ ResolveBoth \/ ResolveFails
    PROVE  TypeOK'
<1>1. ASSUME NEW k \in Keys, Resolve(k) PROVE TypeOK'
  <2>1. PICK v \in Values :
              \/ /\ \E side \in Sides : data' = Put(side, k, v)
                 /\ UNCHANGED <<pc, cur>>
              \/ /\ data' = Put("source", k, v) /\ pc' = "both"
                 /\ cur' \in [key : Keys \cup {None}, value : Content, from : Sides]
    BY <1>1, ResolveSteps
  <2>2. data' \in Contents
    BY <2>1, PutTypes, SidesAre DEF TypeOK, Content
  <2> QED BY <1>1, <2>1, <2>2 DEF Resolve, TypeOK, history, PCs
<1>2. CASE ResolveBoth
  <2>1. data' \in Contents
    BY <1>2, PutTypes, SidesAre DEF ResolveBoth, TypeOK, Stages, Handling
  <2> QED BY <1>2, <2>1, Constants DEF ResolveBoth, TypeOK, history, PCs, Phases
<1>3. CASE ResolveFails
  <2>1. touched' \in SUBSET Keys /\ todo' \in SUBSET Keys
    BY <1>3 DEF ResolveFails, TypeOK, Touch, Stages, Handling
  <2> QED BY <1>3, <2>1, Constants DEF ResolveFails, TypeOK, PCs, Phases
<1> QED BY <1>1, <1>2, <1>3

(* EntryTypes: one hash of one entry.                                       *)
LEMMA EntryTypes ==
    ASSUME fresh \in Entries, NEW side \in Sides, NEW k \in Keys, NEW h \in Hashes,
           fresh' = [fresh EXCEPT ![k][side] = h]
    PROVE  /\ fresh' \in Entries
           /\ \A x \in Sides, n \in Keys :
                fresh'[n][x] = IF n = k /\ x = side THEN h ELSE fresh[n][x]
           /\ \A n \in Keys : n # k => fresh'[n] = fresh[n]
<1>1. fresh[k] \in [Sides -> Hashes] /\ fresh \in [Keys -> [Sides -> Hashes]]
  BY DEF Entries
<1>2. [fresh[k] EXCEPT ![side] = h] \in [Sides -> Hashes]
  BY <1>1
<1>3. fresh' = [fresh EXCEPT ![k] = [fresh[k] EXCEPT ![side] = h]]
  OBVIOUS
<1>4. fresh' \in Entries
  BY <1>1, <1>2, <1>3 DEF Entries
<1> QED BY <1>1, <1>3, <1>4

(* RebaseSteps: the new baseline reads a key again, source first.           *)
LEMMA RebaseSteps ==
    ASSUME TypeOK, NEW k \in Keys, Rebase(k)
    PROVE  /\ TypeOK'
           /\ \A x \in Sides, n \in Keys :
                fresh'[n][x] = IF n = k /\ x = "source" THEN H(data["source"][k]) ELSE fresh[n][x]
           /\ \A n \in Keys : n # k => fresh'[n] = fresh[n]
           /\ cur'.key = k /\ cur'.from = cur.from /\ cur'.value = cur.value
<1>1. H(data["source"][k]) \in Hashes
  BY HashTypes, SidesAre DEF TypeOK, Contents
<1>2. fresh' = [fresh EXCEPT ![k]["source"] = H(data["source"][k])]
  BY DEF Rebase
<1>3. /\ fresh' \in Entries
      /\ \A x \in Sides, n \in Keys :
           fresh'[n][x] = IF n = k /\ x = "source" THEN H(data["source"][k]) ELSE fresh[n][x]
      /\ \A n \in Keys : n # k => fresh'[n] = fresh[n]
  BY <1>1, <1>2, EntryTypes, SidesAre DEF TypeOK
<1>4. /\ cur' \in [key : Keys \cup {None}, value : Content, from : Sides]
      /\ cur'.key = k /\ cur'.from = cur.from /\ cur'.value = cur.value
  BY DEF Rebase, TypeOK
<1>5. TypeOK'
  BY <1>3, <1>4 DEF Rebase, TypeOK, history, PCs
<1> QED BY <1>3, <1>4, <1>5

LEMMA RebaseTargetSteps ==
    ASSUME TypeOK, Stages, RebaseTarget
    PROVE  /\ TypeOK'
           /\ cur.key \in Keys
           /\ \A x \in Sides, n \in Keys :
                fresh'[n][x] = IF n = cur.key /\ x = "target" THEN H(data["target"][n]) ELSE fresh[n][x]
           /\ \A n \in Keys : n # cur.key => fresh'[n] = fresh[n]
<1>1. cur.key \in Keys
  BY DEF RebaseTarget, Stages
<1>2. H(data["target"][cur.key]) \in Hashes
  BY <1>1, HashTypes, SidesAre DEF TypeOK, Contents
<1>3. fresh' = [fresh EXCEPT ![cur.key]["target"] = H(data["target"][cur.key])]
  BY DEF RebaseTarget
<1>4. /\ fresh' \in Entries
      /\ \A x \in Sides, n \in Keys :
           fresh'[n][x] = IF n = cur.key /\ x = "target"
                          THEN H(data["target"][cur.key]) ELSE fresh[n][x]
      /\ \A n \in Keys : n # cur.key => fresh'[n] = fresh[n]
  BY <1>1, <1>2, <1>3, EntryTypes, SidesAre DEF TypeOK
<1>5. TypeOK'
  BY <1>4, Constants DEF RebaseTarget, TypeOK, history, PCs
<1> QED BY <1>1, <1>4, <1>5

LEMMA SaveTypes ==
    ASSUME TypeOK, Save \/ SaveFails
    PROVE  TypeOK'
BY FinishTypes, Constants DEF Save, SaveFails, TypeOK, history

LEMMA EndLoopTypes == TypeOK /\ EndLoop => TypeOK'
<1> SUFFICES ASSUME TypeOK, EndLoop PROVE TypeOK'
  OBVIOUS
<1>1. pc' \in PCs
  BY DEF EndLoop, NextLoop, PCs, Phases
<1>2. listed["target"] \in SUBSET Keys
  BY SidesAre DEF TypeOK
<1>3. todo' \in SUBSET Keys
  BY <1>2 DEF EndLoop
<1> QED BY <1>1, <1>3 DEF EndLoop, TypeOK, history

(* CopyTypes: the copies keep the types.                                    *)
LEMMA CopyTypes ==
    ASSUME TypeOK, Stages,
           \/ CopyList \/ CopyHas \/ CopyCompare \/ CopySet \/ CopyEnds \/ CopyFails
           \/ \E k \in Keys : Copy(k)
    PROVE  TypeOK'
<1>0. From \in Sides /\ To \in Sides
  BY SidesAre DEF From, To, TypeOK
<1>1. CASE CopyList
  BY <1>1 DEF CopyList, TypeOK, history, PCs, Present
<1>2. CASE CopyHas
  BY <1>2 DEF CopyHas, TypeOK, history, local, PCs
<1>3. CASE CopyCompare
  BY <1>3 DEF CopyCompare, TypeOK, history, local, PCs
<1>4. ASSUME pc \in Handling
      PROVE  cur.key \in Keys /\ Put(To, cur.key, cur.value) \in Contents
  BY <1>0, <1>4, PutTypes DEF Stages, TypeOK
<1>5. CASE CopySet
  BY <1>4, <1>5 DEF CopySet, TypeOK, history, local, PCs, Handling
<1>6. CASE CopyEnds
  <2>1. CASE Finish("done")
    BY <1>6, <2>1, FinishTypes DEF CopyEnds, TypeOK, history
  <2>2. CASE /\ pc' = "copyList" /\ cur' = [NoCur EXCEPT !.from = "target"]
             /\ UNCHANGED <<listed, seen, todo, used, plan, fresh>>
    <3>1. cur' \in [key : Keys \cup {None}, value : Content, from : Sides]
      BY <2>2, Constants, SidesAre
    <3> QED BY <1>6, <2>2, <3>1 DEF CopyEnds, TypeOK, history, PCs
  <2> QED BY <1>6, <2>1, <2>2 DEF CopyEnds
<1>7. CASE CopyFails
  <2>1. data' \in Contents /\ todo' \in SUBSET Keys /\ touched' \in SUBSET Keys
    <3>1. CASE pc = "copy"
      BY <1>7, <3>1 DEF CopyFails, TypeOK, Touch
    <3>2. CASE pc # "copy"
      BY <1>4, <1>7, <3>2 DEF CopyFails, TypeOK, Touch, Handling
    <3> QED BY <3>1, <3>2
  <2> QED BY <1>7, <2>1 DEF CopyFails, TypeOK, PCs
<1>8. ASSUME NEW k \in Keys, Copy(k) PROVE TypeOK'
  <2>1. cur' \in [key : Keys \cup {None}, value : Content, from : Sides]
    <3>1. data[From][k] \in Content
      BY <1>0 DEF TypeOK, Contents
    <3>2. cur' = cur \/ cur' = [[cur EXCEPT !.key = k] EXCEPT !.value = data[From][k]]
      BY <1>8 DEF Copy
    <3> QED BY <3>1, <3>2 DEF TypeOK
  <2> QED BY <1>8, <2>1 DEF Copy, TypeOK, history, PCs
<1> QED BY <1>1, <1>2, <1>3, <1>5, <1>6, <1>7, <1>8

(* NextTypes: every step keeps the types.                                   *)
LEMMA NextTypes ==
    ASSUME TypeOK, Stages, [Next]_vars
    PROVE  TypeOK'
<1>1. CASE UNCHANGED vars
  BY <1>1 DEF vars, local, history, TypeOK
<1>2. CASE Run
  BY <1>2, ListTypes, ReadTypes, LoadTypes, EndLoopTypes, WriteTypes, ResolveTypes, RebaseSteps,
     RebaseTargetSteps, SaveTypes, CopyTypes DEF Run
<1>3. CASE Failures
  BY <1>3, WriteTypes, ResolveTypes, SaveTypes, CopyTypes, AbortTypes DEF Failures
<1> QED BY <1>1, <1>2, <1>3, EditTypes, BeginTypes DEF Next

-----------------------------------------------------------------------------
(* computeSyncDiff against the three-way merge.                             *)

(* DiffDrops: a side is cleared only where the other has no value.          *)
LEMMA DiffDrops ==
    ASSUME NEW s, NEW t, NEW b
    PROVE  /\ Diff(s, t, b) = "dropSource" => t = None
           /\ Diff(s, t, b) = "dropTarget" => s = None
           /\ s = t => Diff(s, t, b) = "keep"
BY DEF Diff

(* DiffOutcomes: for two hashes that differ and an entry whose sides agree  *)
(* on h, the plan is given by which sides changed; with r the hash that     *)
(* counts, which is none when deletions are not detected and one is met.    *)
LEMMA DiffOutcomes ==
    ASSUME NEW s \in Hashes, NEW t \in Hashes, NEW h \in Hashes, NEW b,
           b = [side \in Sides |-> h], s # t, opts.detect \in BOOLEAN
    PROVE  LET r == IF ~opts.detect /\ None \in {s, t} THEN None ELSE h
               p == Diff(s, t, b)
           IN  /\ s # r /\ t = r => p = (IF s = None THEN "dropTarget" ELSE "push")
               /\ s = r /\ t # r => p = (IF t = None THEN "dropSource" ELSE "pull")
               /\ s # r /\ t # r => p = "conflict"
<1>1. b["source"] = h /\ b["target"] = h /\ (b = NoEntry <=> h = None)
  BY SidesAre DEF NoEntry
<1>2. CASE t = None
  BY <1>1, <1>2 DEF Diff
<1>3. CASE s = None
  BY <1>1, <1>3 DEF Diff
<1>4. CASE s # None /\ t # None
  BY <1>1, <1>4 DEF Diff
<1> QED BY <1>2, <1>3, <1>4

(* FateIsMerge: what the plans do is the three-way merge, if the two sides  *)
(* of the entry agree.                                                      *)
LEMMA FateIsMerge ==
    ASSUME TypeOK, NEW k \in Keys, Agreed(B(k)),
           plan[k] = Diff(H(S(k)), H(T(k)), B(k))
    PROVE  Fate(k) \subseteq Merged(opts, S(k), T(k), B(k))
<1> DEFINE s == S(k)
           t == T(k)
           b == B(k)
           h == b["source"]
           r == IF ~opts.detect /\ None \in {s, t} THEN None ELSE h
           remembered == IF ~opts.detect /\ None \in {s, t} THEN NoEntry ELSE b
           changed == {side \in Sides :
                         H(IF side = "source" THEN s ELSE t) # remembered[side]}
<1>1. s \in Content /\ t \in Content /\ b \in [Sides -> Hashes]
  BY SidesAre DEF TypeOK, Contents, Entries, S, T, B
<1>2. H(s) \in Hashes /\ H(t) \in Hashes /\ (H(s) = None <=> s = None) /\ (H(t) = None <=> t = None)
  BY <1>1, HashTypes
<1>3. h \in Hashes /\ b["source"] = h /\ b["target"] = h
  BY <1>1, SidesAre DEF Agreed
<1>4. b = [side \in Sides |-> h]
  BY <1>1, <1>3, SidesAre
<1>5. opts.detect \in BOOLEAN /\ opts.resolution \in Resolutions
  BY SyncAssumption DEF TypeOK
<1>6. plan[k] = Diff(H(s), H(t), b)
  OBVIOUS
<1>7. (None \in {s, t}) = (None \in {H(s), H(t)})
  BY <1>2
<1>8. H(s) # H(t) =>
         /\ H(s) # r /\ H(t) = r => plan[k] = (IF H(s) = None THEN "dropTarget" ELSE "push")
         /\ H(s) = r /\ H(t) # r => plan[k] = (IF H(t) = None THEN "dropSource" ELSE "pull")
         /\ H(s) # r /\ H(t) # r => plan[k] = "conflict"
  BY <1>2, <1>3, <1>4, <1>5, <1>6, <1>7, DiffOutcomes
<1>9. /\ remembered["source"] = r /\ remembered["target"] = r
  BY <1>3, Constants, SidesAre
<1>10. ("source" \in changed <=> H(s) # r) /\ ("target" \in changed <=> H(t) # r)
  BY <1>9, SidesAre
<1>11. /\ changed = {"source"} <=> H(s) # r /\ H(t) = r
       /\ changed = {"target"} <=> H(s) = r /\ H(t) # r
  <2>1. changed \subseteq {"source", "target"}
    BY SidesAre
  <2>2. ASSUME NEW C \in SUBSET {"source", "target"}
        PROVE  /\ C = {"source"} <=> "source" \in C /\ "target" \notin C
               /\ C = {"target"} <=> "source" \notin C /\ "target" \in C
    OBVIOUS
  <2> HIDE DEF changed, r
  <2>3. /\ changed = {"source"} <=> "source" \in changed /\ "target" \notin changed
        /\ changed = {"target"} <=> "source" \notin changed /\ "target" \in changed
    BY <2>1, <2>2
  <2> QED BY <1>10, <2>3
<1>12. Fate(k) = CASE plan[k] = "push" -> {<<s, s>>}
                   [] plan[k] = "pull" -> {<<t, t>>}
                   [] plan[k] \in {"dropSource", "dropTarget"} -> {<<None, None>>}
                   [] plan[k] = "keep" -> {<<s, t>>}
                   [] plan[k] = "conflict" ->
                        CASE opts.resolution = "source" -> {<<s, s>>}
                          [] opts.resolution = "target" -> {<<t, t>>}
                          [] opts.resolution = "skip" -> {<<s, t>>}
                          [] opts.resolution = "callback" ->
                               {<<s, t>>} \cup {<<v, t>> : v \in Values}
                                 \cup {<<s, v>> : v \in Values}
                                 \cup {<<v, v>> : v \in Values}
  BY DEF Fate
<1>13. Merged(opts, s, t, b) =
         IF H(s) = H(t) THEN {<<s, t>>}
         ELSE CASE changed = {"source"} -> {<<s, s>>}
                [] changed = {"target"} -> {<<t, t>>}
                [] OTHER ->
                     CASE opts.resolution = "source" -> {<<s, s>>}
                       [] opts.resolution = "target" -> {<<t, t>>}
                       [] opts.resolution = "skip" -> {<<s, t>>}
                       [] opts.resolution = "callback" ->
                            {<<s, t>>} \cup {<<v, t>> : v \in Values}
                              \cup {<<s, v>> : v \in Values}
                              \cup {<<v, v>> : v \in Values}
  BY DEF Merged
<1>14. H(s) = H(t) => plan[k] = "keep"
  BY <1>6, DiffDrops
<1>15. H(s) # H(t) => ~(H(s) = r /\ H(t) = r)
  OBVIOUS
<1>16. Fate(k) \subseteq Merged(opts, s, t, b)
  <2> HIDE DEF s, t, b, h, r, remembered, changed
  <2>1. CASE H(s) = H(t)
    BY <2>1, <1>12, <1>13, <1>14
  <2>2. CASE H(s) # H(t) /\ H(s) # r /\ H(t) = r
    BY <2>2, <1>2, <1>8, <1>11, <1>12, <1>13
  <2>3. CASE H(s) # H(t) /\ H(s) = r /\ H(t) # r
    BY <2>3, <1>2, <1>8, <1>11, <1>12, <1>13
  <2>4. CASE H(s) # H(t) /\ H(s) # r /\ H(t) # r
    <3>1. plan[k] = "conflict" /\ changed # {"source"} /\ changed # {"target"}
      BY <2>4, <1>8, <1>11
    <3> QED BY <2>4, <3>1, <1>5, <1>12, <1>13 DEF Resolutions
  <2> QED BY <2>1, <2>2, <2>3, <2>4, <1>15
<1> QED BY <1>16

(* GoalIsCopy: what the copies do is what their options promise.            *)
LEMMA GoalIsCopy ==
    ASSUME NEW k \in Keys, pc \in Copying, Stages, CopyLoops, CopiedSoFar(k)
    PROVE  Goal(k) \in Outcomes(opts, S(k), T(k), B(k))
<1>1. opts.mode \in {"push", "pull", "merge"}
  BY DEF Stages
<1>2. CASE opts.mode = "push"
  BY <1>2 DEF CopyLoops, Goal, Outcomes
<1>3. CASE opts.mode = "pull"
  BY <1>3 DEF CopyLoops, Goal, Outcomes
<1>4. CASE opts.mode = "merge"
  <2>1. /\ plan[k] \in {"push", "pull", "keep"}
        /\ plan[k] = "push" <=> S(k) # None /\ T(k) = None
        /\ plan[k] = "pull" <=> S(k) = None /\ T(k) # None
    BY <1>4 DEF CopyLoops, CopiedSoFar
  <2>2. Outcomes(opts, S(k), T(k), B(k)) =
          {<<IF S(k) = None THEN T(k) ELSE S(k), IF T(k) = None THEN S(k) ELSE T(k)>>}
    BY <1>4 DEF Outcomes
  <2>3. CASE plan[k] = "push"
    BY <2>1, <2>2, <2>3 DEF Goal, Copied
  <2>4. CASE plan[k] = "pull"
    BY <2>1, <2>2, <2>4 DEF Goal, Copied
  <2>5. CASE plan[k] = "keep"
    BY <2>1, <2>2, <2>5 DEF Goal
  <2> QED BY <2>1, <2>3, <2>4, <2>5
<1> QED BY <1>1, <1>2, <1>3, <1>4

-----------------------------------------------------------------------------
(* Frames: what a step that leaves a key alone leaves of its invariant.     *)

Rest == Stages /\ Loops /\ CopyLoops /\ UntouchedKeysMerge /\ BaselineDescribes

(* Promises: plans and pairs depend on the start, the options and the plan. *)
LEMMA Promises ==
    ASSUME NEW k \in Keys, UNCHANGED <<start, opts, plan>>
    PROVE  /\ S(k)' = S(k) /\ T(k)' = T(k) /\ B(k)' = B(k)
           /\ Fate(k)' = Fate(k) /\ Goal(k)' = Goal(k)
           /\ Diff(H(S(k)), H(T(k)), B(k))' = Diff(H(S(k)), H(T(k)), B(k))
<1>1. S(k)' = S(k) /\ T(k)' = T(k) /\ B(k)' = B(k)
  BY DEF S, T, B
<1>2. Fate(k)' = Fate(k)
  BY <1>1 DEF Fate
<1>3. Goal(k)' = Goal(k)
  BY <1>1 DEF Goal
<1>4. Diff(H(S(k)), H(T(k)), B(k))' = Diff(H(S(k)), H(T(k)), B(k))
  BY <1>1 DEF Diff
<1> QED BY <1>1, <1>2, <1>3, <1>4

(* Elsewhere: a step that neither moves the run nor touches the key.        *)
LEMMA Elsewhere ==
    ASSUME NEW k \in Keys, KeyOK(k), UNCHANGED <<pc, opts, listed, plan, cur, start>>,
           \A side \in Sides : data'[side][k] = data[side][k] /\ seen'[side][k] = seen[side][k],
           fresh'[k] = fresh[k],
           k \in todo' <=> k \in todo
    PROVE  KeyOK(k)'
<1>1. /\ S(k)' = S(k) /\ T(k)' = T(k) /\ B(k)' = B(k)
      /\ Fate(k)' = Fate(k) /\ Goal(k)' = Goal(k)
      /\ Diff(H(S(k)), H(T(k)), B(k))' = Diff(H(S(k)), H(T(k)), B(k))
  BY Promises
<1>2. /\ data'["source"][k] = data["source"][k] /\ data'["target"][k] = data["target"][k]
      /\ seen'["source"][k] = seen["source"][k] /\ seen'["target"][k] = seen["target"][k]
  BY SidesAre
<1>3. ReadSoFar(k)'
  BY <1>1, <1>2 DEF KeyOK, ReadSoFar, AsStarted
<1>4. Decided(k)'
  <2>1. H(S(k))' = H(S(k)) /\ H(T(k))' = H(T(k))
    BY <1>1
  <2> QED BY <1>1, <2>1 DEF KeyOK, Decided
<1>5. WrittenSoFar(k)'
  <2>1. Ahead(k)' = Ahead(k) /\ Halfway(k)' = Halfway(k) /\ Pair(k)' = Pair(k)
        /\ AsStarted(k)' = AsStarted(k)
    BY <1>1, <1>2 DEF Ahead, Halfway, Pair, AsStarted
  <2> QED BY <1>1, <1>2, <2>1 DEF KeyOK, WrittenSoFar
<1>6. RebasedSoFar(k)'
  BY <1>2 DEF KeyOK, RebasedSoFar
<1>7. CopiedSoFar(k)'
  <2>1. Uncopied(k)' = Uncopied(k) /\ Handled(k)' = Handled(k) /\ Pair(k)' = Pair(k)
        /\ AsStarted(k)' = AsStarted(k) /\ From' = From /\ To' = To
    BY <1>1, <1>2 DEF Uncopied, Handled, Pair, AsStarted, Way, From, To
  <2> QED BY <1>1, <1>2, <2>1 DEF KeyOK, CopiedSoFar
<1> QED BY <1>3, <1>4, <1>5, <1>6, <1>7 DEF KeyOK

(* LeftAlone: what BaselineDescribes says of one key.                       *)
LeftAlone(k, entry) ==
    \/ Diff(H(data["source"][k]), H(data["target"][k]), entry) = "keep"
    \/ /\ opts.resolution \in {"skip", "callback"} /\ OneSided(k)
       /\ Diff(H(S(k)), H(T(k)), B(k)) = "conflict"

(* NotEnded: a run that goes on promises nothing yet.                       *)
LEMMA NotEnded ==
    ASSUME pc' \notin {"done", "unsaved"}
    PROVE  UntouchedKeysMerge' /\ BaselineDescribes'
BY DEF UntouchedKeysMerge, BaselineDescribes, Ended

(* Idle: a key of a run that is not going has nothing to keep.              *)
LEMMA Idle ==
    ASSUME pc' \in {"idle", "done", "unsaved"}, seen' = Nothing
    PROVE  Stages' /\ Loops' /\ CopyLoops' /\ \A k \in Keys : KeyOK(k)'
<1>1. pc' \notin Listing \cup Reading \cup Writing \cup Rebasing \cup Copying
  BY DEF Listing, Reading, Writing, Rebasing, Copying, Handling, Phases
<1>2. Stages'
  BY <1>1 DEF Stages, Resting, Ended, Copying, Writing, Rebasing
<1>3. Loops' /\ CopyLoops'
  BY <1>1 DEF Loops, CopyLoops, Copying, Writing, Rebasing
<1>4. \A k \in Keys : ReadSoFar(k)' /\ Decided(k)' /\ RebasedSoFar(k)'
  BY <1>1 DEF ReadSoFar, Decided, RebasedSoFar, Listing, Reading, Rebasing
<1>5. \A k \in Keys : WrittenSoFar(k)' /\ CopiedSoFar(k)'
  BY <1>1 DEF WrittenSoFar, Halfway, CopiedSoFar, Handled, Writing, Rebasing, Copying
<1> QED BY <1>2, <1>3, <1>4, <1>5 DEF KeyOK

\* What each step has to show besides the types.
Kept ==
    /\ Stages /\ Loops /\ CopyLoops
    /\ \A k \in Keys \ touched : KeyOK(k)
    /\ UntouchedKeysMerge /\ BaselineDescribes

-----------------------------------------------------------------------------
(* Edits, begins and aborts.                                                *)

(* A write on one side of one key leaves the other keys alone.              *)
LEMMA OtherKeys ==
    ASSUME TypeOK, NEW side \in Sides, NEW k \in Keys, NEW v \in Content,
           data' = Put(side, k, v), NEW n \in Keys, n # k
    PROVE  \A x \in Sides : data'[x][n] = data[x][n]
BY PutTypes DEF TypeOK

(* EditKeeps: an edit touches its key and no other.                         *)
LEMMA EditKeeps ==
    ASSUME IInv, NEW side \in Sides, NEW k \in Keys, NEW v \in Content, Edit(side, k, v)
    PROVE  Kept'
<1>1. TypeOK /\ Kept
  BY DEF IInv, Kept
<1>2. Stages' /\ Loops' /\ CopyLoops'
  BY <1>1 DEF Kept, Edit, local, Stages, Loops, CopyLoops, Resting, Ended, Way, From
<1>3. \A n \in Keys \ {k}, x \in Sides : data'[x][n] = data[x][n]
  BY <1>1, OtherKeys DEF Edit
<1>4. CASE pc = "idle"
  <2>1. seen' = Nothing /\ pc' = "idle"
    BY <1>1, <1>4 DEF Kept, Stages, Resting, Edit, local
  <2> QED BY <1>2, <2>1, Idle, NotEnded DEF Kept
<1>5. CASE pc # "idle"
  <2>1. touched' = touched \cup {k}
    BY <1>5 DEF Edit, Touch
  <2>2. ASSUME NEW n \in Keys \ touched' PROVE KeyOK(n)'
    <3>1. n \in Keys /\ n # k /\ KeyOK(n)
      BY <1>1, <2>1 DEF Kept
    <3> QED BY <1>3, <3>1, Elsewhere DEF Edit, local
  <2>3. UntouchedKeysMerge'
    BY <1>1, <1>3, <2>1, SidesAre DEF Kept, UntouchedKeysMerge, Edit, local, Ended
  <2>4. BaselineDescribes'
    <3> SUFFICES ASSUME pc = "done", opts.mode = "sync", NEW n \in Keys \ touched'
                 PROVE  /\ \A x \in Sides : (base[n][x] = H(data[x][n]))'
                        /\ LeftAlone(n, base[n])'
      BY DEF BaselineDescribes, LeftAlone, Planned, S, T, B, Edit, local
    <3>1. n \in Keys \ touched /\ n # k
      BY <2>1
    <3>2. \A x \in Sides : data'[x][n] = data[x][n]
      BY <1>3, <3>1
    <3>3. UNCHANGED <<base, opts>> /\ start' = start
      BY DEF Edit, local, Touch
    <3>4. LeftAlone(n, base[n])' <=> LeftAlone(n, base[n])
      BY <3>2, <3>3, SidesAre DEF LeftAlone, OneSided, Diff, S, T, B
    <3>5. /\ \A x \in Sides : base[n][x] = H(data[x][n])
          /\ LeftAlone(n, base[n])
      BY <1>1, <3>1 DEF Kept, BaselineDescribes, LeftAlone, Planned, S, T, B
    <3> QED BY <3>2, <3>3, <3>4, <3>5
  <2> QED BY <1>2, <2>2, <2>3, <2>4 DEF Kept
<1> QED BY <1>4, <1>5

(* BeginKeeps: a run starts from what there is.                             *)
LEMMA BeginKeeps ==
    ASSUME IInv, NEW o \in Options, Begin(o)
    PROVE  Kept'
<1>1. TypeOK /\ Stages
  BY DEF IInv
<1>2. o.mode \in Modes
  BY OptionTypes
<1>3. seen' = Nothing /\ base' = start'.base /\ start'.data = data /\ data' = data
  BY <1>1 DEF Begin, Stages
<1>4. cur'.from = (IF o.mode = "pull" THEN "target" ELSE "source")
  BY Constants DEF Begin
<1>5. CASE o.mode \in {"sync", "merge"}
  <2>1. pc' = "listSource" /\ opts'.mode \in {"sync", "merge"} /\ cur'.from = "source"
    BY <1>4, <1>5 DEF Begin
  <2>2. Stages'
    BY <1>3, <2>1 DEF Stages, Listing, Reading, Writing, Rebasing, Handling, Copying, Phases
  <2>3. Loops' /\ CopyLoops'
    BY <2>1 DEF Loops, CopyLoops, Phases, Rebasing, Handling, Copying
  <2>4. \A k \in Keys : AsStarted(k)'
    BY <1>3 DEF AsStarted, S, T
  <2>5. \A k \in Keys : KeyOK(k)'
    BY <2>1, <2>4 DEF KeyOK, ReadSoFar, Decided, WrittenSoFar, Halfway, RebasedSoFar, CopiedSoFar,
       Handled, Listing, Reading, Writing, Rebasing, Handling, Copying, Phases
  <2> QED BY <2>1, <2>2, <2>3, <2>5, NotEnded DEF Kept
<1>6. CASE o.mode \in {"push", "pull"}
  <2>1. /\ pc' = "copyList" /\ opts'.mode = o.mode
        /\ plan' = [k \in Keys |-> o.mode]
    BY <1>6 DEF Begin
  <2>2. Stages'
    BY <1>3, <1>4, <1>6, <2>1
    DEF Stages, Listing, Reading, Writing, Rebasing, Handling, Copying, Phases, Resting, Ended
  <2>3. Loops' /\ CopyLoops'
    BY <1>6, <2>1 DEF Loops, CopyLoops, Phases, Rebasing, Handling, Copying
  <2>4. \A k \in Keys : AsStarted(k)'
    BY <1>3 DEF AsStarted, S, T
  <2>5. \A k \in Keys : plan'[k] = Way'
    BY <1>4, <1>6, <2>1 DEF Way, From
  <2>6. \A k \in Keys : Uncopied(k)'
    BY <2>1, <2>5 DEF Uncopied
  <2>7. \A k \in Keys : CopiedSoFar(k)'
    BY <1>6, <2>1, <2>4, <2>6 DEF CopiedSoFar, Handled, Handling
  <2>8. \A k \in Keys : KeyOK(k)'
    BY <2>1, <2>7 DEF KeyOK, ReadSoFar, Decided, WrittenSoFar, Halfway, RebasedSoFar,
       Listing, Reading, Writing, Rebasing, Phases
  <2> QED BY <2>1, <2>2, <2>3, <2>8, NotEnded DEF Kept
<1> QED BY <1>2, <1>5, <1>6 DEF Modes

(* AbortKeeps: a run that breaks off promises nothing.                      *)
LEMMA AbortKeeps ==
    ASSUME IInv, Abort
    PROVE  Kept'
<1>1. pc' = "idle" /\ seen' = Nothing
  BY DEF Abort, Finish
<1> QED BY <1>1, Idle, NotEnded DEF Kept

-----------------------------------------------------------------------------
(* Lists and reads.                                                         *)

LEMMA ListSourceKeeps ==
    ASSUME IInv, ListSource
    PROVE  Kept'
<1>1. TypeOK /\ Kept
  BY DEF IInv, Kept
<1>2. pc = "listSource" /\ pc' = "listTarget" /\ UNCHANGED <<data, base, opts, seen, plan, cur, start, touched>>
  BY DEF ListSource, history
<1>3. listed'["source"] = Present("source")
  BY <1>1, SidesAre DEF ListSource, TypeOK
<1>4. Stages'
  BY <1>1, <1>2 DEF Kept, Stages, Listing, Reading, Writing, Rebasing, Handling, Copying, Phases,
     Resting, Ended
<1>5. Loops' /\ CopyLoops'
  BY <1>2 DEF Loops, CopyLoops, Phases, Rebasing, Handling, Copying
<1>6. ASSUME NEW k \in Keys \ touched' PROVE KeyOK(k)'
  <2>1. AsStarted(k)
    BY <1>1, <1>2 DEF Kept, KeyOK, ReadSoFar, Listing
  <2>2. AsStarted(k)'
    BY <1>2, <2>1 DEF AsStarted, S, T
  <2>3. k \in listed'["source"] <=> S(k)' # None
    BY <1>2, <1>3, <2>1 DEF AsStarted, S, Present
  <2> QED BY <1>2, <2>2, <2>3 DEF KeyOK, ReadSoFar, Decided, WrittenSoFar, Halfway, RebasedSoFar,
       CopiedSoFar, Handled, Listing, Reading, Writing, Rebasing, Handling, Copying, Phases
<1> QED BY <1>2, <1>4, <1>5, <1>6, NotEnded DEF Kept

LEMMA ListTargetKeeps ==
    ASSUME IInv, ListTarget
    PROVE  Kept'
<1>1. TypeOK /\ Kept
  BY DEF IInv, Kept
<1>2. pc = "listTarget" /\ UNCHANGED <<data, base, opts, seen, cur, start, touched>>
  BY DEF ListTarget, history
<1>3. /\ listed'["target"] = Present("target")
      /\ listed'["source"] = listed["source"]
  BY <1>1, SidesAre DEF ListTarget, TypeOK
<1>4. opts.mode \in {"sync", "merge"} /\ cur.from = "source" /\ seen = Nothing /\ base = start.base
  BY <1>1, <1>2 DEF Kept, Stages, Listing, Resting, Ended
<1>5. ASSUME NEW k \in Keys \ touched
      PROVE  /\ AsStarted(k) /\ AsStarted(k)' /\ S(k)' = S(k) /\ T(k)' = T(k)
             /\ k \in listed["source"] <=> S(k) # None
             /\ k \in Present("target") <=> T(k) # None
  <2>1. AsStarted(k) /\ (k \in listed["source"] <=> S(k) # None)
    BY <1>1, <1>2, <1>5 DEF Kept, KeyOK, ReadSoFar, Listing
  <2> QED BY <1>2, <2>1 DEF AsStarted, S, T, Present
<1>6. CASE opts.mode = "sync"
  <2>1. pc' = "readSource" /\ todo' = listed["source"]
    BY <1>6 DEF ListTarget
  <2>2. Stages'
    BY <1>2, <1>4, <1>6, <2>1 DEF Stages, Listing, Reading, Writing, Rebasing, Handling, Copying, Phases,
       Resting, Ended
  <2>3. Loops' /\ CopyLoops'
    BY <2>1 DEF Loops, CopyLoops, Phases, Rebasing, Handling, Copying
  <2>4. ASSUME NEW k \in Keys \ touched' PROVE KeyOK(k)'
    <3>1. seen'["source"][k] = None /\ seen'["target"][k] = None
      BY <1>2, <1>4, Constants, SidesAre
    <3>2. ReadSoFar(k)'
      BY <1>2, <1>3, <1>5, <2>1, <3>1 DEF ReadSoFar, Listing, Reading, Writing, Rebasing, Phases
    <3> QED BY <2>1, <3>2 DEF KeyOK, Decided, WrittenSoFar, Halfway, RebasedSoFar,
       CopiedSoFar, Handled, Listing, Writing, Rebasing, Handling, Copying, Phases
  <2> QED BY <2>1, <2>2, <2>3, <2>4, NotEnded DEF Kept
<1>7. CASE opts.mode = "merge"
  <2>1. /\ pc' = "copyList"
        /\ plan' = [k \in Keys |->
                      IF k \in listed["source"] \ Present("target") THEN "push"
                      ELSE IF k \in Present("target") \ listed["source"] THEN "pull"
                      ELSE "keep"]
    BY <1>7 DEF ListTarget
  <2>2. Stages'
    BY <1>2, <1>4, <1>7, <2>1 DEF Stages, Listing, Reading, Writing, Rebasing, Handling, Copying, Phases,
       Resting, Ended
  <2>3. Loops' /\ CopyLoops'
    BY <1>2, <1>7, <2>1 DEF Loops, CopyLoops, Phases, Rebasing, Handling, Copying
  <2>4. ASSUME NEW k \in Keys \ touched' PROVE KeyOK(k)'
    <3>1. /\ plan'[k] = "push" <=> S(k)' # None /\ T(k)' = None
          /\ plan'[k] = "pull" <=> S(k)' = None /\ T(k)' # None
          /\ plan'[k] \in {"push", "pull", "keep"}
      BY <1>2, <1>5, <2>1
    <3>2. AsStarted(k)' /\ ~Handled(k)'
      BY <1>2, <1>5, <2>1 DEF Handled, Handling
    <3>3. ASSUME ~Uncopied(k)' PROVE Pair(k)' = Goal(k)'
      <4>1. plan'[k] = "keep"
        BY <1>2, <1>4, <2>1, <3>1, <3>3 DEF Uncopied, Way, From
      <4> QED BY <3>2, <4>1 DEF AsStarted, Pair, Goal
    <3>4. CopiedSoFar(k)'
      BY <2>1, <3>1, <3>2, <3>3 DEF CopiedSoFar
    <3> QED BY <2>1, <3>4 DEF KeyOK, ReadSoFar, Decided, WrittenSoFar, Halfway, RebasedSoFar,
       Listing, Reading, Writing, Rebasing, Phases
  <2> QED BY <2>1, <2>2, <2>3, <2>4, NotEnded DEF Kept
<1> QED BY <1>4, <1>6, <1>7

LEMMA ReadKeeps ==
    ASSUME IInv, NEW k \in Keys, Read(k)
    PROVE  Kept'
<1>1. TypeOK /\ Kept
  BY DEF IInv, Kept
<1>2. /\ pc \in {"readSource", "readTarget"} /\ k \in todo /\ todo' = todo \ {k}
      /\ UNCHANGED <<data, base, pc, opts, listed, plan, fresh, cur, start, touched>>
  BY DEF Read, history
<1>3. \A side \in Sides, n \in Keys :
         seen'[side][n] = IF n = k /\ side = (IF pc = "readSource" THEN "source" ELSE "target")
                          THEN data[side][n] ELSE seen[side][n]
  BY <1>1, ReadTypes
<1>4. Stages'
  BY <1>1, <1>2 DEF Kept, Stages, Listing, Reading, Resting, Ended, Handling, Copying, Writing, Rebasing, Phases
<1>5. Loops' /\ CopyLoops'
  BY <1>2 DEF Loops, CopyLoops, Phases, Rebasing, Handling, Copying
<1>6. ASSUME NEW n \in Keys \ touched' PROVE KeyOK(n)'
  <2>1. KeyOK(n)
    BY <1>1, <1>2 DEF Kept
  <2>2. CASE n # k
    <3>1. \A side \in Sides : data'[side][n] = data[side][n] /\ seen'[side][n] = seen[side][n]
      BY <1>2, <1>3, <2>2
    <3> QED BY <1>2, <2>1, <2>2, <3>1, Elsewhere
  <2>3. CASE n = k
    <3>1. /\ AsStarted(k) /\ AsStarted(k)' /\ S(k)' = S(k) /\ T(k)' = T(k)
      BY <1>2, <2>1, <2>3 DEF KeyOK, ReadSoFar, Reading, AsStarted, S, T
    <3>2. /\ pc = "readSource" => seen'["source"][k] = S(k) /\ seen'["target"][k] = seen["target"][k]
          /\ pc = "readTarget" => seen'["target"][k] = T(k) /\ seen'["source"][k] = seen["source"][k]
      BY <1>3, <3>1, SidesAre DEF AsStarted
    <3>3. ReadSoFar(k)'
      BY <1>2, <2>1, <2>3, <3>1, <3>2
      DEF KeyOK, ReadSoFar, Listing, Reading, Writing, Rebasing, Phases
    <3> QED BY <1>2, <2>3, <3>3 DEF KeyOK, Decided, WrittenSoFar, Halfway, RebasedSoFar,
       CopiedSoFar, Handled, Listing, Writing, Rebasing, Handling, Copying, Phases
  <2> QED BY <2>2, <2>3
<1> QED BY <1>2, <1>4, <1>5, <1>6, NotEnded DEF Kept

(* LoadKeeps: the plan is made from the values and entries of the start.    *)
LEMMA LoadKeeps ==
    ASSUME IInv, Load
    PROVE  Kept'
<1>1. TypeOK /\ Kept
  BY DEF IInv, Kept
<1>2. /\ pc = "load" /\ pc' = "push"
      /\ UNCHANGED <<data, base, opts, listed, seen, cur, start>>
      /\ todo' = {k \in Keys : plan'[k] = "push"}
  BY DEF Load, Decide
<1>3. Stages'
  BY <1>1, <1>2 DEF Kept, Stages, Listing, Reading, Writing, Rebasing, Handling, Copying, Phases,
     Resting, Ended
<1>4. Loops' /\ CopyLoops'
  BY <1>2 DEF Loops, CopyLoops, Phases, Rebasing, Handling, Copying
<1>5. CASE Decide(NoEntries) /\ touched' = Keys
  <2>1. \A k \in Keys \ touched' : KeyOK(k)'
    BY <1>5
  <2> QED BY <1>2, <1>3, <1>4, <2>1, NotEnded DEF Kept
<1>6. CASE Decide(base) /\ UNCHANGED touched
  <2>1. base = start.base
    BY <1>1, <1>2 DEF Kept, Stages, Resting, Ended
  <2>2. ASSUME NEW k \in Keys \ touched' PROVE KeyOK(k)'
    <3>1. /\ seen["source"][k] = S(k) /\ seen["target"][k] = T(k)
          /\ S(k)' = S(k) /\ T(k)' = T(k) /\ B(k)' = B(k) /\ AsStarted(k) /\ AsStarted(k)'
      BY <1>1, <1>2, <1>6 DEF Kept, KeyOK, ReadSoFar, S, T, B, AsStarted, Reading
    <3>2. plan'[k] = Diff(H(S(k)), H(T(k)), B(k))
      BY <1>6, <2>1, <3>1 DEF Decide, B
    <3>3. Diff(H(S(k)), H(T(k)), B(k)) = Diff(H(S(k)), H(T(k)), B(k))'
      BY <1>2, <3>1 DEF Diff
    <3>4. fresh'[k] = IF plan'[k] = "keep" THEN [side \in Sides |-> H(seen[side][k])] ELSE NoEntry
      BY <1>6 DEF Decide
    <3>5. [side \in Sides |-> H(seen[side][k])] = Entry(H(S(k)), H(T(k)))
      BY <3>1, SidesAre DEF Entry
    <3>6. H(S(k))' = H(S(k)) /\ H(T(k))' = H(T(k))
      BY <3>1
    <3>7. Decided(k)'
      BY <3>1, <3>2, <3>3, <3>4, <3>5, <3>6 DEF Decided, Entry
    <3>8. ReadSoFar(k)'
      BY <1>2, <3>1 DEF ReadSoFar, Listing, Reading, Writing, Rebasing, Phases
    <3>9. plan'[k] \in Plans
      BY <3>2, DiffTypes
    <3>10. ASSUME ~Ahead(k)' PROVE Pair(k)' \in Fate(k)'
      <4>1. plan'[k] = "keep"
        BY <1>2, <3>9, <3>10 DEF Ahead, Before, Plans, Writing, Phases
      <4> QED BY <3>1, <4>1 DEF Fate, Pair, AsStarted
    <3>11. WrittenSoFar(k)'
      BY <1>2, <3>1, <3>10 DEF WrittenSoFar, Halfway, Rebasing
    <3> QED BY <1>2, <3>7, <3>8, <3>11 DEF KeyOK, RebasedSoFar,
       CopiedSoFar, Handled, Rebasing, Handling, Copying
  <2> QED BY <1>2, <1>3, <1>4, <2>2, NotEnded DEF Kept
<1> QED BY <1>5, <1>6 DEF Load

-----------------------------------------------------------------------------
(* The writes.                                                              *)

(* PhaseKeeps: what a phase does to one key it was about, if that key ends  *)
(* up as its plan says or has been touched.                                 *)
LEMMA PhaseKeeps ==
    ASSUME IInv, NEW k \in todo, pc \in Phases, todo' = todo \ {k},
           UNCHANGED <<base, pc, opts, listed, seen, plan, fresh, cur, start>>,
           \A n \in Keys \ {k}, x \in Sides : data'[x][n] = data[x][n],
           touched \subseteq touched',
           k \notin touched' => Pair(k)' \in Fate(k)
    PROVE  Kept'
<1>1. TypeOK /\ Kept /\ k \in Keys
  BY DEF IInv, Kept, TypeOK
<1>2. Stages'
  BY <1>1 DEF Kept, Stages, Resting, Ended, Phases, Listing, Reading, Writing, Rebasing,
     Handling, Copying
<1>3. Loops' /\ CopyLoops'
  BY <1>1 DEF Kept, Loops, CopyLoops, Phases, Rebasing, Handling, Copying
<1>4. ASSUME NEW n \in Keys \ touched' PROVE KeyOK(n)'
  <2>1. KeyOK(n)
    BY <1>1 DEF Kept
  <2>2. CASE n # k
    BY <2>1, <2>2, Elsewhere
  <2>3. CASE n = k
    <3>1. /\ S(k)' = S(k) /\ T(k)' = T(k) /\ B(k)' = B(k) /\ Fate(k)' = Fate(k)
          /\ Diff(H(S(k)), H(T(k)), B(k))' = Diff(H(S(k)), H(T(k)), B(k))
      BY <1>1, Promises
    <3>2. ReadSoFar(k)'
      BY <2>1, <2>3, <3>1 DEF KeyOK, ReadSoFar, Phases, Listing, Reading, Writing, Rebasing
    <3>3. H(S(k))' = H(S(k)) /\ H(T(k))' = H(T(k))
      BY <3>1
    <3>4. Decided(k)'
      BY <2>1, <2>3, <3>1, <3>3 DEF KeyOK, Decided
    <3>5. plan[k] = pc
      BY <1>1 DEF Kept, Loops
    <3>6. ~Ahead(k)'
      BY <3>5 DEF Ahead, Before, Phases
    <3>7. WrittenSoFar(k)'
      BY <2>3, <3>1, <3>6 DEF WrittenSoFar, Halfway, Rebasing, Phases
    <3> QED BY <2>3, <3>2, <3>4, <3>7 DEF KeyOK, RebasedSoFar, CopiedSoFar, Handled,
         Phases, Rebasing, Handling, Copying
  <2> QED BY <2>2, <2>3
<1> QED BY <1>2, <1>3, <1>4, NotEnded DEF Kept, Phases

(* PhaseState: what is known of a key a phase has still to do.              *)
LEMMA PhaseState ==
    ASSUME IInv, NEW k \in todo, pc \in Phases, k \notin touched
    PROVE  /\ k \in Keys /\ plan[k] = pc /\ AsStarted(k)
           /\ seen["source"][k] = S(k) /\ seen["target"][k] = T(k)
           /\ plan[k] = Diff(H(S(k)), H(T(k)), B(k))
<1>1. k \in Keys /\ KeyOK(k) /\ plan[k] = pc
  BY DEF IInv, TypeOK, Loops
<1>2. Ahead(k) /\ pc \in Writing
  BY DEF Ahead, Writing
<1> QED BY <1>1, <1>2 DEF KeyOK, WrittenSoFar, ReadSoFar, Decided

LEMMA ApplyKeeps ==
    ASSUME IInv, NEW k \in Keys, Apply(k)
    PROVE  Kept'
<1>1. TypeOK
  BY DEF IInv
<1>2. /\ pc \in Phases /\ k \in todo /\ todo' = todo \ {k} /\ ByRule
      /\ UNCHANGED <<base, pc, opts, listed, seen, plan, fresh, cur, start, touched>>
      /\ data' = Written(k)
  BY DEF Apply, ByRule, history
<1>3. \A n \in Keys \ {k}, x \in Sides : data'[x][n] = data[x][n]
  BY <1>1, <1>2, WrittenIsPut, OtherKeys
<1>4. ASSUME k \notin touched' PROVE Pair(k)' \in Fate(k)
  <2>1. /\ plan[k] = pc /\ data["source"][k] = S(k) /\ data["target"][k] = T(k)
        /\ seen["source"][k] = S(k) /\ seen["target"][k] = T(k)
        /\ plan[k] = Diff(H(S(k)), H(T(k)), B(k))
    BY <1>2, <1>4, PhaseState DEF AsStarted
  <2>2. S(k) \in Content /\ T(k) \in Content
    BY <1>1, SidesAre DEF TypeOK, Contents, S, T
  <2>3. data \in Contents
    BY <1>1 DEF TypeOK
  <2>4. CASE pc = "push" \/ (pc = "conflict" /\ opts.resolution = "source")
    <3>1. data' = Put("target", k, S(k))
      BY <1>1, <1>2, <2>1, <2>4, WrittenIsPut
    <3>2. Pair(k)' = <<S(k), S(k)>>
      BY <2>1, <2>2, <2>3, <3>1, PutTypes, SidesAre DEF Pair
    <3> QED BY <2>1, <2>4, <3>2 DEF Fate
  <2>5. CASE pc = "pull" \/ (pc = "conflict" /\ opts.resolution = "target")
    <3>1. data' = Put("source", k, T(k))
      BY <1>1, <1>2, <2>1, <2>5, WrittenIsPut
    <3>2. Pair(k)' = <<T(k), T(k)>>
      BY <2>1, <2>2, <2>3, <3>1, PutTypes, SidesAre DEF Pair
    <3> QED BY <2>1, <2>5, <3>2 DEF Fate
  <2>6. CASE pc = "dropSource"
    <3>1. data' = Put("source", k, None) /\ T(k) = None
      <4>1. H(T(k)) = None
        BY <2>1, <2>6, DiffDrops
      <4> QED BY <1>1, <1>2, <2>2, <2>6, <4>1, WrittenIsPut, HashTypes
    <3>2. Pair(k)' = <<None, None>>
      BY <2>1, <2>3, <3>1, PutTypes, HashTypes, SidesAre DEF Pair
    <3> QED BY <2>1, <2>6, <3>2 DEF Fate
  <2>7. CASE pc = "dropTarget"
    <3>1. data' = Put("target", k, None) /\ S(k) = None
      <4>1. H(S(k)) = None
        BY <2>1, <2>7, DiffDrops
      <4> QED BY <1>1, <1>2, <2>2, <2>7, <4>1, WrittenIsPut, HashTypes
    <3>2. Pair(k)' = <<None, None>>
      BY <2>1, <2>3, <3>1, PutTypes, HashTypes, SidesAre DEF Pair
    <3> QED BY <2>1, <2>7, <3>2 DEF Fate
  <2>8. pc = "conflict" => opts.resolution \in {"source", "target"}
    BY <1>2, SidesAre DEF ByRule
  <2> QED BY <1>2, <2>4, <2>5, <2>6, <2>7, <2>8 DEF Phases
<1> QED BY <1>2, <1>3, <1>4, PhaseKeeps

LEMMA ApplyFailsKeeps ==
    ASSUME IInv, NEW k \in Keys, ApplyFails(k)
    PROVE  Kept'
<1>1. TypeOK
  BY DEF IInv
<1>2. /\ pc \in Phases /\ k \in todo /\ todo' = todo \ {k} /\ ByRule
      /\ UNCHANGED <<base, pc, opts, listed, seen, plan, fresh, cur, start>>
      /\ touched' = touched \cup {k}
  BY DEF ApplyFails, ByRule, Touch
<1>3. \A n \in Keys \ {k}, x \in Sides : data'[x][n] = data[x][n]
  BY <1>1, <1>2, WrittenIsPut, OtherKeys DEF ApplyFails
<1> QED BY <1>2, <1>3, PhaseKeeps

LEMMA SkipConflictKeeps ==
    ASSUME IInv, NEW k \in Keys, SkipConflict(k)
    PROVE  Kept'
<1>1. /\ pc = "conflict" /\ k \in todo /\ todo' = todo \ {k} /\ UNCHANGED <<data, touched>>
      /\ UNCHANGED <<base, pc, opts, listed, seen, plan, fresh, cur, start>>
      /\ opts.resolution \in {"skip", "callback"}
  BY DEF SkipConflict
<1>2. ASSUME k \notin touched' PROVE Pair(k)' \in Fate(k)
  <2>1. plan[k] = "conflict" /\ AsStarted(k)
    BY <1>1, <1>2, PhaseState DEF Phases
  <2>2. Pair(k)' = <<S(k), T(k)>>
    BY <1>1, <2>1 DEF Pair, AsStarted
  <2> QED BY <1>1, <2>1, <2>2 DEF Fate
<1> QED BY <1>1, <1>2, PhaseKeeps DEF Phases

(* ConflictElsewhere: the two steps of a resolution pass the other keys by. *)
LEMMA ConflictElsewhere ==
    ASSUME NEW n \in Keys, KeyOK(n), pc \in {"conflict", "both"}, pc' \in {"conflict", "both"},
           ~Halfway(n), ~Halfway(n)',
           UNCHANGED <<opts, listed, seen, plan, fresh, start>>,
           \A side \in Sides : data'[side][n] = data[side][n],
           n \in todo' <=> n \in todo
    PROVE  KeyOK(n)'
<1>1. /\ S(n)' = S(n) /\ T(n)' = T(n) /\ B(n)' = B(n) /\ Fate(n)' = Fate(n)
      /\ Diff(H(S(n)), H(T(n)), B(n))' = Diff(H(S(n)), H(T(n)), B(n))
  BY Promises
<1>2. ReadSoFar(n)'
  BY <1>1 DEF KeyOK, ReadSoFar, Phases, Listing, Reading, Writing, Rebasing
<1>3. H(S(n))' = H(S(n)) /\ H(T(n))' = H(T(n))
  BY <1>1
<1>4. Decided(n)'
  BY <1>1, <1>3 DEF KeyOK, Decided, Writing, Rebasing, Phases
<1>5. \A p : {"conflict", "both"} \cap Before(p) = {} \/ p \notin Plans
  BY DEF Before, Plans
<1>6. Ahead(n)' = Ahead(n) \/ plan[n] \notin Plans
  BY <1>5 DEF Ahead, Writing, Phases
<1>7. CASE plan[n] \in Plans
  <2>1. Pair(n)' = Pair(n) /\ AsStarted(n)' = AsStarted(n)
    BY <1>1, SidesAre DEF Pair, AsStarted
  <2>2. WrittenSoFar(n)'
    BY <1>1, <1>6, <1>7, <2>1 DEF KeyOK, WrittenSoFar, Writing, Rebasing, Phases
  <2> QED BY <1>2, <1>4, <2>2 DEF KeyOK, RebasedSoFar, CopiedSoFar, Handled,
         Rebasing, Handling, Copying
<1>8. plan[n] = Diff(H(S(n)), H(T(n)), B(n))
  BY DEF KeyOK, Decided, Writing, Phases
<1> QED BY <1>7, <1>8, DiffTypes

LEMMA ResolveKeeps ==
    ASSUME IInv, NEW k \in Keys, Resolve(k)
    PROVE  Kept'
<1>1. TypeOK /\ Kept
  BY DEF IInv, Kept
<1>2. /\ pc = "conflict" /\ opts.resolution = "callback" /\ k \in todo /\ todo' = todo \ {k}
      /\ UNCHANGED <<base, opts, listed, seen, plan, fresh, start, touched>>
  BY DEF Resolve, history
<1>3. PICK v \in Values :
          \/ /\ \E side \in Sides : data' = Put(side, k, v)
             /\ UNCHANGED <<pc, cur>>
          \/ /\ data' = Put("source", k, v) /\ pc' = "both"
             /\ cur'.key = k /\ cur'.value = v /\ cur'.from = cur.from
  BY <1>1, ResolveSteps
<1>4. v \in Content /\ data \in Contents
  BY <1>1 DEF Content, TypeOK
<1>5. \A n \in Keys \ {k}, x \in Sides : data'[x][n] = data[x][n]
  BY <1>1, <1>3, <1>4, OtherKeys, SidesAre
<1>6. CASE UNCHANGED <<pc, cur>> /\ \E side \in Sides : data' = Put(side, k, v)
  <2>1. ASSUME k \notin touched' PROVE Pair(k)' \in Fate(k)
    <3>1. plan[k] = "conflict" /\ data["source"][k] = S(k) /\ data["target"][k] = T(k)
      BY <1>2, <2>1, PhaseState DEF Phases, AsStarted
    <3>2. Pair(k)' \in {<<v, T(k)>>, <<S(k), v>>}
      BY <1>4, <1>6, <3>1, PutTypes, SidesAre DEF Pair
    <3> QED BY <1>2, <3>1, <3>2 DEF Fate
  <2> QED BY <1>2, <1>5, <1>6, <2>1, PhaseKeeps DEF Phases
<1>7. CASE /\ data' = Put("source", k, v) /\ pc' = "both"
           /\ cur'.key = k /\ cur'.value = v
  <2>1. Stages'
    BY <1>1, <1>2, <1>7 DEF Kept, Stages, Resting, Ended, Phases, Listing, Reading, Writing, Rebasing,
       Handling, Copying
  <2>2. Loops' /\ CopyLoops'
    BY <1>1, <1>2, <1>7 DEF Kept, Loops, CopyLoops, Phases, Rebasing, Handling, Copying
  <2>3. ASSUME NEW n \in Keys \ touched' PROVE KeyOK(n)'
    <3>1. KeyOK(n)
      BY <1>1, <1>2 DEF Kept
    <3>2. CASE n # k
      <4>1. ~Halfway(n) /\ ~Halfway(n)'
        BY <1>2, <1>7, <3>2 DEF Halfway
      <4> QED BY <1>2, <1>5, <1>7, <3>1, <3>2, <4>1, ConflictElsewhere
    <3>3. CASE n = k
      <4>1. /\ plan[k] = "conflict" /\ data["source"][k] = S(k) /\ data["target"][k] = T(k)
            /\ seen["source"][k] = S(k) /\ seen["target"][k] = T(k)
        BY <1>2, <3>3, PhaseState DEF Phases, AsStarted
      <4>2. /\ S(k)' = S(k) /\ T(k)' = T(k) /\ B(k)' = B(k)
            /\ Diff(H(S(k)), H(T(k)), B(k))' = Diff(H(S(k)), H(T(k)), B(k))
        BY <1>2, Promises
      <4>3. ReadSoFar(k)'
        BY <1>2, <1>7, <4>1, <4>2 DEF ReadSoFar, Listing, Reading, Rebasing
      <4>4. H(S(k))' = H(S(k)) /\ H(T(k))' = H(T(k))
        BY <4>2
      <4>5. Decided(k)'
        BY <1>2, <3>1, <3>3, <4>2, <4>4 DEF KeyOK, Decided, Writing, Phases
      <4>6. data'["source"][k] = v /\ data'["target"][k] = T(k)
        BY <1>4, <1>7, <4>1, PutTypes, SidesAre
      <4>7. ~Ahead(k)' /\ Halfway(k)'
        BY <1>2, <1>7, <4>1 DEF Ahead, Before, Halfway
      <4>8. WrittenSoFar(k)'
        BY <1>7, <4>2, <4>6, <4>7 DEF WrittenSoFar, Rebasing
      <4> QED BY <1>7, <3>3, <4>3, <4>5, <4>8 DEF KeyOK, RebasedSoFar, CopiedSoFar, Handled,
             Rebasing, Handling, Copying
    <3> QED BY <3>2, <3>3
  <2> QED BY <1>7, <2>1, <2>2, <2>3, NotEnded DEF Kept
<1> QED BY <1>3, <1>6, <1>7

LEMMA ResolveBothKeeps ==
    ASSUME IInv, ResolveBoth
    PROVE  Kept'
<1>1. TypeOK /\ Kept
  BY DEF IInv, Kept
<1>2. /\ pc = "both" /\ pc' = "conflict" /\ cur' = NoCur
      /\ data' = Put("target", cur.key, cur.value)
      /\ UNCHANGED <<base, opts, listed, seen, todo, plan, fresh, start, touched>>
  BY DEF ResolveBoth, history
<1>3. /\ cur.key \in Keys /\ cur.value \in Values /\ cur.value \in Content
      /\ opts.resolution = "callback" /\ opts.mode = "sync"
      /\ plan[cur.key] = "conflict" /\ cur.key \notin todo
  BY <1>1, <1>2 DEF Kept, Stages, Loops, Handling, Writing, Content
<1>4. \A n \in Keys \ {cur.key}, x \in Sides : data'[x][n] = data[x][n]
  BY <1>1, <1>2, <1>3, OtherKeys, SidesAre
<1>5. Stages'
  BY <1>1, <1>2, <1>3 DEF Kept, Stages, Resting, Ended, Phases, Listing, Reading, Writing, Rebasing,
     Handling, Copying
<1>6. Loops' /\ CopyLoops'
  BY <1>1, <1>2 DEF Kept, Loops, CopyLoops, Phases, Rebasing, Handling, Copying
<1>7. ASSUME NEW n \in Keys \ touched' PROVE KeyOK(n)'
  <2>1. KeyOK(n)
    BY <1>1, <1>2 DEF Kept
  <2>2. CASE n # cur.key
    <3>1. ~Halfway(n) /\ ~Halfway(n)'
      BY <1>2, <2>2 DEF Halfway
    <3> QED BY <1>2, <1>4, <2>1, <2>2, <3>1, ConflictElsewhere
  <2>3. CASE n = cur.key
    <3>1. /\ S(n)' = S(n) /\ T(n)' = T(n) /\ B(n)' = B(n) /\ Fate(n)' = Fate(n)
          /\ Diff(H(S(n)), H(T(n)), B(n))' = Diff(H(S(n)), H(T(n)), B(n))
      BY <1>2, Promises
    <3>2. ReadSoFar(n)'
      BY <1>2, <2>1, <3>1 DEF KeyOK, ReadSoFar, Phases, Listing, Reading, Writing, Rebasing
    <3>3. H(S(n))' = H(S(n)) /\ H(T(n))' = H(T(n))
      BY <3>1
    <3>4. Decided(n)'
      BY <1>2, <2>1, <3>1, <3>3 DEF KeyOK, Decided, Writing, Phases
    <3>5. data["source"][n] = cur.value
      BY <1>2, <2>1, <2>3 DEF KeyOK, WrittenSoFar, Halfway
    <3>6. Pair(n)' = <<cur.value, cur.value>>
      BY <1>1, <1>2, <1>3, <2>3, <3>5, PutTypes, SidesAre DEF Pair, TypeOK
    <3>7. Pair(n)' \in Fate(n)
      BY <1>3, <2>3, <3>6 DEF Fate
    <3>8. ~Ahead(n)'
      BY <1>2, <1>3, <2>3 DEF Ahead, Before
    <3>9. WrittenSoFar(n)'
      BY <1>2, <3>1, <3>7, <3>8 DEF WrittenSoFar, Halfway, Rebasing
    <3> QED BY <1>2, <3>2, <3>4, <3>9 DEF KeyOK, RebasedSoFar, CopiedSoFar, Handled,
         Rebasing, Handling, Copying
  <2> QED BY <2>2, <2>3
<1> QED BY <1>2, <1>5, <1>6, <1>7, NotEnded DEF Kept

LEMMA ResolveFailsKeeps ==
    ASSUME IInv, ResolveFails
    PROVE  Kept'
<1>1. TypeOK /\ Kept
  BY DEF IInv, Kept
<1>2. PICK k \in Keys :
         /\ pc \in {"conflict", "both"} /\ pc' = "conflict" /\ cur' = NoCur
         /\ touched' = touched \cup {k}
         /\ pc = "conflict" => k \in todo /\ todo' = todo \ {k}
         /\ pc = "both" => k = cur.key /\ todo' = todo /\ k \notin todo
  BY <1>1 DEF ResolveFails, Touch, TypeOK, Kept, Stages, Handling, Loops
<1>3. UNCHANGED <<data, base, opts, listed, seen, plan, fresh, start>>
  BY DEF ResolveFails
<1>4. Stages'
  BY <1>1, <1>2, <1>3 DEF Kept, Stages, Resting, Ended, Phases, Listing, Reading, Writing, Rebasing,
     Handling, Copying
<1>5. Loops' /\ CopyLoops'
  BY <1>1, <1>2, <1>3 DEF Kept, Loops, CopyLoops, Phases, Rebasing, Handling, Copying
<1>6. ASSUME NEW n \in Keys \ touched' PROVE KeyOK(n)'
  <2>1. KeyOK(n) /\ n # k
    BY <1>1, <1>2 DEF Kept
  <2>2. ~Halfway(n) /\ ~Halfway(n)'
    BY <1>2, <2>1 DEF Halfway
  <2>3. n \in todo' <=> n \in todo
    BY <1>2, <2>1
  <2> QED BY <1>2, <1>3, <2>1, <2>2, <2>3, ConflictElsewhere
<1> QED BY <1>2, <1>4, <1>5, <1>6, NotEnded DEF Kept

-----------------------------------------------------------------------------
(* The new baseline.                                                        *)

(* RebaseFrame: what reading one key again keeps of another, or of itself,  *)
(* is all but what the new entries say.                                     *)
LEMMA RebaseFrame ==
    ASSUME NEW n \in Keys, KeyOK(n), pc \in Rebasing, pc' \in Rebasing,
           UNCHANGED <<data, opts, listed, seen, plan, start>>,
           plan[n] \notin {"push", "pull", "conflict"} => fresh'[n] = fresh[n],
           RebasedSoFar(n)'
    PROVE  KeyOK(n)'
<1>1. /\ S(n)' = S(n) /\ T(n)' = T(n) /\ B(n)' = B(n) /\ Fate(n)' = Fate(n)
      /\ Diff(H(S(n)), H(T(n)), B(n))' = Diff(H(S(n)), H(T(n)), B(n))
  BY Promises
<1>2. ReadSoFar(n)'
  BY <1>1 DEF KeyOK, ReadSoFar, Phases, Listing, Reading, Writing, Rebasing
<1>3. H(S(n))' = H(S(n)) /\ H(T(n))' = H(T(n))
  BY <1>1
<1>4. Decided(n)'
  BY <1>1, <1>3 DEF KeyOK, Decided
<1>5. WrittenSoFar(n)'
  BY <1>1 DEF KeyOK, WrittenSoFar, Halfway, Pair, Writing, Rebasing, Phases
<1> QED BY <1>2, <1>4, <1>5 DEF KeyOK, CopiedSoFar, Handled, Rebasing, Handling, Copying

LEMMA RebaseKeeps ==
    ASSUME IInv, NEW k \in Keys, Rebase(k)
    PROVE  Kept'
<1>1. TypeOK /\ Kept
  BY DEF IInv, Kept
<1>2. /\ pc = "rebase" /\ pc' = "rebaseTarget" /\ k \in todo /\ todo' = todo \ {k}
      /\ UNCHANGED <<data, base, opts, listed, seen, plan, start, touched>>
  BY DEF Rebase, history
<1>3. /\ \A x \in Sides, n \in Keys :
           fresh'[n][x] = IF n = k /\ x = "source" THEN H(data["source"][k]) ELSE fresh[n][x]
      /\ \A n \in Keys : n # k => fresh'[n] = fresh[n]
      /\ cur'.key = k /\ cur'.from = cur.from
  BY <1>1, RebaseSteps
<1>4. Stages'
  BY <1>1, <1>2, <1>3 DEF Kept, Stages, Resting, Ended, Phases, Listing, Reading, Writing, Rebasing,
     Handling, Copying
<1>5. plan[k] \in {"push", "pull", "conflict"}
  BY <1>1, <1>2 DEF Kept, Loops, Rebasing
<1>6. Loops' /\ CopyLoops'
  BY <1>1, <1>2, <1>3, <1>5 DEF Kept, Loops, CopyLoops, Phases, Rebasing, Handling, Copying
<1>7. ASSUME NEW n \in Keys \ touched' PROVE KeyOK(n)'
  <2>1. KeyOK(n)
    BY <1>1, <1>2 DEF Kept
  <2>2. RebasedSoFar(n)'
    BY <1>2, <1>3, <2>1, SidesAre DEF KeyOK, RebasedSoFar, Rebasing
  <2> QED BY <1>2, <1>3, <1>5, <2>1, <2>2, RebaseFrame DEF Rebasing
<1> QED BY <1>2, <1>4, <1>6, <1>7, NotEnded DEF Kept

LEMMA RebaseTargetKeeps ==
    ASSUME IInv, RebaseTarget
    PROVE  Kept'
<1>1. TypeOK /\ Kept
  BY DEF IInv, Kept
<1>2. /\ pc = "rebaseTarget" /\ pc' = "rebase" /\ cur' = NoCur
      /\ UNCHANGED <<data, base, opts, listed, seen, todo, plan, start, touched>>
  BY DEF RebaseTarget, history
<1>3. /\ cur.key \in Keys
      /\ \A x \in Sides, n \in Keys :
           fresh'[n][x] = IF n = cur.key /\ x = "target" THEN H(data["target"][n]) ELSE fresh[n][x]
      /\ \A n \in Keys : n # cur.key => fresh'[n] = fresh[n]
  BY <1>1, RebaseTargetSteps DEF Kept
<1>4. Stages'
  BY <1>1, <1>2 DEF Kept, Stages, Resting, Ended, Phases, Listing, Reading, Writing, Rebasing,
     Handling, Copying
<1>5. plan[cur.key] \in {"push", "pull", "conflict"}
  BY <1>1, <1>2 DEF Kept, Loops
<1>6. Loops' /\ CopyLoops'
  BY <1>1, <1>2 DEF Kept, Loops, CopyLoops, Phases, Rebasing, Handling, Copying
<1>7. ASSUME NEW n \in Keys \ touched' PROVE KeyOK(n)'
  <2>1. KeyOK(n)
    BY <1>1, <1>2 DEF Kept
  <2>2. RebasedSoFar(n)'
    BY <1>2, <1>3, <2>1, SidesAre DEF KeyOK, RebasedSoFar, Rebasing
  <2> QED BY <1>2, <1>3, <1>5, <2>1, <2>2, RebaseFrame DEF Rebasing
<1> QED BY <1>2, <1>4, <1>6, <1>7, NotEnded DEF Kept

(* MergedAtEnd: when all is written and read again, each untouched key is   *)
(* what the merge makes of it, and its entry describes it.                  *)
LEMMA MergedAtEnd ==
    ASSUME IInv, pc = "save", NEW k \in Keys \ touched
    PROVE  /\ opts.mode = "sync"
           /\ \A side \in Sides : fresh[k][side] = H(data[side][k])
           /\ Agreed(B(k)) => Pair(k) \in Outcomes(opts, S(k), T(k), B(k))
<1>1. KeyOK(k) /\ TypeOK /\ opts.mode = "sync" /\ k \notin todo
  BY DEF IInv, Stages, Loops, Rebasing
<1>2. \A side \in Sides : fresh[k][side] = H(data[side][k])
  BY <1>1 DEF KeyOK, RebasedSoFar, Rebasing
<1>3. Pair(k) \in Fate(k) /\ plan[k] = Diff(H(S(k)), H(T(k)), B(k))
  BY <1>1 DEF KeyOK, WrittenSoFar, Decided, Rebasing
<1>4. ASSUME Agreed(B(k)) PROVE Pair(k) \in Merged(opts, S(k), T(k), B(k))
  BY <1>1, <1>3, <1>4, FateIsMerge
<1>5. Outcomes(opts, S(k), T(k), B(k)) = Merged(opts, S(k), T(k), B(k))
  BY <1>1 DEF Outcomes
<1> QED BY <1>1, <1>2, <1>4, <1>5

(* KeptNext: a key whose entry has the hashes of what it is stays as it is, *)
(* but for one that only one side has.                                      *)
LEMMA KeptNext ==
    \A s, t, b : b["source"] = s /\ b["target"] = t /\ (s = t \/ (s # None /\ t # None)) =>
                    Diff(s, t, b) = "keep"
<1> SUFFICES ASSUME NEW s, NEW t, NEW b, b["source"] = s, b["target"] = t,
                    s # t, s # None, t # None
             PROVE  Diff(s, t, b) = "keep"
  BY DEF Diff
<1>1. b # NoEntry
  BY SidesAre DEF NoEntry
<1> QED BY <1>1 DEF Diff

(* KeepsBoth: a key on one side only is never kept as it is.                *)
LEMMA KeepsBoth ==
    \A s, t, b : Diff(s, t, b) = "keep" => s = t \/ (s # None /\ t # None)
BY DEF Diff

(* LeftAtEnd: the next run leaves each untouched key alone, unless this one *)
(* left it on one side in a conflict.                                       *)
LEMMA LeftAtEnd ==
    ASSUME IInv, pc = "save", NEW k \in Keys \ touched
    PROVE  LeftAlone(k, fresh[k])
<1>1. KeyOK(k) /\ TypeOK /\ k \notin todo
  BY DEF IInv, Stages, Loops, Rebasing
<1>2. /\ fresh[k]["source"] = H(data["source"][k])
      /\ fresh[k]["target"] = H(data["target"][k])
  BY MergedAtEnd, SidesAre
<1>3. Pair(k) \in Fate(k) /\ plan[k] = Diff(H(S(k)), H(T(k)), B(k))
  BY <1>1 DEF KeyOK, WrittenSoFar, Decided, Rebasing
<1>4. data["source"][k] \in Content /\ data["target"][k] \in Content
  BY <1>1, SidesAre DEF TypeOK, Contents
<1>5. S(k) \in Content /\ T(k) \in Content
  BY <1>1, SidesAre DEF TypeOK, Contents, S, T
<1> DEFINE s == data["source"][k]
           t == data["target"][k]
           e == fresh[k]
<1>6. CASE H(s) = H(t) \/ (s # None /\ t # None)
  <2>1. H(s) = H(t) \/ (H(s) # None /\ H(t) # None)
    BY <1>4, <1>6, HashTypes
  <2> QED BY <1>2, <2>1, KeptNext DEF LeftAlone
<1>7. CASE H(s) # H(t) /\ ~(s # None /\ t # None)
  <2>1. OneSided(k)
    BY <1>7, SidesAre DEF OneSided
  <2>2. Pair(k)[1] = s /\ Pair(k)[2] = t
    BY DEF Pair
  <2>3. plan[k] \in {"keep", "conflict"}
    BY <1>1, <1>3, <1>7, <2>2 DEF Fate, TypeOK, Plans
  <2>4. plan[k] # "keep"
    <3>1. SUFFICES ASSUME plan[k] = "keep" PROVE FALSE
      OBVIOUS
    <3>2. s = S(k) /\ t = T(k)
      BY <1>3, <2>2, <3>1 DEF Fate
    <3>3. Diff(H(s), H(t), B(k)) = "keep" /\ (H(s) = None \/ H(t) = None)
      BY <1>3, <1>4, <1>7, <3>1, <3>2, HashTypes
    <3> QED BY <1>7, <3>3, KeepsBoth
  <2>5. opts.resolution \in {"skip", "callback"}
    <3>1. opts.resolution \notin {"source", "target"}
      BY <1>3, <1>7, <2>2, <2>3, <2>4 DEF Fate
    <3>2. opts.resolution \in {"source", "target", "skip", "callback"}
      BY <1>1, SyncAssumption DEF TypeOK, Resolutions
    <3> QED BY <3>1, <3>2
  <2> QED BY <1>3, <2>1, <2>3, <2>4, <2>5 DEF LeftAlone
<1> QED BY <1>6, <1>7

LEMMA SaveKeeps ==
    ASSUME IInv, Save \/ SaveFails
    PROVE  Kept'
<1>1. /\ pc = "save" /\ pc' \in {"done", "unsaved"} /\ seen' = Nothing
      /\ pc' = "done" => base' = fresh
      /\ UNCHANGED <<data, opts, start, touched>>
  BY DEF Save, SaveFails, Finish, history
<1>2. \A k \in Keys : S(k)' = S(k) /\ T(k)' = T(k) /\ B(k)' = B(k) /\ Pair(k)' = Pair(k)
  BY <1>1 DEF S, T, B, Pair
<1>3. UntouchedKeysMerge'
  <2> SUFFICES ASSUME NEW k \in Keys \ touched', (opts.mode = "sync" => Agreed(start.base[k]))'
               PROVE  (<<data["source"][k], data["target"][k]>> \in
                          Outcomes(opts, start.data["source"][k], start.data["target"][k],
                                   start.base[k]))'
    BY DEF UntouchedKeysMerge
  <2>1. Pair(k) \in Outcomes(opts, S(k), T(k), B(k))
    BY <1>1, MergedAtEnd DEF B, Agreed
  <2>2. Outcomes(opts, S(k), T(k), B(k))' = Outcomes(opts, S(k), T(k), B(k))
    BY <1>1, <1>2
  <2>3. Pair(k)' \in Outcomes(opts, S(k), T(k), B(k))'
    BY <1>2, <2>1, <2>2
  <2> QED BY <2>3 DEF Pair, S, T, B
<1>4. BaselineDescribes'
  <2> SUFFICES ASSUME pc' = "done", NEW k \in Keys \ touched'
               PROVE  /\ \A side \in Sides : (base[k][side] = H(data[side][k]))'
                      /\ LeftAlone(k, base[k])'
    BY DEF BaselineDescribes, LeftAlone, Planned, S, T, B
  <2>1. LeftAlone(k, fresh[k]) /\ \A side \in Sides : fresh[k][side] = H(data[side][k])
    BY <1>1, LeftAtEnd, MergedAtEnd
  <2>2. LeftAlone(k, base[k])' <=> LeftAlone(k, fresh[k])
    BY <1>1, <1>2 DEF LeftAlone, OneSided, Diff
  <2> QED BY <1>1, <2>1, <2>2
<1> QED BY <1>1, <1>3, <1>4, Idle DEF Kept

-----------------------------------------------------------------------------
(* The ends of the loops.                                                   *)

\* The facts on a key that no end of a loop touches.
EndFacts(k) ==
    /\ S(k)' = S(k) /\ T(k)' = T(k) /\ B(k)' = B(k) /\ Fate(k)' = Fate(k)
    /\ Diff(H(S(k)), H(T(k)), B(k))' = Diff(H(S(k)), H(T(k)), B(k))
    /\ H(S(k))' = H(S(k)) /\ H(T(k))' = H(T(k))
    /\ Pair(k)' = Pair(k) /\ AsStarted(k)' = AsStarted(k)

LEMMA EndLoopFacts ==
    ASSUME NEW k \in Keys, UNCHANGED <<data, start, opts, plan>>
    PROVE  EndFacts(k)
<1>1. /\ S(k)' = S(k) /\ T(k)' = T(k) /\ B(k)' = B(k) /\ Fate(k)' = Fate(k)
      /\ Diff(H(S(k)), H(T(k)), B(k))' = Diff(H(S(k)), H(T(k)), B(k))
  BY Promises
<1> QED BY <1>1 DEF EndFacts, Pair, AsStarted

(* EndReading: nothing is left to read of the side, and then of both.       *)
LEMMA EndReading ==
    ASSUME NEW k \in Keys, TypeOK, KeyOK(k), EndFacts(k), todo = {},
           UNCHANGED <<data, opts, listed, seen, plan, fresh, cur, start>>,
           \/ pc = "readSource" /\ pc' = "readTarget" /\ todo' = listed["target"]
           \/ pc = "readTarget" /\ pc' = "load" /\ todo' = {}
    PROVE  KeyOK(k)'
<1>1. ReadSoFar(k)'
  BY DEF EndFacts, KeyOK, ReadSoFar, Listing, Reading, Writing, Rebasing, Phases
<1> QED BY <1>1 DEF KeyOK, Decided, WrittenSoFar, Halfway, RebasedSoFar, CopiedSoFar, Handled,
     Writing, Rebasing, Handling, Copying, Phases

(* EndPhase: the keys of the next phase are still as they were, those of    *)
(* the last are as their plan says.                                         *)
LEMMA EndPhase ==
    ASSUME NEW k \in Keys, KeyOK(k), EndFacts(k), todo = {},
           UNCHANGED <<data, opts, listed, seen, plan, fresh, cur, start>>,
           \/ pc = "push" /\ pc' = "pull"
           \/ pc = "pull" /\ pc' = "dropSource"
           \/ pc = "dropSource" /\ pc' = "dropTarget"
           \/ pc = "dropTarget" /\ pc' = "conflict",
           todo' = {n \in Keys : plan[n] = pc'}
    PROVE  KeyOK(k)'
<1>1. plan[k] \in Plans
  BY DiffTypes DEF KeyOK, Decided, Writing, Phases
<1>2. ReadSoFar(k)' /\ Decided(k)'
  BY DEF EndFacts, KeyOK, ReadSoFar, Decided, Listing, Reading, Writing, Rebasing, Phases
<1>3. Ahead(k)' <=> Ahead(k)
  BY <1>1 DEF Ahead, Before, Plans, Writing, Phases
<1>4. WrittenSoFar(k)'
  BY <1>3 DEF EndFacts, KeyOK, WrittenSoFar, Halfway, Writing, Rebasing, Phases
<1> QED BY <1>2, <1>4 DEF KeyOK, RebasedSoFar, CopiedSoFar, Handled, Rebasing, Handling, Copying

(* EndConflicts: what was not written is described by the entries there are. *)
LEMMA EndConflicts ==
    ASSUME NEW k \in Keys, KeyOK(k), EndFacts(k), todo = {},
           UNCHANGED <<data, opts, listed, seen, plan, fresh, cur, start>>,
           pc = "conflict" /\ pc' = "rebase",
           todo' = {n \in Keys : plan[n] \in {"push", "pull", "conflict"}}
    PROVE  KeyOK(k)'
<1>1. plan[k] \in Plans
  BY DiffTypes DEF KeyOK, Decided, Writing, Phases
<1>2. ReadSoFar(k)' /\ Decided(k)'
  BY DEF EndFacts, KeyOK, ReadSoFar, Decided, Listing, Reading, Writing, Rebasing, Phases
<1>3. ~Ahead(k) /\ ~Halfway(k)
  BY <1>1 DEF Ahead, Before, Halfway, Plans
<1>4. Pair(k) \in Fate(k)
  BY <1>3 DEF KeyOK, WrittenSoFar, Writing, Phases
<1>5. WrittenSoFar(k)'
  BY <1>4 DEF EndFacts, WrittenSoFar, Halfway, Writing, Rebasing, Phases
<1>6. RebasedSoFar(k)'
  <2> SUFFICES ASSUME k \notin todo', NEW side \in Sides
               PROVE  fresh[k][side] = H(data[side][k])
    BY DEF RebasedSoFar
  <2>1. CASE plan[k] = "keep"
    <3>1. fresh[k] = Entry(H(S(k)), H(T(k)))
      BY <2>1 DEF KeyOK, Decided, Writing, Phases
    <3>2. data["source"][k] = S(k) /\ data["target"][k] = T(k)
      BY <1>4, <2>1 DEF Fate, Pair
    <3> QED BY <3>1, <3>2, SidesAre DEF Entry
  <2>2. CASE plan[k] \in {"dropSource", "dropTarget"}
    <3>1. fresh[k] = NoEntry
      BY <2>2 DEF KeyOK, Decided, Writing, Phases
    <3>2. data["source"][k] = None /\ data["target"][k] = None
      BY <1>4, <2>2 DEF Fate, Pair
    <3> QED BY <3>1, <3>2, SidesAre, Constants, HashTypes
  <2> QED BY <1>1, <2>1, <2>2 DEF Plans
<1> QED BY <1>2, <1>5, <1>6 DEF KeyOK, CopiedSoFar, Handled, Handling, Copying

LEMMA EndLoopKeeps ==
    ASSUME IInv, EndLoop
    PROVE  Kept'
<1>1. TypeOK /\ Kept
  BY DEF IInv, Kept
<1>2. /\ todo = {} /\ UNCHANGED <<data, base, opts, listed, seen, plan, fresh, cur, start, touched>>
  BY DEF EndLoop, history
<1>3. \/ pc = "readSource" /\ pc' = "readTarget" /\ todo' = listed["target"]
      \/ pc = "readTarget" /\ pc' = "load" /\ todo' = {}
      \/ /\ \/ pc = "push" /\ pc' = "pull"
            \/ pc = "pull" /\ pc' = "dropSource"
            \/ pc = "dropSource" /\ pc' = "dropTarget"
            \/ pc = "dropTarget" /\ pc' = "conflict"
         /\ todo' = {n \in Keys : plan[n] = pc'}
      \/ /\ pc = "conflict" /\ pc' = "rebase"
         /\ todo' = {n \in Keys : plan[n] \in {"push", "pull", "conflict"}}
      \/ pc = "rebase" /\ pc' = "save" /\ todo' = {}
  <2>1. \/ pc = "readSource" /\ pc' = "readTarget"
        \/ pc = "readTarget" /\ pc' = "load"
        \/ pc = "push" /\ pc' = "pull"
        \/ pc = "pull" /\ pc' = "dropSource"
        \/ pc = "dropSource" /\ pc' = "dropTarget"
        \/ pc = "dropTarget" /\ pc' = "conflict"
        \/ pc = "conflict" /\ pc' = "rebase"
        \/ pc = "rebase" /\ pc' = "save"
    BY DEF EndLoop, NextLoop
  <2> QED BY <2>1 DEF EndLoop, Phases
<1>4. Stages'
  BY <1>1, <1>2, <1>3 DEF Kept, Stages, Resting, Ended, Phases, Listing, Reading, Writing, Rebasing,
     Handling, Copying
<1>5. Loops' /\ CopyLoops'
  BY <1>1, <1>2, <1>3 DEF Kept, Loops, CopyLoops, Phases, Rebasing, Handling, Copying
<1>6. ASSUME NEW k \in Keys \ touched' PROVE KeyOK(k)'
  <2>1. KeyOK(k) /\ EndFacts(k)
    BY <1>1, <1>2, EndLoopFacts DEF Kept
  <2>2. CASE pc \in {"readSource", "readTarget"}
    BY <1>1, <1>2, <1>3, <2>1, <2>2, EndReading
  <2>3. CASE pc \in {"push", "pull", "dropSource", "dropTarget"}
    BY <1>2, <1>3, <2>1, <2>3, EndPhase
  <2>4. CASE pc = "conflict"
    BY <1>2, <1>3, <2>1, <2>4, EndConflicts
  <2>5. CASE pc = "rebase"
    <3>1. RebasedSoFar(k)'
      BY <1>2, <1>3, <2>1, <2>5 DEF KeyOK, RebasedSoFar, Rebasing
    <3> QED BY <1>2, <1>3, <2>1, <2>5, <3>1, RebaseFrame DEF Rebasing
  <2> QED BY <1>3, <2>2, <2>3, <2>4, <2>5
<1>7. pc' \notin {"done", "unsaved"}
  BY <1>3
<1> QED BY <1>4, <1>5, <1>6, <1>7, NotEnded DEF Kept

-----------------------------------------------------------------------------
(* The copies.                                                              *)

(* CopyingOnly: while a run copies, the rest of the invariant is silent.    *)
LEMMA CopyingOnly ==
    ASSUME NEW k \in Keys, pc' \in Copying
    PROVE  /\ Loops'
           /\ CopiedSoFar(k)' => KeyOK(k)'
<1>1. pc' \notin Listing \cup Reading \cup Writing \cup Rebasing
  BY DEF Copying, Handling, Listing, Reading, Writing, Rebasing, Phases
<1> QED BY <1>1 DEF Loops, KeyOK, ReadSoFar, Decided, WrittenSoFar, Halfway, RebasedSoFar,
     Listing, Reading, Writing, Rebasing

(* CopyMoves: a step of the copy of key k, or one over all keys, leaves a   *)
(* key alone if it is not the one being handled before or after.            *)
LEMMA CopyMoves ==
    ASSUME NEW n \in Keys, CopiedSoFar(n), pc \in Copying \ {"copyList"}, pc' \in Copying \ {"copyList"},
           UNCHANGED <<opts, plan, start>>, cur'.from = cur.from,
           ~Handled(n), ~Handled(n)',
           \A side \in Sides : data'[side][n] = data[side][n],
           n \in todo' <=> n \in todo
    PROVE  CopiedSoFar(n)'
<1>1. /\ S(n)' = S(n) /\ T(n)' = T(n) /\ Goal(n)' = Goal(n)
  BY Promises
<1>2. Way' = Way /\ From' = From
  BY DEF Way, From
<1>3. Uncopied(n)' <=> Uncopied(n)
  BY <1>2 DEF Uncopied
<1>4. Pair(n)' = Pair(n) /\ AsStarted(n)' = AsStarted(n)
  BY <1>1, SidesAre DEF Pair, AsStarted
<1> QED BY <1>1, <1>3, <1>4 DEF CopiedSoFar

LEMMA CopyListKeeps ==
    ASSUME IInv, CopyList
    PROVE  Kept'
<1>1. TypeOK /\ Kept
  BY DEF IInv, Kept
<1>2. /\ pc = "copyList" /\ pc' = "copy"
      /\ todo' = {k \in Present(From) : plan[k] = Way}
      /\ UNCHANGED <<data, base, opts, plan, cur, start, touched>>
  BY DEF CopyList, Way, history
<1>3. Stages'
  BY <1>1, <1>2 DEF Kept, Stages, Resting, Ended, Phases, Listing, Reading, Writing, Rebasing,
     Handling, Copying
<1>4. CopyLoops' /\ Loops'
  BY <1>1, <1>2 DEF Kept, CopyLoops, Loops, Way, From, Phases, Rebasing, Handling, Copying
<1>5. ASSUME NEW k \in Keys \ touched' PROVE KeyOK(k)'
  <2>1. CopiedSoFar(k) /\ pc \in Copying /\ pc' \in Copying
    BY <1>1, <1>2 DEF Kept, KeyOK, Copying
  <2>2. S(k)' = S(k) /\ T(k)' = T(k) /\ Goal(k)' = Goal(k) /\ Way' = Way /\ From' = From
    BY <1>2, Promises DEF Way, From
  <2>3. Pair(k)' = Pair(k) /\ AsStarted(k)' = AsStarted(k)
    BY <1>2, <2>2 DEF Pair, AsStarted
  <2>4. Uncopied(k)' => Uncopied(k)
    BY <1>2, <2>2 DEF Uncopied, Handled, Handling
  <2>5. ASSUME Uncopied(k), ~Uncopied(k)' PROVE Pair(k) = Goal(k)
    <3>1. plan[k] = Way /\ k \notin Present(From) /\ AsStarted(k)
      BY <1>2, <2>1, <2>2, <2>5 DEF Uncopied, CopiedSoFar
    <3>2. CASE From = "source"
      <4>1. S(k) = None /\ plan[k] = "push"
        BY <3>1, <3>2 DEF Present, AsStarted, Way
      <4> QED BY <3>1, <4>1 DEF Goal, Copied, Pair, AsStarted
    <3>3. CASE From = "target"
      <4>1. T(k) = None /\ plan[k] = "pull"
        BY <3>1, <3>3 DEF Present, AsStarted, Way
      <4> QED BY <3>1, <4>1 DEF Goal, Copied, Pair, AsStarted
    <3>4. From \in {"source", "target"}
      BY <1>1, SidesAre DEF From, TypeOK
    <3> QED BY <3>2, <3>3, <3>4
  <2>6. ~Handled(k)'
    BY <1>2 DEF Handled, Handling
  <2>7. CopiedSoFar(k)'
    BY <1>2, <2>1, <2>2, <2>3, <2>4, <2>5, <2>6 DEF CopiedSoFar
  <2> QED BY <2>1, <2>7, CopyingOnly
<1> QED BY <1>2, <1>3, <1>4, <1>5, NotEnded DEF Kept

LEMMA CopyKeeps ==
    ASSUME IInv, NEW k \in Keys, Copy(k)
    PROVE  Kept'
<1>1. TypeOK /\ Kept
  BY DEF IInv, Kept
<1>2. /\ pc = "copy" /\ k \in todo /\ todo' = todo \ {k}
      /\ UNCHANGED <<data, base, opts, plan, start, touched>>
  BY DEF Copy, history
<1>3. \/ data[From][k] = None /\ pc' = "copy" /\ cur' = cur
      \/ /\ data[From][k] # None /\ pc' = "copyHas"
         /\ cur'.key = k /\ cur'.value = data[From][k] /\ cur'.from = cur.from
  BY <1>1, <1>2 DEF Copy, TypeOK
<1>4. cur'.from = cur.from /\ From \in {"source", "target"} /\ pc \in Copying /\ pc' \in Copying
      /\ Way' = Way /\ From' = From
  BY <1>1, <1>2, <1>3, SidesAre DEF From, TypeOK, Copying, Handling, Way
<1>5. plan[k] = Way
  BY <1>1, <1>2 DEF Kept, CopyLoops, Copying
<1>6. data[From][k] \in Content
  BY <1>1, <1>4, SidesAre DEF TypeOK, Contents
<1>7. Stages'
  BY <1>1, <1>2, <1>3, <1>4, <1>6 DEF Kept, Stages, Resting, Ended, Phases, Listing, Reading, Writing,
     Rebasing, Handling, Copying, Content
<1>8. CopyLoops' /\ Loops'
  BY <1>1, <1>2, <1>3, <1>4, <1>5 DEF Kept, CopyLoops, Loops, Phases, Rebasing, Handling, Copying
<1>9. ASSUME NEW n \in Keys \ touched' PROVE KeyOK(n)'
  <2>1. CopiedSoFar(n)
    BY <1>1, <1>2 DEF Kept, KeyOK
  <2>2. CASE n # k
    <3>1. ~Handled(n) /\ ~Handled(n)'
      BY <1>2, <1>3, <2>2 DEF Handled, Handling
    <3>2. CopiedSoFar(n)'
      BY <1>2, <1>3, <1>4, <2>1, <2>2, <3>1, CopyMoves DEF Copying, Handling
    <3> QED BY <1>4, <3>2, CopyingOnly
  <2>3. CASE n = k
    <3>1. AsStarted(k)
      BY <1>2, <1>4, <1>5, <2>1, <2>3 DEF CopiedSoFar, Uncopied
    <3>2. S(k)' = S(k) /\ T(k)' = T(k) /\ Goal(k)' = Goal(k) /\ Pair(k)' = Pair(k)
          /\ AsStarted(k)'
      BY <1>2, <3>1, Promises DEF Pair, AsStarted
    <3>3. data[From][k] = start.data[From][k]
      BY <1>4, <3>1 DEF AsStarted, S, T
    <3>4. CASE data[From][k] = None
      <4>1. Pair(k) = Goal(k)
        BY <1>4, <1>5, <3>1, <3>4 DEF Goal, Copied, Pair, AsStarted, Way
      <4>2. pc' = "copy" /\ ~Handled(k)'
        BY <1>3, <3>4 DEF Handled, Handling
      <4>3. CopiedSoFar(k)'
        BY <1>2, <1>4, <2>1, <2>3, <3>2, <4>1, <4>2 DEF CopiedSoFar
      <4> QED BY <1>4, <2>3, <4>3, CopyingOnly
    <3>5. CASE data[From][k] # None
      <4>1. pc' = "copyHas" /\ Handled(k)' /\ cur'.value = start.data[From][k]
        BY <1>3, <3>3, <3>5 DEF Handled, Handling
      <4>2. Uncopied(k)'
        BY <1>2, <1>4, <1>5, <4>1 DEF Uncopied
      <4>3. CopiedSoFar(k)'
        BY <1>2, <1>4, <2>1, <2>3, <3>2, <4>1, <4>2 DEF CopiedSoFar
      <4> QED BY <1>4, <2>3, <4>3, CopyingOnly
    <3> QED BY <3>4, <3>5
  <2> QED BY <2>2, <2>3
<1> QED BY <1>3, <1>7, <1>8, <1>9, NotEnded DEF Kept

\* The key that is being copied, as it was.
Given == start.data[From][cur.key]
There == start.data[To][cur.key]

(* What is known of the key that is being copied.                           *)
LEMMA HandlingState ==
    ASSUME IInv, pc \in Handling
    PROVE  /\ cur.key \in Keys /\ plan[cur.key] = Way /\ From \in {"source", "target"}
           /\ cur.value \in Values /\ cur.value # None
           /\ cur.key \notin touched =>
                /\ AsStarted(cur.key) /\ CopiedSoFar(cur.key)
                /\ cur.value = Given /\ data[To][cur.key] = There
<1>1. /\ cur.key \in Keys /\ plan[cur.key] = Way /\ From \in {"source", "target"}
      /\ cur.value \in Values /\ cur.value # None
  BY HashTypes, SidesAre DEF IInv, Stages, CopyLoops, TypeOK, From
<1>2. ASSUME cur.key \notin touched
      PROVE  AsStarted(cur.key) /\ CopiedSoFar(cur.key) /\ cur.value = Given /\ data[To][cur.key] = There
  <2>1. CopiedSoFar(cur.key)
    BY <1>1, <1>2 DEF IInv, KeyOK
  <2>2. Handled(cur.key) /\ pc \in Copying
    BY DEF Handled, Copying
  <2>3. AsStarted(cur.key) /\ cur.value = Given
    BY <1>1, <2>1, <2>2 DEF CopiedSoFar, Uncopied, Given
  <2> QED BY <1>1, <2>1, <2>3, SidesAre DEF AsStarted, S, T, There, To, From
<1> QED BY <1>1, <1>2

(* HandledGoal: a copied key's goal is what its pass makes of its value.    *)
LEMMA HandledGoal ==
    ASSUME IInv, pc \in Handling, NEW k \in Keys \ touched, k = cur.key,
           data'[From][k] = data[From][k],
           data'[To][k] = Copied(opts, Given, There)
    PROVE  Pair(k)' = Goal(k)
<1>1. plan[k] = Way /\ From \in {"source", "target"} /\ AsStarted(k)
  BY HandlingState
<1>2. Pair(k)' = <<data'["source"][k], data'["target"][k]>>
  BY DEF Pair
<1>3. CASE From = "source"
  <2>1. To = "target" /\ plan[k] = "push"
    BY <1>1, <1>3, SidesAre DEF To, From, Way
  <2>2. Given = S(k) /\ There = T(k) /\ data["source"][k] = S(k)
    BY <1>1, <1>3, <2>1 DEF Given, There, S, T, AsStarted
  <2> QED BY <1>2, <1>3, <2>1, <2>2 DEF Goal
<1>4. CASE From = "target"
  <2>1. To = "source" /\ plan[k] = "pull"
    BY <1>1, <1>4, SidesAre DEF To, From, Way
  <2>2. Given = T(k) /\ There = S(k) /\ data["target"][k] = T(k)
    BY <1>1, <1>4, <2>1 DEF Given, There, S, T, AsStarted
  <2> QED BY <1>2, <1>4, <2>1, <2>2 DEF Goal
<1> QED BY <1>1, <1>3, <1>4

(* HandleKeeps: a step of the copy of one key, if it says what it learnt.   *)
LEMMA HandleKeeps ==
    ASSUME IInv, pc \in Handling, NEW k \in Keys, k = cur.key,
           UNCHANGED <<base, opts, seen, plan, cur, start, todo>>,
           pc' \in Handling \cup {"copy"},
           \A n \in Keys \ {k}, x \in Sides : data'[x][n] = data[x][n],
           touched \subseteq touched',
           k \notin touched' /\ pc' = "copy" => Pair(k)' = Goal(k),
           pc' # "copy" => data' = data,
           k \notin touched' /\ pc' = "copyCompare" =>
                There # None /\ opts.overwrite /\ opts.skipUnchanged,
           k \notin touched' /\ pc' = "copySet" => Copied(opts, Given, There) = cur.value
    PROVE  Kept'
<1>1. TypeOK /\ Kept /\ From' = From /\ To' = To /\ Way' = Way
  BY DEF IInv, Kept, From, To, Way
<1>2. pc \in Copying \ {"copyList"} /\ pc' \in Copying \ {"copyList"}
  BY DEF Copying, Handling
<1>3. Stages'
  BY <1>1 DEF Kept, Stages, Resting, Ended, Phases, Listing, Reading, Writing,
     Rebasing, Handling, Copying
<1>4. CopyLoops'
  BY <1>1, <1>2 DEF Kept, CopyLoops
<1>5. Loops'
  BY <1>2, CopyingOnly
<1>6. ASSUME NEW n \in Keys \ touched' PROVE KeyOK(n)'
  <2>1. CopiedSoFar(n)
    BY <1>1 DEF Kept, KeyOK
  <2>2. CASE n # k
    <3>1. ~Handled(n) /\ ~Handled(n)'
      BY <2>2 DEF Handled
    <3>2. CopiedSoFar(n)'
      BY <1>2, <2>1, <2>2, <3>1, CopyMoves
    <3> QED BY <1>2, <3>2, CopyingOnly
  <2>3. CASE n = k
    <3>1. /\ plan[k] = Way /\ AsStarted(k) /\ cur.value = Given /\ k \notin todo
      BY <1>1, <2>3, HandlingState DEF Kept, CopyLoops
    <3>2. S(k)' = S(k) /\ T(k)' = T(k) /\ Goal(k)' = Goal(k)
      BY Promises
    <3>3. CASE pc' = "copy"
      <4>1. ~Handled(k)'
        BY <3>3 DEF Handled, Handling
      <4>2. ~Uncopied(k)'
        <5>1. ~(plan[k] = "pull" /\ From = "source")
          BY <3>1 DEF Way
        <5> QED BY <1>1, <3>1, <3>3, <4>1, <5>1 DEF Uncopied
      <4>3. CopiedSoFar(k)'
        BY <1>2, <2>1, <2>3, <3>2, <3>3, <4>1, <4>2 DEF CopiedSoFar
      <4> QED BY <1>2, <2>3, <4>3, CopyingOnly
    <3>4. CASE pc' # "copy"
      <4>1. Handled(k)' /\ Uncopied(k)' /\ AsStarted(k)'
        BY <1>1, <3>1, <3>2, <3>4 DEF Handled, Uncopied, AsStarted
      <4>2. cur'.value = start'.data[From'][k]
        BY <1>1, <3>1 DEF Given
      <4>3. /\ pc' = "copyCompare" => start'.data[To'][k] # None /\ opts'.overwrite /\ opts'.skipUnchanged
            /\ pc' = "copySet" =>
                 Copied(opts', start'.data[From'][k], start'.data[To'][k]) = cur'.value
        BY <1>1, <2>3 DEF Given, There
      <4>4. CopiedSoFar(k)'
        BY <1>2, <2>1, <2>3, <3>2, <4>1, <4>2, <4>3 DEF CopiedSoFar
      <4> QED BY <1>2, <2>3, <4>4, CopyingOnly
    <3> QED BY <3>3, <3>4
  <2> QED BY <2>2, <2>3
<1> QED BY <1>2, <1>3, <1>4, <1>5, <1>6, NotEnded DEF Kept, Copying, Handling

LEMMA CopyHasKeeps ==
    ASSUME IInv, CopyHas
    PROVE  Kept'
<1>1. pc = "copyHas" /\ pc \in Handling /\ UNCHANGED <<data, base, local, history>>
  BY DEF CopyHas, Handling
<1>2. PICK k \in Keys : k = cur.key
  BY <1>1, HandlingState
<1>3. pc' = IF data[To][k] # None /\ ~opts.overwrite THEN "copy"
            ELSE IF data[To][k] # None /\ opts.skipUnchanged THEN "copyCompare"
            ELSE "copySet"
  BY <1>2 DEF CopyHas
<1>4. ASSUME k \notin touched
      PROVE  data[To][k] = There /\ cur.value = Given /\ Given # None /\ plan[k] = Way
             /\ AsStarted(k) /\ From \in {"source", "target"}
  BY <1>1, <1>2, <1>4, HandlingState
<1>5. ASSUME k \notin touched', pc' = "copy" PROVE Pair(k)' = Goal(k)
  <2>1. k \notin touched
    BY <1>1, <1>5 DEF history
  <2>2. data[To][k] = Copied(opts, Given, There)
    BY <1>3, <1>4, <1>5, <2>1 DEF Copied
  <2> QED BY <1>1, <1>2, <2>1, <2>2, HandledGoal
<1>6. k \notin touched' /\ pc' = "copyCompare" => There # None /\ opts.overwrite /\ opts.skipUnchanged
  BY <1>1, <1>3, <1>4 DEF history
<1>7. k \notin touched' /\ pc' = "copySet" => Copied(opts, Given, There) = cur.value
  BY <1>1, <1>3, <1>4 DEF history, Copied
<1>8. pc' \in Handling \cup {"copy"}
  BY <1>3 DEF Handling
<1> QED BY <1>1, <1>2, <1>5, <1>6, <1>7, <1>8, HandleKeeps DEF local, history

LEMMA CopyCompareKeeps ==
    ASSUME IInv, CopyCompare
    PROVE  Kept'
<1>1. pc = "copyCompare" /\ pc \in Handling /\ UNCHANGED <<data, base, local, history>>
  BY DEF CopyCompare, Handling
<1>2. PICK k \in Keys : k = cur.key
  BY <1>1, HandlingState
<1>3. pc' = IF H(data[To][k]) = H(cur.value) THEN "copy" ELSE "copySet"
  BY <1>2 DEF CopyCompare
<1>4. ASSUME k \notin touched
      PROVE  /\ data[To][k] = There /\ cur.value = Given /\ Given # None
             /\ There # None /\ opts.overwrite /\ opts.skipUnchanged
  <2>1. data[To][k] = There /\ cur.value = Given /\ Given # None /\ CopiedSoFar(k)
    BY <1>1, <1>2, <1>4, HandlingState
  <2>2. Handled(k)
    BY <1>1, <1>2 DEF Handled
  <2> QED BY <1>1, <1>2, <2>1, <2>2 DEF CopiedSoFar, There
<1>5. ASSUME k \notin touched', pc' = "copy" PROVE Pair(k)' = Goal(k)
  <2>1. k \notin touched
    BY <1>1, <1>5 DEF history
  <2>2. data[To][k] = Copied(opts, Given, There)
    BY <1>3, <1>4, <1>5, <2>1 DEF Copied
  <2> QED BY <1>1, <1>2, <2>1, <2>2, HandledGoal
<1>6. k \notin touched' /\ pc' = "copySet" => Copied(opts, Given, There) = cur.value
  BY <1>1, <1>3, <1>4 DEF history, Copied
<1>7. pc' \in {"copy", "copySet"}
  BY <1>3
<1> QED BY <1>1, <1>2, <1>5, <1>6, <1>7, HandleKeeps DEF local, history, Handling

LEMMA CopySetKeeps ==
    ASSUME IInv, CopySet
    PROVE  Kept'
<1>1. /\ pc = "copySet" /\ pc \in Handling /\ pc' = "copy" /\ UNCHANGED <<base, local, history>>
      /\ TypeOK /\ Kept
  BY DEF CopySet, Handling, IInv, Kept
<1>2. PICK k \in Keys : k = cur.key
  BY <1>1, HandlingState
<1>3. /\ cur.value \in Content /\ data \in Contents /\ To \in Sides /\ From \in Sides /\ To # From
      /\ data' = Put(To, k, cur.value)
  BY <1>1, <1>2, HandlingState, SidesAre DEF CopySet, TypeOK, Content, To, From
<1>4. /\ data'[To][k] = cur.value /\ data'[From][k] = data[From][k]
      /\ \A n \in Keys \ {k}, x \in Sides : data'[x][n] = data[x][n]
  BY <1>3, PutTypes
<1>5. ASSUME k \notin touched' PROVE Pair(k)' = Goal(k)
  <2>1. k \notin touched /\ CopiedSoFar(k) /\ Handled(k)
    BY <1>1, <1>2, <1>5, HandlingState DEF history, Handled
  <2>2. cur.value = Copied(opts, Given, There)
    BY <1>1, <1>2, <2>1 DEF CopiedSoFar, Given, There
  <2> QED BY <1>1, <1>2, <1>4, <2>1, <2>2, HandledGoal
<1> QED BY <1>1, <1>2, <1>4, <1>5, HandleKeeps DEF local, history

LEMMA CopyFailsKeeps ==
    ASSUME IInv, CopyFails
    PROVE  Kept'
<1>1. /\ UNCHANGED <<base, opts, listed, seen, plan, cur, start>> /\ pc' = "copy"
      /\ TypeOK /\ Kept
  BY DEF CopyFails, IInv, Kept
<1>2. CASE pc = "copy"
  <2>1. PICK k \in todo : todo' = todo \ {k} /\ touched' = touched \cup {k} /\ data' = data
    BY <1>2 DEF CopyFails, Touch
  <2>2. Stages'
    BY <1>1, <1>2 DEF Kept, Stages, Resting, Ended, Phases, Listing, Reading, Writing,
       Rebasing, Handling, Copying
  <2>3. Way' = Way /\ pc \in Copying /\ pc' \in Copying
    BY <1>1, <1>2 DEF Way, From, Copying
  <2>4. CopyLoops' /\ Loops'
    BY <1>1, <1>2, <2>1, <2>3 DEF Kept, CopyLoops, Loops, Phases, Rebasing, Handling, Copying
  <2>5. ASSUME NEW n \in Keys \ touched' PROVE KeyOK(n)'
    <3>1. CopiedSoFar(n) /\ n # k
      BY <1>1, <2>1 DEF Kept, KeyOK
    <3>2. ~Handled(n) /\ ~Handled(n)'
      BY <1>1, <1>2 DEF Handled, Handling
    <3>3. CopiedSoFar(n)'
      BY <1>1, <1>2, <2>1, <2>3, <3>1, <3>2, CopyMoves
    <3> QED BY <2>3, <3>3, CopyingOnly
  <2> QED BY <1>1, <2>2, <2>4, <2>5, NotEnded DEF Kept
<1>3. CASE pc \in Handling
  <2>1. PICK k \in Keys : k = cur.key
    BY <1>3, HandlingState
  <2>2. touched' = touched \cup {k} /\ UNCHANGED todo
    BY <1>3, <2>1 DEF CopyFails, Touch, Handling
  <2>3. data' = data \/ data' = Put(To, k, cur.value)
    BY <1>3, <2>1 DEF CopyFails, Handling
  <2>4. \A n \in Keys \ {k}, x \in Sides : data'[x][n] = data[x][n]
    <3>1. cur.value \in Content /\ To \in Sides
      BY <1>1, <1>3, SidesAre DEF TypeOK, To, From
    <3> QED BY <1>1, <2>3, <3>1, OtherKeys
  <2> QED BY <1>1, <1>3, <2>1, <2>2, <2>4, HandleKeeps
<1> QED BY <1>2, <1>3 DEF CopyFails, Handling

(* CopiedAtEnd: when a pass has nothing left and no other follows, each     *)
(* untouched key is what its copy makes of it.                              *)
LEMMA CopiedAtEnd ==
    ASSUME IInv, pc = "copy", todo = {}, ~(opts.mode = "merge" /\ From = "source"),
           NEW k \in Keys \ touched
    PROVE  Pair(k) \in Outcomes(opts, S(k), T(k), B(k))
<1>1. CopiedSoFar(k) /\ Stages /\ CopyLoops /\ pc \in Copying /\ opts.mode \in {"push", "pull", "merge"}
  BY DEF IInv, KeyOK, Copying, Stages
<1>2. ~Uncopied(k)
  BY <1>1 DEF Uncopied, Handled, Handling, CopyLoops, Stages, From
<1> QED BY <1>1, <1>2, GoalIsCopy DEF CopiedSoFar

LEMMA CopyEndsKeeps ==
    ASSUME IInv, CopyEnds
    PROVE  Kept'
<1>1. /\ pc = "copy" /\ todo = {} /\ UNCHANGED <<data, base, opts, start, touched>>
      /\ TypeOK /\ Kept
  BY DEF CopyEnds, IInv, Kept, history
<1>2. CASE opts.mode = "merge" /\ From = "source"
  <2>1. /\ pc' = "copyList" /\ cur'.from = "target" /\ UNCHANGED <<seen, todo, plan>>
    BY <1>2, Constants, SidesAre DEF CopyEnds
  <2>2. Stages'
    BY <1>1, <1>2, <2>1 DEF Kept, Stages, Resting, Ended, Phases, Listing, Reading, Writing,
       Rebasing, Handling, Copying
  <2>3. pc \in Copying /\ pc' \in Copying /\ From' = "target" /\ Way = "push" /\ Way' = "pull"
    BY <1>1, <1>2, <2>1 DEF Copying, From, Way
  <2>4. CopyLoops' /\ Loops'
    BY <1>1, <2>1, <2>3 DEF Kept, CopyLoops, Loops, Phases, Rebasing, Handling, Copying
  <2>5. ASSUME NEW n \in Keys \ touched' PROVE KeyOK(n)'
    <3>1. CopiedSoFar(n) /\ plan[n] \in {"push", "pull", "keep"}
      BY <1>1, <1>2, <2>3 DEF Kept, KeyOK, CopyLoops
    <3>2. S(n)' = S(n) /\ T(n)' = T(n) /\ Goal(n)' = Goal(n)
      BY <1>1, <2>1, Promises
    <3>3. Pair(n)' = Pair(n) /\ AsStarted(n)' = AsStarted(n)
      BY <1>1, <3>2 DEF Pair, AsStarted
    <3>4. ~Handled(n)'
      BY <2>1 DEF Handled, Handling
    <3>5. Uncopied(n)' <=> Uncopied(n)
      BY <1>1, <1>2, <2>1, <2>3 DEF Uncopied, Handled, Handling
    <3>6. CopiedSoFar(n)'
      BY <1>1, <2>1, <2>3, <3>1, <3>2, <3>3, <3>4, <3>5 DEF CopiedSoFar
    <3> QED BY <2>3, <3>6, CopyingOnly
  <2> QED BY <1>1, <2>1, <2>2, <2>4, <2>5, NotEnded DEF Kept
<1>3. CASE ~(opts.mode = "merge" /\ From = "source")
  <2>1. pc' = "done" /\ seen' = Nothing
    BY <1>3 DEF CopyEnds, Finish
  <2>2. opts.mode \in {"push", "pull", "merge"}
    BY <1>1 DEF Kept, Stages, Copying
  <2>3. \A k \in Keys : S(k)' = S(k) /\ T(k)' = T(k) /\ B(k)' = B(k) /\ Pair(k)' = Pair(k)
    BY <1>1 DEF S, T, B, Pair
  <2>4. UntouchedKeysMerge'
    <3> SUFFICES ASSUME NEW k \in Keys \ touched'
                 PROVE  (<<data["source"][k], data["target"][k]>> \in
                            Outcomes(opts, start.data["source"][k], start.data["target"][k],
                                     start.base[k]))'
      BY DEF UntouchedKeysMerge
    <3>1. Pair(k) \in Outcomes(opts, S(k), T(k), B(k))
      BY <1>1, <1>3, CopiedAtEnd
    <3>2. Outcomes(opts, S(k), T(k), B(k))' = Outcomes(opts, S(k), T(k), B(k))
      BY <1>1, <2>3
    <3>3. Pair(k)' \in Outcomes(opts, S(k), T(k), B(k))'
      BY <2>3, <3>1, <3>2
    <3> QED BY <3>3 DEF Pair, S, T, B
  <2>5. BaselineDescribes'
    BY <1>1, <2>2 DEF BaselineDescribes
  <2> QED BY <2>1, <2>4, <2>5, Idle DEF Kept
<1> QED BY <1>2, <1>3

-----------------------------------------------------------------------------
(* The invariant holds.                                                     *)

LEMMA InitHolds == Init => IInv
<1> SUFFICES ASSUME Init PROVE IInv
  OBVIOUS
<1>1. TypeOK /\ pc = "idle" /\ seen = Nothing
  BY InitTypes DEF Init
<1>2. Stages
  BY <1>1 DEF Stages, Resting, Ended, Phases, Listing, Reading, Writing, Rebasing, Handling, Copying
<1>3. Loops /\ CopyLoops
  BY <1>1 DEF Loops, CopyLoops, Phases, Rebasing, Handling, Copying
<1>4. \A k \in Keys : KeyOK(k)
  BY <1>1 DEF KeyOK, ReadSoFar, Decided, WrittenSoFar, Halfway, RebasedSoFar, CopiedSoFar,
     Handled, Listing, Reading, Writing, Rebasing, Handling, Copying, Phases
<1>5. UntouchedKeysMerge /\ BaselineDescribes
  BY <1>1 DEF UntouchedKeysMerge, BaselineDescribes, Ended
<1> QED BY <1>1, <1>2, <1>3, <1>4, <1>5 DEF IInv

LEMMA StepKeeps == IInv /\ [Next]_vars => IInv'
<1> SUFFICES ASSUME IInv, [Next]_vars PROVE IInv'
  OBVIOUS
<1>1. TypeOK'
  BY NextTypes DEF IInv
<1>2. CASE UNCHANGED vars
  <2>1. \A k \in Keys : KeyOK(k) => KeyOK(k)'
    BY <1>2, Elsewhere DEF vars, local, history
  <2>2. Stages' /\ Loops' /\ CopyLoops'
    BY <1>2 DEF IInv, Stages, Loops, CopyLoops, Resting, Ended, Way, From, vars, local, history
  <2>3. UntouchedKeysMerge' /\ BaselineDescribes'
    BY <1>2 DEF IInv, UntouchedKeysMerge, BaselineDescribes, Planned, OneSided, Diff, Ended, vars,
       local, history
  <2>4. touched' = touched
    BY <1>2 DEF vars, history
  <2> QED BY <1>1, <2>1, <2>2, <2>3, <2>4 DEF IInv
<1>3. CASE Next
  <2>1. ASSUME Run PROVE Kept'
    BY <2>1, ListSourceKeeps, ListTargetKeeps, ReadKeeps, LoadKeeps, EndLoopKeeps, ApplyKeeps,
       SkipConflictKeeps, ResolveKeeps, ResolveBothKeeps, RebaseKeeps, RebaseTargetKeeps, SaveKeeps,
       CopyListKeeps, CopyKeeps, CopyHasKeeps, CopyCompareKeeps, CopySetKeeps, CopyEndsKeeps DEF Run
  <2>2. ASSUME Failures PROVE Kept'
    BY <2>2, ApplyFailsKeeps, ResolveFailsKeeps, SaveKeeps, CopyFailsKeeps, AbortKeeps DEF Failures
  <2>3. Kept'
    BY <1>3, <2>1, <2>2, EditKeeps, BeginKeeps DEF Next
  <2> QED BY <1>1, <2>3 DEF IInv, Kept
<1> QED BY <1>2, <1>3

LEMMA Invariance == Spec => []IInv
BY InitHolds, StepKeeps, PTL DEF Spec

(* TypeCorrect: each variable has its type, for any keys, values, hashes    *)
(* and options.                                                             *)
THEOREM TypeCorrect == Spec => []TypeOK
<1>1. IInv => TypeOK
  BY DEF IInv
<1> QED BY <1>1, Invariance, PTL

(* UntouchedKeysAreMerged: whatever users do to the other keys and whatever *)
(* fails, a key that is left alone ends a run as the three-way merge of     *)
(* what it was, or as its copy (sync.ts).                                   *)
THEOREM UntouchedKeysAreMerged == Spec => []UntouchedKeysMerge
<1>1. IInv => UntouchedKeysMerge
  BY DEF IInv
<1> QED BY <1>1, Invariance, PTL

(* BaselineIsTrue: the baseline a run saves describes such a key as it is   *)
(* on each side, and by computeSyncDiff the next run leaves it alone, but   *)
(* for a key that an unresolved edit against a deletion left on one side.   *)
THEOREM BaselineIsTrue == Spec => []BaselineDescribes
<1>1. IInv => BaselineDescribes
  BY DEF IInv
<1> QED BY <1>1, Invariance, PTL

\* A push that overwrites gives the target the source's value of each key that was
\* left alone, but for a key whose two values have one hash: that one keeps its
\* value, if unchanged values are to be skipped.
CopiedUnlessHashesMeet ==
    Ended /\ opts.mode = "push" /\ opts.overwrite =>
        \A k \in Keys \ touched :
            LET source == data["source"][k]
                before == start.data["target"][k]
            IN  source # None =>
                    \/ data["target"][k] = source
                    \/ /\ opts.skipUnchanged /\ data["target"][k] = before
                       /\ before # None /\ H(before) = H(source)

(* PushCopiesUnlessHashesMeet: for any hash, one that leaves nested fields  *)
(* out included, nothing else keeps a push that overwrites from copying     *)
(* (valuesEqual compares hashes): of PushCopies, which the code violates,   *)
(* only this exception fails.                                               *)
THEOREM PushCopiesUnlessHashesMeet == Spec => []CopiedUnlessHashesMeet
<1>1. ASSUME IInv PROVE CopiedUnlessHashesMeet
  <2> SUFFICES ASSUME Ended, opts.mode = "push", opts.overwrite, NEW k \in Keys \ touched,
                      data["source"][k] # None
               PROVE  \/ data["target"][k] = data["source"][k]
                      \/ /\ opts.skipUnchanged /\ data["target"][k] = T(k)
                         /\ T(k) # None /\ H(T(k)) = H(data["source"][k])
    BY DEF CopiedUnlessHashesMeet, T
  <2>1. Pair(k) \in Outcomes(opts, S(k), T(k), B(k))
    BY <1>1 DEF IInv, UntouchedKeysMerge, Pair, S, T, B
  <2>2. data["source"][k] = S(k) /\ data["target"][k] = Copied(opts, S(k), T(k))
    BY <2>1 DEF Outcomes, Pair
  <2> QED BY <2>2 DEF Copied
<1> QED BY <1>1, Invariance, PTL

-----------------------------------------------------------------------------
(* What a run deletes.                                                      *)

\* A step of a run deletes a value only where deletions are detected, the other
\* side has no value, and the baseline it loaded knows this very value.
OnlyKnownValuesDeleted ==
    [][\A k \in Keys \ touched', side \in Sides :
         edits' = edits /\ data[side][k] # None /\ data'[side][k] = None =>
             /\ opts.mode = "sync" /\ opts.detect
             /\ data[Other(side)][k] = None
             /\ H(data[side][k]) = start.base[k][side]]_vars

(* PutDeletes: a write deletes only the value it writes nothing over.       *)
LEMMA PutDeletes ==
    ASSUME TypeOK, NEW x \in Sides, NEW j \in Keys, NEW v \in Content, data' = Put(x, j, v),
           NEW side \in Sides, NEW k \in Keys, data[side][k] # None, data'[side][k] = None
    PROVE  side = x /\ k = j /\ v = None
BY PutTypes DEF TypeOK

(* DiffDeletes: what the plans of computeSyncDiff say of the two hashes.    *)
LEMMA DiffDeletes ==
    ASSUME NEW s, NEW t, NEW b
    PROVE  /\ Diff(s, t, b) = "push" => s # None
           /\ Diff(s, t, b) = "pull" => t # None
           /\ Diff(s, t, b) = "dropSource" => opts.detect /\ t = None /\ s = b["source"]
           /\ Diff(s, t, b) = "dropTarget" => opts.detect /\ s = None /\ t = b["target"]
BY DEF Diff

LEMMA ApplyDeletes ==
    ASSUME IInv, NEW j \in Keys, Apply(j), NEW k \in Keys \ touched, NEW side \in Sides,
           data[side][k] # None, data'[side][k] = None
    PROVE  /\ opts.mode = "sync" /\ opts.detect
           /\ data[Other(side)][k] = None
           /\ H(data[side][k]) = start.base[k][side]
<1>1. TypeOK /\ ByRule /\ pc \in Phases /\ j \in todo /\ data' = Written(j)
  BY DEF IInv, Apply, ByRule
<1>2. PICK x \in Sides, v \in Content : data' = Put(x, j, v)
  BY <1>1, WrittenIsPut
<1>3. k = j
  BY <1>1, <1>2, PutDeletes
<1>4. /\ plan[k] = pc /\ AsStarted(k)
      /\ seen["source"][k] = S(k) /\ seen["target"][k] = T(k)
      /\ plan[k] = Diff(H(S(k)), H(T(k)), B(k))
  BY <1>1, <1>3, PhaseState
<1>5. S(k) \in Content /\ T(k) \in Content
  BY <1>1, SidesAre DEF TypeOK, Contents, S, T
<1> DEFINE s == H(S(k))
           t == H(T(k))
           b == B(k)
<1>12. plan[k] = Diff(s, t, b)
  BY <1>4
<1>13. /\ S(k) = None <=> s = None
       /\ T(k) = None <=> t = None
  BY <1>5, HashTypes
<1>14. /\ s = H(S(k)) /\ t = H(T(k)) /\ b = B(k)
  OBVIOUS
<1> HIDE DEF s, t, b
<1>15. /\ plan[k] = "push" => s # None
       /\ plan[k] = "pull" => t # None
       /\ plan[k] = "dropSource" => opts.detect /\ t = None /\ s = b["source"]
       /\ plan[k] = "dropTarget" => opts.detect /\ s = None /\ t = b["target"]
  BY <1>12, DiffDeletes
<1>6. pc = "push" => S(k) # None
  BY <1>4, <1>13, <1>15
<1>7. pc = "pull" => T(k) # None
  BY <1>4, <1>13, <1>15
<1>8. pc \notin {"push", "pull", "conflict"}
  <2>1. CASE pc = "push" \/ (pc = "conflict" /\ opts.resolution = "source")
    <3>1. data' = Put("target", k, S(k)) /\ S(k) # None
      BY <1>1, <1>3, <1>4, <1>6, <2>1, WrittenIsPut, SidesAre DEF Apply, Winner
    <3> QED BY <1>1, <1>5, <3>1, PutDeletes, SidesAre
  <2>2. CASE pc = "pull" \/ (pc = "conflict" /\ opts.resolution = "target")
    <3>1. data' = Put("source", k, T(k)) /\ T(k) # None
      BY <1>1, <1>3, <1>4, <1>7, <2>2, WrittenIsPut, SidesAre DEF Apply, Winner
    <3> QED BY <1>1, <1>5, <3>1, PutDeletes, SidesAre
  <2>3. pc = "conflict" => opts.resolution \in {"source", "target"}
    BY <1>1, SidesAre DEF ByRule
  <2> QED BY <2>1, <2>2, <2>3
<1>9. opts.mode = "sync"
  BY <1>1 DEF IInv, Stages, Writing
<1>10. CASE pc = "dropSource"
  <2>1. opts.detect /\ H(T(k)) = None /\ H(S(k)) = B(k)["source"]
    BY <1>4, <1>14, <1>15, <1>10
  <2>2. side = "source"
    BY <1>1, <1>3, <1>10, WrittenIsPut, PutDeletes, HashTypes, SidesAre
  <2> QED BY <1>4, <1>5, <1>9, <2>1, <2>2, HashTypes, SidesAre DEF AsStarted, B
<1>11. CASE pc = "dropTarget"
  <2>1. opts.detect /\ H(S(k)) = None /\ H(T(k)) = B(k)["target"]
    BY <1>4, <1>14, <1>15, <1>11
  <2>2. side = "target"
    BY <1>1, <1>3, <1>11, WrittenIsPut, PutDeletes, HashTypes, SidesAre
  <2> QED BY <1>4, <1>5, <1>9, <2>1, <2>2, HashTypes, SidesAre DEF AsStarted, B
<1> QED BY <1>1, <1>8, <1>10, <1>11 DEF Phases

(* OnlyKnownValuesAreDeleted: in any mode, whatever users do to other keys  *)
(* and whatever fails, a run deletes no value of a key left alone but one   *)
(* that its baseline records and that the other side has lost (sync.ts:510). *)
(* A conflict that was skipped is deleted later (SkipPreserves) because the *)
(* baseline records it, and for no other reason.                            *)
THEOREM OnlyKnownValuesAreDeleted == Spec => OnlyKnownValuesDeleted
<1> DEFINE Deleted(k, side) == edits' = edits /\ data[side][k] # None /\ data'[side][k] = None
           Known(k, side) == /\ opts.mode = "sync" /\ opts.detect
                             /\ data[Other(side)][k] = None
                             /\ H(data[side][k]) = start.base[k][side]
<1>1. ASSUME IInv, [Next]_vars, NEW k \in Keys \ touched', NEW side \in Sides, Deleted(k, side)
      PROVE  Known(k, side)
  <2>1. TypeOK
    BY <1>1 DEF IInv
  <2>2. ASSUME NEW j \in Keys, Apply(j) PROVE Known(k, side)
    BY <1>1, <2>2, ApplyDeletes DEF Apply, history
  <2>3. ASSUME NEW x \in Sides, NEW j \in Keys, NEW v \in Values, data' = Put(x, j, v) PROVE FALSE
    BY <1>1, <2>1, <2>3, PutDeletes, HashTypes DEF Content
  <2>4. ASSUME NEW j \in Keys, ApplyFails(j) PROVE FALSE
    <3>1. PICK x \in Sides, v \in Content : Written(j) = Put(x, j, v)
      BY <2>1, <2>4, WrittenIsPut DEF ApplyFails
    <3>2. data' = Put(x, j, v) /\ k # j
      BY <1>1, <2>4, <3>1 DEF ApplyFails, Touch
    <3> QED BY <1>1, <2>1, <3>2, PutDeletes
  <2>5. ASSUME NEW j \in Keys, Resolve(j) PROVE FALSE
    BY <1>1, <2>3, <2>5, SidesAre DEF Resolve
  <2>6. ~ResolveBoth
    BY <1>1, <2>3, SidesAre DEF ResolveBoth, IInv, Stages
  <2>7. ~CopySet /\ ~CopyFails
    <3>1. To \in Sides
      BY <2>1, SidesAre DEF To, TypeOK
    <3>2. pc = "copySet" => cur.key \in Keys /\ cur.value \in Values
      BY <1>1 DEF IInv, Stages, Handling
    <3> QED BY <1>1, <2>3, <3>1, <3>2 DEF CopySet, CopyFails
  <2>8. data' # data /\ edits' = edits
    BY <1>1
  <2>9. ~Run \/ \E j \in Keys : Apply(j)
    BY <2>5, <2>6, <2>7, <2>8 DEF Run, ListSource, ListTarget, Load, Decide, EndLoop, Read,
       SkipConflict, Rebase, RebaseTarget, Save, CopyList, Copy, CopyHas, CopyCompare, CopyEnds
  <2>10. ~Failures
    BY <2>4, <2>7, <2>8 DEF Failures, ResolveFails, SaveFails, Abort
  <2>11. /\ \A x \in Sides, j \in Keys, v \in Content : ~Edit(x, j, v)
         /\ \A o \in Options : ~Begin(o)
    BY <2>1, <2>8 DEF Edit, Begin, TypeOK
  <2>12. ~UNCHANGED vars
    BY <2>8 DEF vars
  <2> QED BY <1>1, <2>2, <2>9, <2>10, <2>11, <2>12 DEF Next
<1>2. ASSUME IInv, [Next]_vars
      PROVE  [\A k \in Keys \ touched', side \in Sides : Deleted(k, side) => Known(k, side)]_vars
  BY <1>1, <1>2
<1> QED BY <1>2, Invariance, PTL DEF Spec, OnlyKnownValuesDeleted
=============================================================================
