--------------------------- MODULE OverlayProofs ---------------------------
(* The overlay for any number of calls, keys and values: types, what reads, *)
(* commits and snapshots return, and what reaches the base.                 *)
EXTENDS Overlay, TLAPS

Requested == [op : Ops, key : Keys, value : Content]
Locals == [key : Keys, value : Content, keep : SUBSET Keys, todo : SUBSET Keys,
           copy : Contents]
Over == {"idle", "done", "failed"}

-----------------------------------------------------------------------------
(* The inductive invariant.  Of keys that are exposed it says nothing.      *)

\* Which labels a call can be at.
OpOfLabel(t) ==
    LET op == req[t].op IN
    /\ pc[t] \in {"hasTomb", "dropTomb", "write"} => op = "set"
    /\ pc[t] \in {"hasOver", "dropOver", "bury"} => op = "delete"
    /\ pc[t] \in {"getTomb", "getOver", "getBase"} => op \in {"get", "snapshot"}
    /\ pc[t] = "answer" => op = "get"
    /\ pc[t] = "clear" => op \in Wide
    /\ pc[t] = "replay" => op = "restore"
    /\ pc[t] = "queued" => op \in Locked
    /\ pc[t] \in {"listOver", "readOver", "publish", "unpublish"} => op = "commit"
    /\ pc[t] \in {"snapTomb", "snapBase", "capture"} => op = "snapshot"

\* A key is deleted or shadowed, not both.
OneOrOther == \A k \in Safe \cap tomb : over[k] = None

\* Nothing is expected of a key that a running call writes, or of an exposed one.
Undetermined ==
    /\ \A k \in exposed : expect[k] = Unknown
    /\ \A t \in Tasks : Live(t) =>
          \A k \in Touches(Op(t), req[t].key) : expect[k] = Unknown

\* The keys that two calls must not meet on.
Clash(t, u) ==
    LET mine == Touches(Op(t), req[t].key)
        theirs == Touches(Op(u), req[u].key)
    IN IF Op(t) \in Locked \/ Op(u) \in Locked THEN mine \cup theirs ELSE mine \cap theirs

ClashesExposed ==
    \A t, u \in Tasks : t # u /\ Live(t) /\ Live(u) => Clash(t, u) \subseteq exposed

\* The queue lists the live commits and snapshots, once each, and only its head
\* is at work.
Queued ==
    /\ \A i \in 1..Len(queue) : Live(queue[i]) /\ Op(queue[i]) \in Locked
    /\ \A i, j \in 1..Len(queue) : queue[i] = queue[j] => i = j
    /\ \A t \in Tasks : Live(t) /\ Op(t) \in Locked =>
          /\ \E i \in 1..Len(queue) : queue[i] = t
          /\ pc[t] # "queued" => Head(queue) = t

\* A set that writes has found no tombstone, or dropped it; a delete that writes
\* one has dropped the value; a restore has replayed what is not left to do.
WriteProgress(t) ==
    /\ pc[t] \in {"hasTomb", "dropTomb", "write"} => req[t].value # None
    /\ pc[t] = "write" /\ req[t].key \in Safe => req[t].key \notin tomb
    /\ pc[t] = "bury" /\ req[t].key \in Safe => over[req[t].key] = None
    /\ pc[t] = "replay" => \A k \in Safe :
          /\ k \notin tomb
          /\ k \notin loc[t].todo => over[k] = loc[t].copy[k]

\* A get reads its own key; once it has passed the tombstone, what the base has
\* was visible, or is hidden by a value.
GetProgress(t) ==
    Live(t) /\ Op(t) = "get" =>
        /\ loc[t].key = req[t].key
        /\ View[req[t].key] \in seen[t]
        /\ req[t].key \in Safe =>
              /\ pc[t] = "getOver" => \/ base[req[t].key] \in seen[t]
                                      \/ req[t].key \notin tomb /\ over[req[t].key] # None
              /\ pc[t] = "getBase" => base[req[t].key] \in seen[t]
              /\ pc[t] = "answer" => loc[t].value \in seen[t]

\* What a commit has copied to the base, and which deletions it knows.
CommitProgress(t) ==
    LET l == loc[t] IN
    /\ pc[t] \in {"listOver", "readOver", "publish"} =>
          \A k \in Safe \cap tomb : base[k] # None => k \in l.keep
    /\ pc[t] \in {"readOver", "publish", "unpublish"} =>
          \A k \in Safe : \/ over[k] \in {None, base[k]}
                          \/ k \in l.todo /\ pc[t] # "unpublish"
                          \/ k = l.key /\ pc[t] = "publish"
    /\ pc[t] = "publish" /\ l.key \in Safe => l.value = over[l.key] /\ l.value # None
    /\ pc[t] = "unpublish" => \A k \in Safe : IF k \in l.todo THEN k \in tomb
                                              ELSE k \in tomb => base[k] = None

\* What a snapshot has captured.
SnapshotProgress(t) ==
    LET l == loc[t] IN
    /\ pc[t] \in {"queued", "snapTomb", "snapBase"} => l.copy = Nothing
    /\ pc[t] \in {"snapTomb", "snapBase"} =>
          \A k \in Safe : over[k] # None <=> k \in l.keep
    /\ pc[t] = "snapBase" => \A k \in Safe : k \in l.todo <=> k \in tomb
    /\ Op(t) = "snapshot" /\ pc[t] \in {"capture", "getTomb", "getOver", "getBase"} =>
          \A k \in Safe \ l.todo : l.copy[k] = View[k] \/ (k = l.key /\ pc[t] # "capture")
    /\ Op(t) = "snapshot" /\ l.key \in Safe =>
          /\ pc[t] = "getOver" => l.key \notin tomb
          /\ pc[t] = "getBase" => l.key \notin tomb /\ over[l.key] = None

TaskOK(t) ==
    OpOfLabel(t) /\ WriteProgress(t) /\ GetProgress(t) /\ CommitProgress(t) /\ SnapshotProgress(t)

IInv ==
    /\ TypeOK
    /\ OneOrOther
    /\ Undetermined
    /\ ClashesExposed
    /\ Queued
    /\ \A t \in Tasks : TaskOK(t)
    /\ WritesKept
-----------------------------------------------------------------------------
(* Types and constants.                                                     *)

LEMMA SomeKeyIsKey == SomeKey \in Keys
  BY OverlayAssumption DEF SomeKey

LEMMA FreshTypes == NoRequest \in Requested /\ FreshLocals \in Locals /\ Nothing \in Contents
  BY SomeKeyIsKey DEF NoRequest, FreshLocals, Requested, Locals, Nothing, Contents, Content, Ops

LEMMA TypesOf ==
  ASSUME TypeOK
  PROVE  /\ base \in Contents /\ over \in Contents /\ tomb \in SUBSET Keys
         /\ pc \in [Tasks -> PCs]
         /\ req \in [Tasks -> Requested]
         /\ loc \in [Tasks -> Locals]
         /\ View \in Contents
  BY DEF TypeOK, Requested, Locals, View, Contents, Content

LEMMA TaskTypes ==
  ASSUME IInv, NEW t \in Tasks
  PROVE  /\ req[t] \in Requested /\ loc[t] \in Locals /\ pc[t] \in PCs /\ TaskOK(t)
         /\ Touches(Op(t), req[t].key) \subseteq Keys
<1>1. req[t] \in Requested /\ loc[t] \in Locals /\ pc[t] \in PCs /\ TaskOK(t)
  BY TypesOf DEF IInv
<1>2. Touches(Op(t), req[t].key) \subseteq Keys
  BY <1>1 DEF Touches, Op, Requested
<1> QED BY <1>1, <1>2

LEMMA TouchesOf ==
  ASSUME NEW op \in Ops, NEW key
  PROVE  /\ op \in {"set", "delete"} => Touches(op, key) = {key}
         /\ op \in Wide => Touches(op, key) = Keys
         /\ op \notin {"set", "delete"} \cup Wide => Touches(op, key) = {}
  BY DEF Touches, Wide, Ops, Locked

LEMMA Watched ==
  ASSUME TypeOK, Watch, View' \in Contents, req' \in [Tasks -> Requested]
  PROVE  /\ seen' \in [Tasks -> SUBSET Content]
         /\ \A u \in Tasks : Live(u)' /\ Op(u)' = "get" =>
               seen'[u] = seen[u] \cup {View'[req'[u].key]}
  BY DEF TypeOK, Watch, Contents, Requested, Op

-----------------------------------------------------------------------------
(* What a step of call t does to the files, to keys that are not exposed.   *)

Same(k) == over'[k] = over[k] /\ base'[k] = base[k] /\ (k \in tomb' <=> k \in tomb)
Hidden(k) == k \notin tomb /\ over[k] # None
Writes(t, k) == Live(t) /\ k \in Touches(Op(t), req[t].key)
Commits(t) == Live(t) /\ Op(t) = "commit" /\ pc[t] # "queued"

\* Only the writes of a key and a commit at work change it, only a write what is
\* visible; the base gets what is visible; what hides the base stays or bares it.
FilesFollow(t) ==
    \A k \in Safe' :
        /\ Same(k) \/ Writes(t, k) \/ Commits(t)
        /\ Same(k) \/ Writes(t, k) \/ View'[k] = View[k]
        /\ base'[k] = base[k] \/ (base'[k] = View[k] /\ View'[k] = View[k])
        /\ Hidden(k) => Hidden(k)' \/ View'[k] = base'[k]

FilesOK(t) ==
    /\ base' \in Contents /\ over' \in Contents /\ tomb' \in SUBSET Keys
    /\ OneOrOther'
    /\ FilesFollow(t)

LEMMA SameView ==
  ASSUME NEW k \in Keys, Same(k) PROVE View'[k] = View[k]
  BY DEF Same, View

LEMMA FilesUnchanged ==
  ASSUME IInv, NEW t \in Tasks, UNCHANGED files, exposed \subseteq exposed'
  PROVE  FilesOK(t)
  BY DEF FilesOK, files, IInv, TypeOK, OneOrOther, Safe, FilesFollow, Same, Hidden

\* The effect of a call of an inner adapter.
LEMMA EffectFollows ==
  ASSUME IInv, NEW t \in Tasks, Live(t), UNCHANGED exposed, <<base', over', tomb'>> = Effect(t)
  PROVE  FilesOK(t)
<1> DEFINE k == req[t].key
<1> USE TaskTypes, TypesOf, FreshTypes DEF IInv
<1>0. k \in Keys /\ req[t].value \in Content /\ None \in Content
  BY DEF Requested, Content
<1>1. CASE pc[t] = "dropTomb"
  <2>1. base' = base /\ over' = over /\ tomb' = tomb \ {k}
    BY <1>1 DEF Effect
  <2>2. Op(t) = "set"
    BY <1>1 DEF TaskOK, OpOfLabel, Op
  <2>3. \A i \in Keys : Writes(t, i) <=> i = k
    BY <2>2 DEF Writes, Touches, Wide
  <2> QED BY <1>0, <2>1, <2>3
    DEF FilesOK, FilesFollow, Safe, OneOrOther, Same, View, Hidden
<1>2. CASE pc[t] = "write"
  <2>1. base' = base /\ over' = [over EXCEPT ![k] = req[t].value] /\ tomb' = tomb
    BY <1>2 DEF Effect
  <2>2. Op(t) = "set" /\ (k \in Safe => k \notin tomb)
    BY <1>2 DEF TaskOK, OpOfLabel, WriteProgress, Op
  <2>3. \A i \in Keys : Writes(t, i) <=> i = k
    BY <2>2 DEF Writes, Touches, Wide
  <2>4. over' \in Contents /\ over'[k] = req[t].value /\ \A i \in Keys \ {k} : over'[i] = over[i]
    BY <1>0, <2>1 DEF Contents
  <2> QED BY <1>0, <2>1, <2>2, <2>3, <2>4
    DEF FilesOK, FilesFollow, Safe, OneOrOther, Same, View, Hidden
<1>3. CASE pc[t] = "dropOver"
  <2>1. base' = base /\ over' = [over EXCEPT ![k] = None] /\ tomb' = tomb
    BY <1>3 DEF Effect
  <2>2. Op(t) = "delete"
    BY <1>3 DEF TaskOK, OpOfLabel, Op
  <2>3. \A i \in Keys : Writes(t, i) <=> i = k
    BY <2>2 DEF Writes, Touches, Wide
  <2>4. over' \in Contents /\ over'[k] = None /\ \A i \in Keys \ {k} : over'[i] = over[i]
    BY <1>0, <2>1 DEF Contents
  <2> QED BY <1>0, <2>1, <2>3, <2>4
    DEF FilesOK, FilesFollow, Safe, OneOrOther, Same, View, Hidden
<1>4. CASE pc[t] = "bury"
  <2>1. base' = base /\ over' = over /\ tomb' = tomb \cup {k}
    BY <1>4 DEF Effect
  <2>2. Op(t) = "delete" /\ (k \in Safe => over[k] = None)
    BY <1>4 DEF TaskOK, OpOfLabel, WriteProgress, Op
  <2>3. \A i \in Keys : Writes(t, i) <=> i = k
    BY <2>2 DEF Writes, Touches, Wide
  <2> QED BY <1>0, <2>1, <2>2, <2>3
    DEF FilesOK, FilesFollow, Safe, OneOrOther, Same, View, Hidden
<1>5. CASE pc[t] = "publish"
  <2> DEFINE p == loc[t].key
  <2>1. base' = [base EXCEPT ![p] = loc[t].value] /\ over' = over /\ tomb' = tomb
    BY <1>5 DEF Effect
  <2>2. Commits(t) /\ p \in Keys /\ loc[t].value \in Content
    BY <1>5 DEF TaskOK, OpOfLabel, Op, Commits, Locals
  <2>3. p \in Safe => loc[t].value = over[p] /\ loc[t].value # None /\ p \notin tomb
    BY <1>5 DEF TaskOK, CommitProgress, OneOrOther
  <2>4. base' \in Contents /\ base'[p] = loc[t].value /\ \A i \in Keys \ {p} : base'[i] = base[i]
    BY <2>1, <2>2 DEF Contents
  <2> QED BY <2>1, <2>2, <2>3, <2>4
    DEF FilesOK, FilesFollow, Safe, OneOrOther, Same, View, Hidden
<1>6. CASE pc[t] = "clear"
  <2>1. base' = base /\ over' = Nothing /\ tomb' = {}
    BY <1>6 DEF Effect
  <2>2. Op(t) \in Wide
    BY <1>6 DEF TaskOK, OpOfLabel, Op
  <2>3. \A i \in Keys : Writes(t, i)
    BY <2>2 DEF Writes, Touches, Wide
  <2> QED BY <2>1, <2>3
    DEF FilesOK, FilesFollow, Safe, OneOrOther, Same, View, Hidden, Nothing
<1>7. CASE pc[t] = "unpublish" /\ loc[t].todo = {}
  <2>1. base' = base /\ over' = Nothing /\ tomb' = {}
    BY <1>7 DEF Effect
  <2>2. Commits(t)
    BY <1>7 DEF TaskOK, OpOfLabel, Op, Commits
  <2>3. \A i \in Safe : /\ over[i] \in {None, base[i]}
                        /\ i \in tomb => base[i] = None
    BY <1>7 DEF TaskOK, CommitProgress
  <2>4. \A i \in Safe : View[i] = base[i] /\ View'[i] = base'[i]
    BY <2>1, <2>3 DEF View, Nothing, Safe
  <2> QED BY <2>1, <2>2, <2>4
    DEF FilesOK, FilesFollow, Safe, OneOrOther, Same, Hidden, Nothing
<1>8. CASE ~(pc[t] \in {"dropTomb", "write", "dropOver", "bury", "publish", "clear"})
           /\ ~(pc[t] = "unpublish" /\ loc[t].todo = {})
  <2>1. Effect(t) = files
    BY <1>8 DEF Effect
  <2> QED BY <2>1, FilesUnchanged DEF files
<1> QED BY <1>1, <1>2, <1>3, <1>4, <1>5, <1>6, <1>7, <1>8

-----------------------------------------------------------------------------
(* What a step of call t leaves of the invariant for the other calls.       *)

OthersStay(t) ==
    \A u \in Tasks \ {t} : pc'[u] = pc[u] /\ req'[u] = req[u] /\ loc'[u] = loc[u]

\* Two live calls do not write one key, nor one of them while the other is a
\* commit or a snapshot, unless the key is exposed.
LEMMA NoClash ==
  ASSUME IInv, NEW t \in Tasks, NEW u \in Tasks \ {t}, Live(u), NEW k \in Safe, Writes(t, k)
  PROVE  ~Writes(u, k) /\ Op(u) \notin Locked
<1>1. k \notin Clash(t, u)
  BY DEF IInv, ClashesExposed, Safe, Writes
<1> QED BY <1>1 DEF Clash, Writes

\* One commit or snapshot is at work at a time, and no safe key is written then.
LEMMA CommitAlone ==
  ASSUME IInv, NEW t \in Tasks, NEW u \in Tasks \ {t}, Live(u), NEW k \in Safe, Commits(t)
  PROVE  ~Writes(u, k) /\ (Op(u) \in Locked => pc[u] = "queued")
<1>1. k \notin Clash(t, u)
  BY DEF IInv, ClashesExposed, Safe, Commits
<1>2. Op(t) \in Locked
  BY DEF Commits, Locked
<1>3. ~Writes(u, k)
  BY <1>1, <1>2 DEF Clash, Writes
<1>4. Op(u) \in Locked /\ pc[u] # "queued" => t = u
  BY <1>2 DEF IInv, Queued, Commits
<1> QED BY <1>3, <1>4

LEMMA OthersKept ==
  ASSUME IInv, NEW t \in Tasks, NEW u \in Tasks \ {t}, OthersStay(t),
         exposed \subseteq exposed', FilesFollow(t),
         View' \in Contents, req' \in [Tasks -> Requested], Watch
  PROVE  TaskOK(u)'
<1>1. CASE ~Live(u)
  BY <1>1 DEF OthersStay, Live, TaskOK, OpOfLabel, WriteProgress, GetProgress,
              CommitProgress, SnapshotProgress, Op
<1>2. CASE Live(u)
  <2>1. /\ pc'[u] = pc[u] /\ req'[u] = req[u] /\ loc'[u] = loc[u]
        /\ TaskOK(u) /\ req[u] \in Requested /\ loc[u] \in Locals
        /\ Op(u)' = Op(u) /\ Live(u)' /\ Op(u) \in Ops
    BY <1>2, TaskTypes DEF OthersStay, Op, Live, Requested
  <2>2. Safe' \subseteq Safe /\ Safe \subseteq Keys
    BY DEF Safe
  <2>3. ASSUME NEW k \in Safe', Writes(u, k) \/ (Op(u) \in Locked /\ pc[u] # "queued")
        PROVE  Same(k)
    BY <1>2, <2>2, <2>3, NoClash, CommitAlone DEF FilesFollow
  <2>4. OpOfLabel(u)'
    BY <2>1 DEF TaskOK, OpOfLabel
  <2>5. WriteProgress(u)'
    <3>1. CASE pc[u] \notin {"write", "bury", "replay"}
      BY <2>1, <3>1 DEF TaskOK, WriteProgress
    <3>2. CASE pc[u] \in {"write", "bury", "replay"}
      <4>1. Op(u) \in {"set", "delete", "restore"} /\ (pc[u] = "replay" => Op(u) = "restore")
        BY <2>1, <3>2 DEF TaskOK, OpOfLabel, Op
      <4>2. /\ Writes(u, req[u].key)
            /\ pc[u] = "replay" => \A k \in Safe' : Writes(u, k)
        BY <1>2, <2>1, <2>2, <4>1, TouchesOf DEF Writes, Wide, Requested
      <4> QED BY <2>1, <2>2, <2>3, <4>2 DEF TaskOK, WriteProgress, Same
    <3> QED BY <3>1, <3>2
  <2>6. GetProgress(u)'
    <3> SUFFICES ASSUME Op(u) = "get" PROVE GetProgress(u)'
      BY <2>1 DEF GetProgress
    <3>0. PICK k \in Keys : k = req[u].key
      BY <2>1 DEF Requested
    <3>1. seen'[u] = seen[u] \cup {View'[k]}
      BY <2>1, <3>0, Watched DEF IInv
    <3>2. View[k] \in seen[u] /\ loc[u].key = k
      BY <1>2, <2>1, <3>0 DEF TaskOK, GetProgress
    <3>3. ASSUME k \in Safe', base[k] \in seen[u] PROVE base'[k] \in seen'[u]
      BY <3>1, <3>2, <3>3 DEF FilesFollow
    <3>4. ASSUME k \in Safe', Hidden(k) PROVE Hidden(k)' \/ base'[k] \in seen'[u]
      BY <3>1, <3>4 DEF FilesFollow
    <3> QED BY <1>2, <2>1, <2>2, <3>0, <3>1, <3>2, <3>3, <3>4 DEF TaskOK, GetProgress, Hidden
  <2>7. CommitProgress(u)'
    <3>1. CASE pc[u] \notin {"listOver", "readOver", "publish", "unpublish"}
      BY <2>1, <3>1 DEF CommitProgress
    <3>2. CASE pc[u] \in {"listOver", "readOver", "publish", "unpublish"}
      <4>1. Op(u) \in Locked /\ pc[u] # "queued"
        BY <2>1, <3>2 DEF TaskOK, OpOfLabel, Op, Locked
      <4>2. \A k \in Safe' : k \in Safe /\ Same(k)
        BY <2>2, <2>3, <4>1
      <4> QED BY <2>1, <4>2 DEF TaskOK, CommitProgress, Same
    <3> QED BY <3>1, <3>2
  <2>8. SnapshotProgress(u)'
    <3>1. CASE Op(u) # "snapshot" \/ pc[u] = "queued"
      <4>1. pc[u] \notin {"snapTomb", "snapBase", "capture"}
        BY <2>1, <3>1 DEF TaskOK, OpOfLabel, Op
      <4>2. Op(u) = "snapshot" => pc[u] \notin {"getTomb", "getOver", "getBase"}
        BY <3>1
      <4> QED BY <2>1, <4>1, <4>2 DEF TaskOK, SnapshotProgress
    <3>2. CASE Op(u) = "snapshot" /\ pc[u] # "queued"
      <4>1. \A k \in Safe' : k \in Safe /\ Same(k) /\ View'[k] = View[k]
        BY <2>2, <2>3, <3>2, SameView DEF Locked
      <4>2. loc[u].key \in Keys
        BY <2>1 DEF Locals
      <4> QED BY <2>1, <3>2, <4>1, <4>2 DEF TaskOK, SnapshotProgress, Same
    <3> QED BY <3>1, <3>2
  <2> QED BY <2>4, <2>5, <2>6, <2>7, <2>8 DEF TaskOK
<1> QED BY <1>1, <1>2

-----------------------------------------------------------------------------
(* The queue.                                                               *)

\* A live call goes on; one that has the lock is the head.
LEMMA QueueKept ==
  ASSUME IInv, NEW t \in Tasks, Live(t), NEW label \in PCs \ Over, Goto(t, label),
         UNCHANGED <<req, queue>>, Op(t) \in Locked => Head(queue) = t
  PROVE  Queued'
<1>1. \A u \in Tasks : Live(u)' = Live(u) /\ Op(u)' = Op(u)
  BY TypesOf DEF IInv, Goto, Live, Op, Over
<1>2. \A i \in 1..Len(queue) : queue[i] \in Tasks
  BY DEF IInv, TypeOK
<1>3. \A u \in Tasks \ {t} : pc'[u] = pc[u]
  BY TypesOf DEF IInv, Goto
<1> QED BY <1>1, <1>2, <1>3 DEF IInv, Queued

\* A call ends; one that has the lock lets the next one in.
LEMMA QueuePopped ==
  ASSUME IInv, NEW t \in Tasks, Live(t), NEW label \in {"done", "failed"}, End(t, label),
         Op(t) \in Locked => Head(queue) = t
  PROVE  Queued' /\ queue' \in Seq(Tasks)
<1>1. \A u \in Tasks \ {t} : Live(u)' = Live(u) /\ Op(u)' = Op(u) /\ pc'[u] = pc[u]
  BY TypesOf DEF IInv, End, Goto, Live, Op
<1>2. ~Live(t)'
  BY TypesOf DEF IInv, End, Goto, Live
<1>3. \A i \in 1..Len(queue) : queue[i] \in Tasks
  BY DEF IInv, TypeOK
<1>4. CASE Op(t) \notin Locked
  <2>1. queue' = queue
    BY <1>4 DEF End
  <2>2. \A i \in 1..Len(queue) : queue[i] # t
    BY <1>4 DEF IInv, Queued
  <2>3. \A i \in 1..Len(queue) : Live(queue[i]) /\ Op(queue[i]) \in Locked
    BY DEF IInv, Queued
  <2>4. \A i \in 1..Len(queue') : pc'[queue'[i]] \notin Over /\ req'[queue'[i]].op \in Locked
    <3> TAKE i \in 1..Len(queue')
    <3>1. PICK u \in Tasks \ {t} : u = queue'[i] /\ u = queue[i]
      BY <1>3, <2>1, <2>2
    <3> QED BY <1>1, <2>1, <2>3, <3>1 DEF Live, Op, Over
  <2>5. \A i, j \in 1..Len(queue') : queue'[i] = queue'[j] => i = j
    BY <2>1 DEF IInv, Queued
  <2>6. ASSUME NEW u \in Tasks, Live(u)', Op(u)' \in Locked
        PROVE  (\E i \in 1..Len(queue') : queue'[i] = u) /\ (pc'[u] # "queued" => Head(queue') = u)
    <3>1. u # t /\ Live(u) /\ Op(u) \in Locked /\ pc[u] = pc'[u]
      BY <1>1, <1>2, <2>6
    <3> QED BY <2>1, <3>1 DEF IInv, Queued
  <2>7. queue' \in Seq(Tasks)
    BY <2>1 DEF IInv, TypeOK
  <2> QED BY <2>4, <2>5, <2>6, <2>7 DEF Queued, Live, Op, Over
<1>5. CASE Op(t) \in Locked
  <2>1. queue \in Seq(Tasks) /\ queue # <<>> /\ queue[1] = t
    BY <1>5 DEF IInv, TypeOK, Queued
  <2>2. /\ queue' \in Seq(Tasks) /\ Len(queue') = Len(queue) - 1
        /\ \A i \in 1..Len(queue') : queue'[i] = queue[i + 1] /\ i + 1 \in 1..Len(queue)
    BY <1>5, <2>1 DEF End
  <2>3. \A i \in 1..Len(queue) : queue[i] = t => i = 1
    BY <2>1 DEF IInv, Queued
  <2>4. \A i \in 1..Len(queue') : queue'[i] \in Tasks \ {t}
    BY <1>3, <2>1, <2>2, <2>3
  <2>5. \A i \in 1..Len(queue') : pc'[queue'[i]] \notin Over /\ req'[queue'[i]].op \in Locked
    <3> TAKE i \in 1..Len(queue')
    <3>1. PICK u \in Tasks \ {t} : u = queue'[i] /\ u = queue[i + 1] /\ i + 1 \in 1..Len(queue)
      BY <2>2, <2>4
    <3>2. Live(u) /\ Op(u) \in Locked
      BY <3>1 DEF IInv, Queued
    <3> QED BY <1>1, <3>1, <3>2 DEF Live, Op, Over
  <2>6. \A i, j \in 1..Len(queue') : queue'[i] = queue'[j] => i = j
    BY <2>1, <2>2 DEF IInv, Queued
  <2>7. ASSUME NEW u \in Tasks, Live(u)', Op(u)' \in Locked
        PROVE  (\E i \in 1..Len(queue') : queue'[i] = u) /\ (pc'[u] # "queued" => Head(queue') = u)
    <3>1. u # t /\ Live(u) /\ Op(u) \in Locked /\ pc[u] = pc'[u]
      BY <1>1, <1>2, <2>7
    <3>2. PICK i \in 1..Len(queue) : queue[i] = u
      BY <3>1 DEF IInv, Queued
    <3>3. i # 1 /\ i - 1 \in 1..Len(queue')
      BY <2>1, <2>2, <3>1, <3>2
    <3>4. pc[u] = "queued"
      BY <2>1, <3>1 DEF IInv, Queued
    <3> QED BY <2>2, <3>1, <3>2, <3>3, <3>4
  <2> QED BY <2>2, <2>5, <2>6, <2>7 DEF Queued, Live, Op, Over
<1> QED BY <1>4, <1>5

LEMMA QueueAppended ==
  ASSUME IInv, NEW t \in Tasks, ~Live(t), NEW op \in Locked, Goto(t, "queued"),
         req' \in [Tasks -> Requested], \A u \in Tasks \ {t} : req'[u] = req[u],
         Op(t)' = op, queue' = Append(queue, t)
  PROVE  Queued' /\ queue' \in Seq(Tasks)
<1>1. \A u \in Tasks \ {t} : Live(u)' = Live(u) /\ Op(u)' = Op(u) /\ pc'[u] = pc[u]
  BY TypesOf DEF IInv, Goto, Live, Op
<1>2. Live(t)' /\ pc'[t] = "queued"
  BY TypesOf DEF IInv, Goto, Live
<1>3. /\ queue \in Seq(Tasks) /\ Len(queue) \in Nat
      /\ \A i \in 1..Len(queue) : queue[i] \in Tasks \ {t}
  BY DEF IInv, TypeOK, Queued
<1>4. /\ queue' \in Seq(Tasks) /\ Len(queue') = Len(queue) + 1 /\ queue'[Len(queue) + 1] = t
      /\ \A i \in 1..Len(queue) : queue'[i] = queue[i]
  BY <1>3
<1>5. \A i \in 1..Len(queue') : pc'[queue'[i]] \notin Over /\ req'[queue'[i]].op \in Locked
  <2> TAKE i \in 1..Len(queue')
  <2>1. i \in 1..Len(queue) \/ i = Len(queue) + 1
    BY <1>3, <1>4
  <2> QED BY <1>1, <1>2, <1>3, <1>4, <2>1 DEF IInv, Queued, Live, Op, Over
<1>6. \A i, j \in 1..Len(queue') : queue'[i] = queue'[j] => i = j
  <2> TAKE i, j \in 1..Len(queue')
  <2>1. /\ i \in 1..Len(queue) \/ i = Len(queue) + 1
        /\ j \in 1..Len(queue) \/ j = Len(queue) + 1
    BY <1>3, <1>4
  <2> QED BY <1>3, <1>4, <2>1 DEF IInv, Queued
<1>7. ASSUME NEW u \in Tasks, Live(u)', Op(u)' \in Locked
      PROVE  (\E i \in 1..Len(queue') : queue'[i] = u) /\ (pc'[u] # "queued" => Head(queue') = u)
  <2>1. CASE u = t
    BY <1>2, <1>3, <1>4, <2>1
  <2>2. CASE u # t
    <3>1. /\ \E i \in 1..Len(queue) : queue[i] = u
          /\ pc'[u] # "queued" => Head(queue) = u
      BY <1>1, <1>7, <2>2 DEF IInv, Queued
    <3>2. Len(queue) > 0 /\ Head(queue) = queue[1] /\ Head(queue') = queue'[1] /\ queue'[1] = queue[1]
      BY <1>3, <1>4, <3>1
    <3> QED BY <1>3, <1>4, <3>1, <3>2
  <2> QED BY <2>1, <2>2
<1> QED BY <1>4, <1>5, <1>6, <1>7 DEF Queued, Live, Op, Over

-----------------------------------------------------------------------------
(* A step of a live call.                                                   *)

\* The call goes on at label, or ends.
Continues(t, label) ==
    /\ label \in PCs \ Over /\ label # "queued"
    /\ Goto(t, label)
    /\ UNCHANGED <<req, queue>>

\* Expectations are given up, or set by a call that ends for a key it wrote.
ExpectFollows(t, label) ==
    \A k \in Keys : \/ expect'[k] \in {expect[k], Unknown}
                    \/ k \in Safe /\ Writes(t, k) /\ label = "done"

LEMMA StepPreserves ==
  ASSUME IInv, NEW t \in Tasks, Live(t), NEW label,
         Continues(t, label) \/ (label \in {"done", "failed"} /\ End(t, label)),
         Op(t) \in Locked => Head(queue) = t,
         loc' \in [Tasks -> Locals], \A u \in Tasks \ {t} : loc'[u] = loc[u],
         saved' \in SUBSET Contents, UNCHANGED exposed,
         FilesOK(t),
         expect' \in [Keys -> Content \cup {Unknown}], ExpectFollows(t, label),
         \A k \in exposed : expect'[k] = Unknown,
         WritesKept',
         Watch,
         Continues(t, label) => TaskOK(t)'
  PROVE  IInv'
<1> USE TypesOf, FreshTypes DEF IInv
<1>1. /\ label \in PCs /\ pc'[t] = label
      /\ pc' \in [Tasks -> PCs] /\ \A u \in Tasks \ {t} : pc'[u] = pc[u]
  BY DEF Continues, End, Goto, PCs
<1>2. /\ req' \in [Tasks -> Requested] /\ \A u \in Tasks \ {t} : req'[u] = req[u]
      /\ req' = req \/ label \in {"done", "failed"}
  BY DEF Continues, End
<1>3. View' \in Contents
  BY FreshTypes DEF FilesOK, View, Contents, Content
<1>4. OthersStay(t)
  BY <1>1, <1>2 DEF OthersStay
<1>5. \A u \in Tasks \ {t} : TaskOK(u)'
  BY <1>2, <1>3, <1>4, OthersKept DEF FilesOK
<1>6. TaskOK(t)'
  <2>1. CASE label \in {"done", "failed"}
    BY <1>1, <2>1 DEF TaskOK, OpOfLabel, WriteProgress, GetProgress,
                      CommitProgress, SnapshotProgress, Live, Op
  <2> QED BY <2>1
<1>7. Queued' /\ queue' \in Seq(Tasks)
  <2>1. CASE Continues(t, label)
    BY <2>1, QueueKept DEF Continues, TypeOK
  <2> QED BY <2>1, QueuePopped
<1>8. TypeOK'
  BY <1>1, <1>2, <1>3, <1>7, Watched DEF TypeOK, FilesOK, Requested, Locals
<1>9. \A u \in Tasks : Live(u)' => Live(u) /\ req'[u] = req[u] /\ Op(u)' = Op(u)
  BY <1>1, <1>2 DEF Live, Op, Over
<1>10. Undetermined'
  <2>1. ASSUME NEW u \in Tasks, Live(u)', NEW k \in Touches(Op(u), req[u].key)
        PROVE  expect'[k] = Unknown
    <3>1. k \in Keys /\ Writes(u, k) /\ expect[k] = Unknown
      BY <1>9, <2>1, TaskTypes DEF Undetermined, Writes
    <3>2. ~(k \in Safe /\ Writes(t, k) /\ label = "done")
      BY <1>1, <1>9, <2>1, <3>1, NoClash DEF Live
    <3> QED BY <3>1, <3>2 DEF ExpectFollows
  <2> QED BY <1>9, <2>1 DEF Undetermined
<1>11. ClashesExposed'
  <2>1. \A u, v \in Tasks : Live(u)' /\ Live(v)' => Clash(u, v)' = Clash(u, v)
    BY <1>9 DEF Clash
  <2> QED BY <1>9, <2>1 DEF ClashesExposed
<1> QED BY <1>5, <1>6, <1>7, <1>8, <1>10, <1>11 DEF FilesOK

\* Expectations of keys whose view the step leaves alone still hold.
LEMMA KeptWrites ==
  ASSUME IInv, NEW t \in Tasks, FilesOK(t), UNCHANGED <<expect, exposed>>
  PROVE  WritesKept'
<1> SUFFICES ASSUME NEW k \in Safe, expect[k] # Unknown PROVE View'[k] = expect[k]
  BY DEF WritesKept, Safe
<1>1. ~Writes(t, k)
  BY DEF IInv, Undetermined, Writes
<1>2. View'[k] = View[k]
  BY <1>1, SameView DEF FilesOK, FilesFollow, Safe
<1> QED BY <1>2 DEF IInv, WritesKept

\* A step that leaves expectations alone.
LEMMA PlainStep ==
  ASSUME IInv, NEW t \in Tasks, Live(t), NEW label,
         Continues(t, label) \/ (label \in {"done", "failed"} /\ End(t, label)),
         Op(t) \in Locked => Head(queue) = t,
         loc' \in [Tasks -> Locals], \A u \in Tasks \ {t} : loc'[u] = loc[u],
         saved' \in SUBSET Contents, UNCHANGED <<expect, exposed>>,
         FilesOK(t), Watch,
         Continues(t, label) => TaskOK(t)'
  PROVE  IInv'
<1>1. ExpectFollows(t, label) /\ \A k \in exposed : expect'[k] = Unknown
  BY DEF ExpectFollows, IInv, Undetermined
<1>2. expect' \in [Keys -> Content \cup {Unknown}]
  BY DEF IInv, TypeOK
<1> QED BY <1>1, <1>2, KeptWrites, StepPreserves

\* A step that changes only where the call is and its local variables.
LEMMA QuietStep ==
  ASSUME IInv, NEW t \in Tasks, Live(t), NEW label, Continues(t, label),
         Op(t) \in Locked => Head(queue) = t,
         loc' \in [Tasks -> Locals], \A u \in Tasks \ {t} : loc'[u] = loc[u],
         UNCHANGED <<files, saved, expect, exposed>>, Watch, TaskOK(t)'
  PROVE  IInv'
<1>1. FilesOK(t) /\ saved' \in SUBSET Contents
  BY FilesUnchanged DEF IInv, TypeOK
<1> QED BY <1>1, PlainStep

LEMMA AtWork ==
  ASSUME IInv, NEW t \in Tasks, pc[t] \notin Over \cup {"queued"}
  PROVE  Live(t) /\ (Op(t) \in Locked => Head(queue) = t)
  BY DEF IInv, Queued, Live, Over

\* What a get that goes on keeps.
LEMMA GetGoesOn ==
  ASSUME IInv, NEW t \in Tasks, Live(t)', Op(t)' = "get", req' \in [Tasks -> Requested],
         View' \in Contents, Watch, req'[t] = req[t], Live(t), loc'[t].key = loc[t].key
  PROVE  /\ seen[t] \subseteq seen'[t]
         /\ View'[req'[t].key] \in seen'[t]
         /\ loc'[t].key = req'[t].key
<1>1. Op(t) = "get"
  BY DEF Op
<1> QED BY <1>1, TaskTypes, Watched DEF IInv, TaskOK, GetProgress

-----------------------------------------------------------------------------
(* get, alone or inside snapshot.                                           *)

LEMMA GotPreserves ==
  ASSUME IInv, NEW t \in Tasks, pc[t] \in {"getTomb", "getOver", "getBase"},
         NEW v \in Content, Got(t, v), Watch,
         UNCHANGED <<files, saved, queue, req, expect, exposed>>,
         loc[t].key \in Safe /\ Op(t) = "get" => v \in seen[t],
         loc[t].key \in Safe /\ Op(t) = "snapshot" => v = View[loc[t].key]
  PROVE  IInv'
<1> USE TypesOf, TaskTypes, FreshTypes DEF IInv
<1>1. Live(t) /\ (Op(t) \in Locked => Head(queue) = t)
  BY AtWork DEF Over
<1>2. UNCHANGED <<req, queue, View, base, over, tomb>> /\ Op(t)' = Op(t)
  BY DEF files, View, Op
<1>3. CASE Op(t) = "get"
  <2>1. /\ Goto(t, "answer") /\ loc' = [loc EXCEPT ![t].value = v]
    BY <1>3 DEF Got
  <2>2. /\ loc'[t] \in Locals /\ loc'[t].value = v /\ loc'[t].key = loc[t].key
        /\ loc' \in [Tasks -> Locals] /\ \A u \in Tasks \ {t} : loc'[u] = loc[u]
        /\ pc'[t] = "answer" /\ Live(t)'
    BY <2>1 DEF Locals, Goto, Live
  <2>3. Continues(t, "answer")
    BY <1>2, <2>1 DEF Continues, Over, PCs
  <2>4. loc[t].key = req[t].key
    BY <1>1, <1>3 DEF TaskOK, GetProgress
  <2>5. GetProgress(t)'
    BY <1>1, <1>2, <1>3, <2>2, <2>4, GetGoesOn DEF GetProgress, Safe
  <2>6. TaskOK(t)'
    BY <1>2, <1>3, <2>2, <2>5
    DEF TaskOK, OpOfLabel, WriteProgress, CommitProgress, SnapshotProgress, Op
  <2> QED BY <1>1, <1>2, <2>2, <2>3, <2>6, QuietStep
<1>4. CASE Op(t) # "get"
  <2> DEFINE l == loc[t]
  <2>1. Op(t) = "snapshot"
    BY <1>4 DEF TaskOK, OpOfLabel, Op
  <2>2. Goto(t, "capture") /\ loc' = [loc EXCEPT ![t].copy[loc[t].key] = v, ![t].key = SomeKey]
    BY <1>4 DEF Got
  <2>3. /\ loc'[t] \in Locals
        /\ loc'[t].copy = [l.copy EXCEPT ![l.key] = v] /\ loc'[t].todo = l.todo
        /\ loc' \in [Tasks -> Locals] /\ \A u \in Tasks \ {t} : loc'[u] = loc[u]
        /\ pc'[t] = "capture" /\ Live(t)'
    BY <2>2, SomeKeyIsKey DEF Locals, Goto, Live, Contents
  <2>4. Continues(t, "capture")
    BY <1>2, <2>2 DEF Continues, Over, PCs
  <2>5. l.key \in Keys /\ l.copy \in [Keys -> Content]
    BY DEF Locals, Contents
  <2>6. \A k \in Safe \ l.todo : loc'[t].copy[k] = View[k]
    BY <2>1, <2>3, <2>5 DEF TaskOK, SnapshotProgress, Safe
  <2>7. SnapshotProgress(t)'
    BY <1>2, <2>3, <2>6 DEF SnapshotProgress, Safe
  <2>8. TaskOK(t)'
    BY <1>2, <2>1, <2>3, <2>7
    DEF TaskOK, OpOfLabel, WriteProgress, GetProgress, CommitProgress, Op
  <2> QED BY <1>1, <1>2, <2>3, <2>4, <2>8, QuietStep
<1> QED BY <1>3, <1>4

\* The key is not hidden where the get has looked: it looks further.
LEMMA LooksFurther ==
  ASSUME IInv, NEW t \in Tasks, pc[t] \in {"getTomb", "getOver"},
         NEW label \in {"getOver", "getBase"}, Goto(t, label), UNCHANGED loc, Watch,
         UNCHANGED <<files, saved, queue, req, expect, exposed>>,
         loc[t].key \in Safe /\ Op(t) = "get" /\ label = "getOver" =>
             base[loc[t].key] \in seen[t] \/ Hidden(loc[t].key),
         loc[t].key \in Safe /\ Op(t) = "get" /\ label = "getBase" => base[loc[t].key] \in seen[t],
         loc[t].key \in Safe /\ Op(t) = "snapshot" =>
             loc[t].key \notin tomb /\ (label = "getBase" => over[loc[t].key] = None)
  PROVE  IInv'
<1> USE TypesOf, TaskTypes DEF IInv
<1>1. Live(t) /\ (Op(t) \in Locked => Head(queue) = t)
  BY AtWork DEF Over
<1>2. UNCHANGED <<req, queue, View, base, over, tomb>> /\ Op(t)' = Op(t)
  BY DEF files, View, Op
<1>3. pc'[t] = label /\ Live(t)' /\ Continues(t, label)
  BY <1>2 DEF Goto, Live, Continues, Over, PCs
<1>4. Op(t) \in {"get", "snapshot"}
  BY DEF TaskOK, OpOfLabel, Op
<1>5. GetProgress(t)'
  <2>1. CASE Op(t) = "get"
    <3>1. loc[t].key = req[t].key
      BY <1>1, <2>1 DEF TaskOK, GetProgress
    <3> QED BY <1>1, <1>2, <1>3, <2>1, <3>1, GetGoesOn DEF GetProgress, Safe, Hidden
  <2> QED BY <1>2, <2>1 DEF GetProgress
<1>6. SnapshotProgress(t)'
  BY <1>2, <1>3 DEF TaskOK, SnapshotProgress, Safe
<1>7. TaskOK(t)'
  BY <1>2, <1>3, <1>4, <1>5, <1>6
  DEF TaskOK, OpOfLabel, WriteProgress, CommitProgress, Op
<1> QED BY <1>1, <1>2, <1>3, <1>7, QuietStep

LEMMA GetTombPreserves ==
  ASSUME IInv, NEW t \in Tasks, GetTomb(t), Watch PROVE IInv'
<1> USE TypesOf, TaskTypes DEF IInv, GetTomb
<1>1. Op(t) = "get" => loc[t].key = req[t].key /\ View[loc[t].key] \in seen[t]
  BY DEF TaskOK, GetProgress, Live
<1>2. loc[t].key \in Keys
  BY DEF Locals
<1>3. CASE loc[t].key \in tomb
  <2>1. View[loc[t].key] = None
    BY <1>2, <1>3 DEF View
  <2> QED BY <1>1, <1>3, <2>1, GotPreserves DEF Content
<1>4. CASE loc[t].key \notin tomb
  <2>1. View[loc[t].key] = base[loc[t].key] \/ Hidden(loc[t].key)
    BY <1>2, <1>4 DEF View, Hidden
  <2> QED BY <1>1, <1>4, <2>1, LooksFurther
<1> QED BY <1>3, <1>4

LEMMA GetOverPreserves ==
  ASSUME IInv, NEW t \in Tasks, GetOver(t), Watch PROVE IInv'
<1> USE TypesOf, TaskTypes DEF IInv, GetOver
<1>1. Op(t) = "get" => loc[t].key = req[t].key /\ View[loc[t].key] \in seen[t]
  BY DEF TaskOK, GetProgress, Live
<1>2. loc[t].key \in Keys /\ over[loc[t].key] \in Content
  BY DEF Locals, Contents
<1>3. Op(t) = "snapshot" /\ loc[t].key \in Safe => loc[t].key \notin tomb
  BY DEF TaskOK, SnapshotProgress
<1>4. CASE over[loc[t].key] # None
  <2>1. loc[t].key \in Safe => View[loc[t].key] = over[loc[t].key]
    BY <1>2, <1>4 DEF View, OneOrOther
  <2> QED BY <1>1, <1>2, <1>4, <2>1, GotPreserves
<1>5. CASE over[loc[t].key] = None
  <2>1. Op(t) = "get" /\ loc[t].key \in Safe => base[loc[t].key] \in seen[t]
    BY <1>1, <1>5 DEF TaskOK, GetProgress, Live
  <2> QED BY <1>3, <1>5, <2>1, LooksFurther
<1> QED BY <1>4, <1>5

LEMMA GetBasePreserves ==
  ASSUME IInv, NEW t \in Tasks, GetBase(t), Watch PROVE IInv'
<1> USE TypesOf, TaskTypes DEF IInv, GetBase
<1>1. loc[t].key \in Keys /\ base[loc[t].key] \in Content
  BY DEF Locals, Contents
<1>2. Op(t) = "get" /\ loc[t].key \in Safe => base[loc[t].key] \in seen[t]
  BY DEF TaskOK, GetProgress, Live
<1>3. Op(t) = "snapshot" /\ loc[t].key \in Safe => base[loc[t].key] = View[loc[t].key]
  BY <1>1 DEF TaskOK, SnapshotProgress, View
<1> QED BY <1>1, <1>2, <1>3, GotPreserves

\* The end of a call, with the files as FilesOK says.
LEMMA EndPreserves ==
  ASSUME IInv, NEW t \in Tasks, Live(t), NEW label \in {"done", "failed"}, End(t, label),
         Op(t) \in Locked => Head(queue) = t,
         saved' \in SUBSET Contents, UNCHANGED <<expect, exposed>>, FilesOK(t), Watch
  PROVE  IInv'
<1>1. loc' \in [Tasks -> Locals] /\ \A u \in Tasks \ {t} : loc'[u] = loc[u]
  BY TypesOf, FreshTypes DEF IInv, End
<1>2. ~Continues(t, label)
  BY DEF Continues, Over
<1> QED BY <1>1, <1>2, PlainStep

LEMMA AnswerPreserves ==
  ASSUME IInv, NEW t \in Tasks, Answer(t), Watch PROVE IInv'
<1>1. Live(t) /\ (Op(t) \in Locked => Head(queue) = t)
  BY AtWork DEF Answer, Over
<1>2. FilesOK(t) /\ saved' \in SUBSET Contents
  BY FilesUnchanged DEF Answer, files, IInv, TypeOK
<1> QED BY <1>1, <1>2, EndPreserves DEF Answer

-----------------------------------------------------------------------------
(* set, delete, discard and restore.                                        *)

LEMMA HasTombPreserves ==
  ASSUME IInv, NEW t \in Tasks, HasTomb(t), Watch PROVE IInv'
<1> USE TypesOf, TaskTypes DEF IInv, HasTomb
<1>1. Live(t) /\ (Op(t) \in Locked => Head(queue) = t) /\ Op(t) = "set"
  BY AtWork DEF Over, TaskOK, OpOfLabel, Op
<1>2. PICK label \in {"dropTomb", "write"} :
          Goto(t, label) /\ (label = "write" => req[t].key \notin tomb)
  OBVIOUS
<1>3. Continues(t, label) /\ pc'[t] = label
  BY <1>2 DEF Continues, Over, PCs, Goto
<1>4. TaskOK(t)'
  BY <1>1, <1>2, <1>3
  DEF TaskOK, OpOfLabel, WriteProgress, GetProgress, CommitProgress, SnapshotProgress, Op, files
<1> QED BY <1>1, <1>3, <1>4, QuietStep

LEMMA HasOverPreserves ==
  ASSUME IInv, NEW t \in Tasks, HasOver(t), Watch PROVE IInv'
<1> USE TypesOf, TaskTypes DEF IInv, HasOver
<1>1. Live(t) /\ (Op(t) \in Locked => Head(queue) = t) /\ Op(t) = "delete"
  BY AtWork DEF Over, TaskOK, OpOfLabel, Op
<1>2. PICK label \in {"dropOver", "bury"} :
          Goto(t, label) /\ (label = "bury" => over[req[t].key] = None)
  OBVIOUS
<1>3. Continues(t, label) /\ pc'[t] = label
  BY <1>2 DEF Continues, Over, PCs, Goto
<1>4. TaskOK(t)'
  BY <1>1, <1>2, <1>3
  DEF TaskOK, OpOfLabel, WriteProgress, GetProgress, CommitProgress, SnapshotProgress, Op, files
<1> QED BY <1>1, <1>3, <1>4, QuietStep

LEMMA DropTombPreserves ==
  ASSUME IInv, NEW t \in Tasks, DropTomb(t), Watch PROVE IInv'
<1> USE TypesOf, TaskTypes DEF IInv, DropTomb
<1>1. Live(t) /\ (Op(t) \in Locked => Head(queue) = t) /\ Op(t) = "set"
  BY AtWork DEF Over, TaskOK, OpOfLabel, Op
<1>2. FilesOK(t)
  BY <1>1, EffectFollows DEF Effect
<1>3. Continues(t, "write") /\ pc'[t] = "write"
  BY DEF Continues, Over, PCs, Goto
<1>4. TaskOK(t)'
  BY <1>1, <1>3
  DEF TaskOK, OpOfLabel, WriteProgress, GetProgress, CommitProgress, SnapshotProgress, Op
<1>5. saved' \in SUBSET Contents
  BY DEF TypeOK
<1> QED BY <1>1, <1>2, <1>3, <1>4, <1>5, PlainStep

LEMMA DropOverPreserves ==
  ASSUME IInv, NEW t \in Tasks, DropOver(t), Watch PROVE IInv'
<1> USE TypesOf, TaskTypes DEF IInv, DropOver
<1>1. Live(t) /\ (Op(t) \in Locked => Head(queue) = t) /\ Op(t) = "delete"
  BY AtWork DEF Over, TaskOK, OpOfLabel, Op
<1>2. FilesOK(t)
  BY <1>1, EffectFollows DEF Effect
<1>3. Continues(t, "bury") /\ pc'[t] = "bury"
  BY DEF Continues, Over, PCs, Goto
<1>4. req[t].key \in Keys /\ over'[req[t].key] = None
  BY DEF Requested, Contents
<1>5. TaskOK(t)'
  BY <1>1, <1>3, <1>4
  DEF TaskOK, OpOfLabel, WriteProgress, GetProgress, CommitProgress, SnapshotProgress, Op
<1>6. saved' \in SUBSET Contents
  BY DEF TypeOK
<1> QED BY <1>1, <1>2, <1>3, <1>5, <1>6, PlainStep

\* A call that ends with a new expectation for keys it wrote, which holds.
LEMMA AnswersWrite ==
  ASSUME IInv, NEW t \in Tasks, Live(t), End(t, "done"), Op(t) \notin Locked,
         FilesOK(t), Watch, UNCHANGED <<saved, exposed>>,
         NEW f, \A k \in Keys : f[k] \in Content \cup {Unknown}, Expect(f),
         \A k \in Safe : \/ f[k] = expect[k]
                         \/ Writes(t, k) /\ (f[k] # Unknown => View'[k] = f[k])
  PROVE  IInv'
<1> USE TypesOf, TaskTypes DEF IInv
<1>1. \A k \in Keys : expect'[k] = IF k \in exposed THEN Unknown ELSE f[k]
  BY DEF Expect
<1>2. expect' \in [Keys -> Content \cup {Unknown}] /\ \A k \in exposed : expect'[k] = Unknown
  <2>1. exposed \subseteq Keys
    BY DEF TypeOK
  <2> QED BY <1>1, <2>1 DEF Expect
<1>3. ExpectFollows(t, "done")
  BY <1>1 DEF ExpectFollows, Safe
<1>4. WritesKept'
  <2> SUFFICES ASSUME NEW k \in Safe, f[k] # Unknown PROVE View'[k] = f[k]
    BY <1>1 DEF WritesKept, Safe
  <2>1. CASE Writes(t, k)
    <3>1. expect[k] = Unknown
      BY <2>1 DEF Undetermined, Writes
    <3> QED BY <3>1
  <2>2. CASE ~Writes(t, k)
    <3>1. View'[k] = View[k] /\ f[k] = expect[k]
      BY <2>2, SameView DEF FilesOK, FilesFollow, Safe
    <3> QED BY <3>1 DEF WritesKept
  <2> QED BY <2>1, <2>2
<1>5. loc' \in [Tasks -> Locals] /\ \A u \in Tasks \ {t} : loc'[u] = loc[u]
  BY FreshTypes DEF End
<1>6. ~Continues(t, "done") /\ saved' \in SUBSET Contents
  BY DEF Continues, Over, TypeOK
<1> QED BY <1>2, <1>3, <1>4, <1>5, <1>6, StepPreserves

LEMMA WritePreserves ==
  ASSUME IInv, NEW t \in Tasks, Write(t), Watch PROVE IInv'
<1> USE TypesOf, TaskTypes DEF IInv, Write
<1> DEFINE key == req[t].key
           f == [expect EXCEPT ![key] = req[t].value]
<1>1. Live(t) /\ Op(t) = "set" /\ Op(t) \notin Locked
  BY AtWork DEF Over, TaskOK, OpOfLabel, Op, Locked
<1>2. FilesOK(t)
  BY <1>1, EffectFollows DEF Effect
<1>3. key \in Keys /\ req[t].value \in Content /\ Writes(t, key)
  BY <1>1, TouchesOf DEF Requested, Writes, Op
<1>4. /\ \A k \in Keys : f[k] = IF k = key THEN req[t].value ELSE expect[k]
      /\ \A k \in Keys : f[k] \in Content \cup {Unknown}
  <2>1. expect \in [Keys -> Content \cup {Unknown}]
    BY DEF TypeOK
  <2> QED BY <1>3, <2>1
<1>5. key \in Safe => View'[key] = f[key]
  <2> SUFFICES ASSUME key \in Safe PROVE View'[key] = f[key]
    OBVIOUS
  <2>1. key \notin tomb /\ req[t].value # None
    BY DEF TaskOK, WriteProgress
  <2>2. over'[key] = req[t].value
    BY <1>3 DEF Contents
  <2> QED BY <1>3, <1>4, <2>1, <2>2 DEF View
<1>6. \A k \in Safe : \/ f[k] = expect[k]
                      \/ Writes(t, k) /\ (f[k] # Unknown => View'[k] = f[k])
  BY <1>3, <1>4, <1>5 DEF Safe
<1>7. UNCHANGED <<saved, exposed>> /\ Expect(f) /\ End(t, "done")
  OBVIOUS
<1> HIDE DEF f
<1> QED BY <1>1, <1>2, <1>4, <1>6, <1>7, AnswersWrite

LEMMA BuryPreserves ==
  ASSUME IInv, NEW t \in Tasks, Bury(t), Watch PROVE IInv'
<1> USE TypesOf, TaskTypes DEF IInv, Bury
<1> DEFINE key == req[t].key
           f == [expect EXCEPT ![key] = None]
<1>1. Live(t) /\ Op(t) = "delete" /\ Op(t) \notin Locked
  BY AtWork DEF Over, TaskOK, OpOfLabel, Op, Locked
<1>2. FilesOK(t)
  BY <1>1, EffectFollows DEF Effect
<1>3. key \in Keys /\ Writes(t, key)
  BY <1>1, TouchesOf DEF Requested, Writes, Op
<1>4. /\ \A k \in Keys : f[k] = IF k = key THEN None ELSE expect[k]
      /\ \A k \in Keys : f[k] \in Content \cup {Unknown}
  <2>1. expect \in [Keys -> Content \cup {Unknown}] /\ None \in Content
    BY DEF TypeOK, Content
  <2> QED BY <1>3, <2>1
<1>5. View'[key] = None
  BY <1>3 DEF View
<1>6. \A k \in Safe : \/ f[k] = expect[k]
                      \/ Writes(t, k) /\ (f[k] # Unknown => View'[k] = f[k])
  BY <1>3, <1>4, <1>5 DEF Safe
<1>7. UNCHANGED <<saved, exposed>> /\ Expect(f) /\ End(t, "done")
  OBVIOUS
<1> HIDE DEF f
<1> QED BY <1>1, <1>2, <1>4, <1>6, <1>7, AnswersWrite

LEMMA WideWritesAll ==
  ASSUME IInv, NEW t \in Tasks, Live(t), Op(t) \in Wide
  PROVE  Op(t) \notin Locked /\ \A k \in Keys : Writes(t, k)
  BY TaskTypes, TouchesOf DEF Requested, Op, Writes, Wide, Locked

LEMMA ClearPreserves ==
  ASSUME IInv, NEW t \in Tasks, Clear(t), Watch PROVE IInv'
<1> USE TypesOf, TaskTypes DEF IInv, Clear
<1>1. Live(t) /\ Op(t) \in Wide
  BY AtWork DEF Over, TaskOK, OpOfLabel, Op
<1>2. FilesOK(t)
  BY <1>1, EffectFollows DEF Effect
<1>3. CASE Op(t) = "discard"
  <2>1. End(t, "done") /\ Expect(base)
    BY <1>3
  <2>2. \A k \in Keys : base[k] \in Content \cup {Unknown}
    BY DEF Contents
  <2>3. \A k \in Safe : View'[k] = base[k]
    BY DEF View, Nothing, Safe
  <2>4. \A k \in Safe : Writes(t, k)
    BY <1>1, WideWritesAll DEF Safe
  <2> QED BY <1>1, <1>2, <2>1, <2>2, <2>3, <2>4, WideWritesAll, AnswersWrite
<1>4. CASE Op(t) # "discard"
  <2>1. /\ Goto(t, "replay") /\ UNCHANGED <<queue, req, expect>>
        /\ loc' = [loc EXCEPT ![t].todo = Present(loc[t].copy)]
    BY <1>4
  <2>2. /\ loc'[t] \in Locals /\ loc'[t].todo = Present(loc[t].copy) /\ loc'[t].copy = loc[t].copy
        /\ loc' \in [Tasks -> Locals] /\ \A u \in Tasks \ {t} : loc'[u] = loc[u]
    BY <2>1 DEF Locals, Present
  <2>3. Continues(t, "replay") /\ pc'[t] = "replay" /\ Op(t)' = "restore"
    BY <1>1, <1>4, <2>1 DEF Continues, Over, PCs, Goto, Wide, Op
  <2>4. TaskOK(t)'
    <3>1. \A k \in Keys : over'[k] = None /\ (k \notin loc'[t].todo => loc'[t].copy[k] = None)
      BY <1>1, <2>2 DEF Present, Nothing
    <3> QED BY <2>2, <2>3, <3>1
      DEF TaskOK, OpOfLabel, WriteProgress, GetProgress, CommitProgress, SnapshotProgress, Op, Safe
  <2>5. saved' \in SUBSET Contents
    BY DEF TypeOK
  <2> QED BY <1>1, <1>2, <2>1, <2>2, <2>3, <2>4, <2>5, WideWritesAll, PlainStep
<1> QED BY <1>3, <1>4

LEMMA ReplayFollows ==
  ASSUME IInv, NEW t \in Tasks, Replay(t)
  PROVE  FilesOK(t)
<1> USE TypesOf, TaskTypes DEF IInv, Replay
<1>1. Live(t) /\ Op(t) \in Wide
  BY AtWork DEF Over, TaskOK, OpOfLabel, Op, Wide
<1>2. PICK k \in loc[t].todo : over' = [over EXCEPT ![k] = loc[t].copy[k]]
  OBVIOUS
<1>3. k \in Keys /\ over' \in Contents /\ base' \in Contents /\ tomb' \in SUBSET Keys
  BY <1>2 DEF Locals, Contents
<1>4. \A i \in Keys : Writes(t, i) /\ base'[i] = base[i]
  BY <1>1, WideWritesAll
<1>5. \A i \in Safe : i \notin tomb' /\ i \notin tomb
  BY DEF TaskOK, WriteProgress
<1>6. OneOrOther'
  BY <1>5 DEF OneOrOther, Safe
<1>7. FilesFollow(t)
  <2> SUFFICES ASSUME NEW i \in Safe PROVE Hidden(i) => Hidden(i)' \/ View'[i] = base'[i]
    BY <1>4 DEF FilesFollow, Safe
  <2> QED BY <1>5 DEF Hidden, View, Safe
<1> QED BY <1>3, <1>6, <1>7 DEF FilesOK

LEMMA ReplayPreserves ==
  ASSUME IInv, NEW t \in Tasks, Replay(t), Watch PROVE IInv'
<1> USE TypesOf, TaskTypes DEF IInv, Replay
<1>1. Live(t) /\ Op(t) \in Wide /\ Op(t) = "restore"
  BY AtWork DEF Over, TaskOK, OpOfLabel, Op, Wide
<1>2. PICK k \in loc[t].todo : /\ over' = [over EXCEPT ![k] = loc[t].copy[k]]
                               /\ loc' = [loc EXCEPT ![t].todo = @ \ {k}]
  OBVIOUS
<1>3. FilesOK(t)
  BY ReplayFollows
<1>4. /\ loc'[t] \in Locals /\ loc'[t].todo = loc[t].todo \ {k} /\ loc'[t].copy = loc[t].copy
      /\ loc' \in [Tasks -> Locals] /\ \A u \in Tasks \ {t} : loc'[u] = loc[u]
  BY <1>2 DEF Locals
<1>5. Continues(t, "replay") /\ pc'[t] = "replay"
  BY DEF Continues, Over, PCs, Goto
<1>6. \A i \in Keys : over'[i] = IF i = k THEN loc[t].copy[k] ELSE over[i]
  BY <1>2 DEF Contents
<1>7. WriteProgress(t)'
  BY <1>4, <1>5, <1>6 DEF TaskOK, WriteProgress, Safe
<1>8. TaskOK(t)'
  BY <1>1, <1>5, <1>7
  DEF TaskOK, OpOfLabel, GetProgress, CommitProgress, SnapshotProgress, Op
<1>9. saved' \in SUBSET Contents
  BY DEF TypeOK
<1> QED BY <1>1, <1>3, <1>4, <1>5, <1>8, <1>9, WideWritesAll, PlainStep

LEMMA ReplayedPreserves ==
  ASSUME IInv, NEW t \in Tasks, Replayed(t), Watch PROVE IInv'
<1> USE TypesOf, TaskTypes DEF IInv, Replayed
<1> DEFINE f == [k \in Keys |-> IF loc[t].copy[k] # None THEN loc[t].copy[k] ELSE Unknown]
<1>1. Live(t) /\ Op(t) \in Wide
  BY AtWork DEF Over, TaskOK, OpOfLabel, Op, Wide
<1>2. FilesOK(t)
  BY FilesUnchanged
<1>3. \A k \in Keys : f[k] \in Content \cup {Unknown}
  BY DEF Locals, Contents
<1>4. \A k \in Safe : Writes(t, k) /\ (f[k] # Unknown => View'[k] = f[k])
  <2> TAKE k \in Safe
  <2>1. k \in Keys /\ k \notin tomb /\ (loc[t].copy[k] # None => over[k] = loc[t].copy[k])
    BY DEF TaskOK, WriteProgress, Safe
  <2>2. View' = View
    BY DEF View, files
  <2> QED BY <1>1, <2>1, <2>2, WideWritesAll DEF View
<1>5. Op(t) \notin Locked /\ UNCHANGED <<saved, exposed>> /\ Expect(f) /\ End(t, "done")
  BY <1>1, WideWritesAll
<1> HIDE DEF f
<1> QED BY <1>1, <1>2, <1>3, <1>4, <1>5, AnswersWrite

-----------------------------------------------------------------------------
(* commit and snapshot.                                                     *)

AtLock == {"listOver", "readOver", "publish", "unpublish", "snapTomb", "snapBase", "capture",
           "getTomb"}

\* The call is at label with the variables l, and nothing else has changed.
Stays(t, label, l) ==
    /\ pc'[t] = label /\ loc'[t] = l /\ Op(t)' = Op(t)
    /\ UNCHANGED <<base, over, tomb, View>>

\* A step of a commit or a snapshot that changes its label and variables only.
LEMMA LockedStep ==
  ASSUME IInv, NEW t \in Tasks, Live(t), Op(t) \in Locked, Head(queue) = t,
         NEW label \in AtLock, Goto(t, label),
         NEW l \in Locals, loc' = [loc EXCEPT ![t] = l],
         UNCHANGED <<files, saved, queue, req, expect, exposed>>, Watch,
         Stays(t, label, l) => OpOfLabel(t)' /\ CommitProgress(t)' /\ SnapshotProgress(t)'
  PROVE  IInv'
<1> USE TypesOf DEF IInv
<1>1. pc'[t] = label /\ loc'[t] = l /\ Op(t)' = Op(t) /\ req'[t] = req[t]
  BY DEF Goto, Op
<1>2. UNCHANGED <<base, over, tomb, View>>
  BY DEF files, View
<1>3. loc' \in [Tasks -> Locals] /\ \A u \in Tasks \ {t} : loc'[u] = loc[u]
  OBVIOUS
<1>4. Continues(t, label)
  BY DEF Continues, AtLock, PCs, Over
<1>5. Op(t) # "get" /\ label \notin {"hasTomb", "dropTomb", "write", "bury", "replay"}
  BY DEF Locked, AtLock
<1>6. OpOfLabel(t)' /\ CommitProgress(t)' /\ SnapshotProgress(t)'
  BY <1>1, <1>2 DEF Stays
<1>7. WriteProgress(t)' /\ GetProgress(t)'
  BY <1>1, <1>5 DEF WriteProgress, GetProgress
<1>8. TaskOK(t)'
  BY <1>6, <1>7 DEF TaskOK
<1> QED BY <1>3, <1>4, <1>8, QuietStep

LEMMA EnterPreserves ==
  ASSUME IInv, NEW t \in Tasks, Enter(t), Watch PROVE IInv'
<1> USE TypesOf, TaskTypes DEF IInv, Enter
<1>1. Live(t) /\ Op(t) \in Locked /\ Op(t) \in {"commit", "snapshot"}
  BY DEF TaskOK, OpOfLabel, Op, Live, Locked
<1>2. loc[t].copy = Nothing
  BY DEF TaskOK, SnapshotProgress
<1>3. CASE Op(t) = "commit"
  <2> DEFINE l == [loc[t] EXCEPT !.keep = Present(base)]
  <2>1. loc' = [loc EXCEPT ![t] = l] /\ l \in Locals /\ l.keep = Present(base)
    BY <1>3 DEF Locals, Present
  <2>2. Goto(t, "listOver")
    BY <1>3
  <2> HIDE DEF l
  <2>3. ASSUME Stays(t, "listOver", l)
        PROVE  OpOfLabel(t)' /\ CommitProgress(t)' /\ SnapshotProgress(t)'
    BY <1>3, <2>1, <2>3
    DEF OpOfLabel, CommitProgress, SnapshotProgress, Op, Present, Safe, Stays
  <2> QED BY <1>1, <2>1, <2>2, <2>3, LockedStep DEF AtLock
<1>4. CASE Op(t) = "snapshot"
  <2> DEFINE l == [loc[t] EXCEPT !.keep = Present(over)]
  <2>1. /\ loc' = [loc EXCEPT ![t] = l] /\ l \in Locals
        /\ l.keep = Present(over) /\ l.copy = Nothing
    BY <1>2, <1>4 DEF Locals, Present
  <2>2. Goto(t, "snapTomb")
    BY <1>4
  <2> HIDE DEF l
  <2>3. ASSUME Stays(t, "snapTomb", l)
        PROVE  OpOfLabel(t)' /\ CommitProgress(t)' /\ SnapshotProgress(t)'
    BY <1>4, <2>1, <2>3
    DEF OpOfLabel, CommitProgress, SnapshotProgress, Op, Present, Safe, Stays
  <2> QED BY <1>1, <2>1, <2>2, <2>3, LockedStep DEF AtLock
<1> QED BY <1>1, <1>3, <1>4

LEMMA ListOverPreserves ==
  ASSUME IInv, NEW t \in Tasks, ListOver(t), Watch PROVE IInv'
<1> USE TypesOf, TaskTypes DEF IInv, ListOver
<1> DEFINE l == [loc[t] EXCEPT !.todo = Present(over)]
<1>1. Live(t) /\ Head(queue) = t /\ Op(t) = "commit" /\ Op(t) \in Locked
  BY AtWork DEF TaskOK, OpOfLabel, Op, Over, Locked
<1>2. loc' = [loc EXCEPT ![t] = l] /\ l \in Locals /\ l.todo = Present(over) /\ l.keep = loc[t].keep
  BY DEF Locals, Present
<1> HIDE DEF l
<1>3. ASSUME Stays(t, "readOver", l)
      PROVE  OpOfLabel(t)' /\ CommitProgress(t)' /\ SnapshotProgress(t)'
  BY <1>1, <1>2, <1>3
  DEF TaskOK, OpOfLabel, CommitProgress, SnapshotProgress, Op, Present, Safe, Stays
<1> QED BY <1>1, <1>2, <1>3, LockedStep DEF AtLock

LEMMA ReadOverPreserves ==
  ASSUME IInv, NEW t \in Tasks, ReadOver(t), Watch PROVE IInv'
<1> USE TypesOf, TaskTypes DEF IInv, ReadOver
<1>1. Live(t) /\ Head(queue) = t /\ Op(t) = "commit" /\ Op(t) \in Locked
  BY AtWork DEF TaskOK, OpOfLabel, Op, Over, Locked
<1>2. PICK k \in loc[t].todo :
        /\ loc' = [loc EXCEPT ![t].key = IF over[k] = None THEN @ ELSE k,
                              ![t].value = over[k],
                              ![t].todo = @ \ {k}]
        /\ IF over[k] = None THEN UNCHANGED pc ELSE Goto(t, "publish")
  OBVIOUS
<1> DEFINE l == [loc[t] EXCEPT !.key = IF over[k] = None THEN @ ELSE k, !.value = over[k],
                               !.todo = @ \ {k}]
           label == IF over[k] = None THEN "readOver" ELSE "publish"
<1>3. loc' = [loc EXCEPT ![t] = l]
  BY <1>2 DEF Locals
<1>4. k \in Keys /\ over[k] \in Content
  BY DEF Locals, Contents
<1>5. /\ l \in Locals /\ l.todo = loc[t].todo \ {k} /\ l.keep = loc[t].keep /\ l.value = over[k]
      /\ over[k] # None => l.key = k
  BY <1>4 DEF Locals
<1>6. Goto(t, label) /\ label \in {"readOver", "publish"} /\ (label = "publish" <=> over[k] # None)
  BY <1>2 DEF Goto
<1> HIDE DEF l, label
<1>7. ASSUME Stays(t, label, l)
      PROVE  OpOfLabel(t)' /\ CommitProgress(t)' /\ SnapshotProgress(t)'
  BY <1>1, <1>5, <1>6, <1>7
  DEF TaskOK, OpOfLabel, CommitProgress, SnapshotProgress, Op, Safe, Stays
<1>9. UNCHANGED <<files, saved, queue, req, expect, exposed>>
  OBVIOUS
<1> HIDE TypesOf, TaskTypes DEF IInv, ReadOver
<1> QED BY <1>1, <1>3, <1>5, <1>6, <1>7, <1>9, LockedStep DEF AtLock

LEMMA ListTombPreserves ==
  ASSUME IInv, NEW t \in Tasks, ListTomb(t), Watch PROVE IInv'
<1> USE TypesOf, TaskTypes DEF IInv, ListTomb
<1> DEFINE l == [loc[t] EXCEPT !.todo = tomb \cap loc[t].keep, !.keep = {}]
<1>1. Live(t) /\ Head(queue) = t /\ Op(t) = "commit" /\ Op(t) \in Locked
  BY AtWork DEF TaskOK, OpOfLabel, Op, Over, Locked
<1>2. loc' = [loc EXCEPT ![t] = l] /\ l \in Locals /\ l.todo = tomb \cap loc[t].keep
  BY DEF Locals
<1> HIDE DEF l
<1>3. ASSUME Stays(t, "unpublish", l)
      PROVE  OpOfLabel(t)' /\ CommitProgress(t)' /\ SnapshotProgress(t)'
  BY <1>1, <1>2, <1>3
  DEF TaskOK, OpOfLabel, CommitProgress, SnapshotProgress, Op, Safe, Stays
<1>9. Goto(t, "unpublish") /\ UNCHANGED <<files, saved, queue, req, expect, exposed>>
  OBVIOUS
<1> HIDE TypesOf, TaskTypes DEF IInv, ListTomb
<1> QED BY <1>1, <1>2, <1>3, <1>9, LockedStep DEF AtLock

LEMMA SnapTombPreserves ==
  ASSUME IInv, NEW t \in Tasks, SnapTomb(t), Watch PROVE IInv'
<1> USE TypesOf, TaskTypes DEF IInv, SnapTomb
<1> DEFINE l == [loc[t] EXCEPT !.todo = tomb]
<1>1. Live(t) /\ Head(queue) = t /\ Op(t) = "snapshot" /\ Op(t) \in Locked
  BY AtWork DEF TaskOK, OpOfLabel, Op, Over, Locked
<1>2. /\ loc' = [loc EXCEPT ![t] = l] /\ l \in Locals /\ l.todo = tomb
      /\ l.keep = loc[t].keep /\ l.copy = loc[t].copy
  BY DEF Locals
<1> HIDE DEF l
<1>3. ASSUME Stays(t, "snapBase", l)
      PROVE  OpOfLabel(t)' /\ CommitProgress(t)' /\ SnapshotProgress(t)'
  BY <1>1, <1>2, <1>3
  DEF TaskOK, OpOfLabel, CommitProgress, SnapshotProgress, Op, Safe, Stays
<1> QED BY <1>1, <1>2, <1>3, LockedStep DEF AtLock

LEMMA SnapBasePreserves ==
  ASSUME IInv, NEW t \in Tasks, SnapBase(t), Watch PROVE IInv'
<1> USE TypesOf, TaskTypes DEF IInv, SnapBase
<1> DEFINE todo == loc[t].keep \cup (Present(base) \ loc[t].todo)
           l == [loc[t] EXCEPT !.todo = todo, !.keep = {}]
<1>1. Live(t) /\ Head(queue) = t /\ Op(t) = "snapshot" /\ Op(t) \in Locked
  BY AtWork DEF TaskOK, OpOfLabel, Op, Over, Locked
<1>2. loc[t].copy = Nothing
  BY DEF TaskOK, SnapshotProgress
<1>3. todo \subseteq Keys /\ loc' = [loc EXCEPT ![t] = l]
  BY DEF Locals, Present
<1>4. \A k \in Safe \ todo : View[k] = None
  <2> TAKE k \in Safe \ todo
  <2>1. /\ k \in Keys
        /\ over[k] # None <=> k \in loc[t].keep
        /\ k \in loc[t].todo <=> k \in tomb
    BY DEF TaskOK, SnapshotProgress, Safe
  <2> QED BY <2>1 DEF View, Present
<1> HIDE DEF todo
<1>5. l \in Locals /\ l.todo = todo /\ l.copy = Nothing
  BY <1>2, <1>3 DEF Locals
<1> HIDE DEF l
<1>6. ASSUME Stays(t, "capture", l)
      PROVE  OpOfLabel(t)' /\ CommitProgress(t)' /\ SnapshotProgress(t)'
  <2>1. \A k \in Safe \ todo : l.copy[k] = View[k]
    BY <1>4, <1>5 DEF Nothing, Safe
  <2> HIDE TypesOf, TaskTypes DEF IInv
  <2> QED BY <1>1, <1>5, <1>6, <2>1
    DEF OpOfLabel, CommitProgress, SnapshotProgress, Op, Safe, Stays
<1>9. Goto(t, "capture") /\ UNCHANGED <<files, saved, queue, req, expect, exposed>>
  OBVIOUS
<1> HIDE TypesOf, TaskTypes DEF IInv, SnapBase
<1> QED BY <1>1, <1>3, <1>5, <1>6, <1>9, LockedStep DEF AtLock

LEMMA CapturePreserves ==
  ASSUME IInv, NEW t \in Tasks, Capture(t), Watch PROVE IInv'
<1> USE TypesOf, TaskTypes DEF IInv, Capture
<1>1. Live(t) /\ Head(queue) = t /\ Op(t) = "snapshot" /\ Op(t) \in Locked
  BY AtWork DEF TaskOK, OpOfLabel, Op, Over, Locked
<1>2. PICK k \in loc[t].todo : loc' = [loc EXCEPT ![t].key = k, ![t].todo = @ \ {k}]
  OBVIOUS
<1> DEFINE l == [loc[t] EXCEPT !.key = k, !.todo = @ \ {k}]
<1>3. /\ loc' = [loc EXCEPT ![t] = l] /\ l \in Locals /\ l.todo = loc[t].todo \ {k}
      /\ l.key = k /\ l.copy = loc[t].copy
  BY <1>2 DEF Locals
<1> HIDE DEF l
<1>4. ASSUME Stays(t, "getTomb", l)
      PROVE  OpOfLabel(t)' /\ CommitProgress(t)' /\ SnapshotProgress(t)'
  BY <1>1, <1>3, <1>4
  DEF TaskOK, OpOfLabel, CommitProgress, SnapshotProgress, Op, Safe, Stays
<1> QED BY <1>1, <1>3, <1>4, LockedStep DEF AtLock

LEMMA CapturedPreserves ==
  ASSUME IInv, NEW t \in Tasks, Captured(t), Watch PROVE IInv'
<1>1. Live(t) /\ (Op(t) \in Locked => Head(queue) = t)
  BY AtWork DEF Captured, Over
<1>2. FilesOK(t) /\ saved' \in SUBSET Contents
  BY FilesUnchanged, TaskTypes DEF Captured, IInv, TypeOK, Locals
<1> QED BY <1>1, <1>2, EndPreserves DEF Captured

LEMMA PublishPreserves ==
  ASSUME IInv, NEW t \in Tasks, Publish(t), Watch PROVE IInv'
<1> USE TypesOf, TaskTypes DEF IInv, Publish
<1> DEFINE p == loc[t].key
<1>1. Live(t) /\ (Op(t) \in Locked => Head(queue) = t) /\ Op(t) = "commit"
  BY AtWork DEF TaskOK, OpOfLabel, Op, Over
<1>2. FilesOK(t)
  BY <1>1, EffectFollows DEF Effect
<1>3. /\ loc'[t] \in Locals /\ loc'[t].todo = loc[t].todo /\ loc'[t].keep = loc[t].keep
      /\ loc' \in [Tasks -> Locals] /\ \A u \in Tasks \ {t} : loc'[u] = loc[u]
  BY SomeKeyIsKey DEF Locals, Content
<1>4. Continues(t, "readOver") /\ pc'[t] = "readOver" /\ Op(t)' = Op(t)
  BY DEF Continues, Over, PCs, Goto, Op
<1>5. p \in Keys /\ \A k \in Keys : base'[k] = IF k = p THEN loc[t].value ELSE base[k]
  BY DEF Contents, Locals
<1>6. p \in Safe => loc[t].value = over[p] /\ p \notin tomb
  BY DEF TaskOK, CommitProgress, OneOrOther
<1>7. CommitProgress(t)'
  BY <1>3, <1>4, <1>5, <1>6 DEF TaskOK, CommitProgress, Safe
<1>8. TaskOK(t)'
  BY <1>1, <1>4, <1>7
  DEF TaskOK, OpOfLabel, WriteProgress, GetProgress, SnapshotProgress, Op
<1>9. saved' \in SUBSET Contents
  BY DEF TypeOK
<1> QED BY <1>1, <1>2, <1>3, <1>4, <1>8, <1>9, PlainStep

LEMMA UnpublishFollows ==
  ASSUME IInv, NEW t \in Tasks, Unpublish(t)
  PROVE  FilesOK(t)
<1> USE TypesOf, TaskTypes DEF IInv, Unpublish
<1>1. Commits(t)
  BY DEF TaskOK, OpOfLabel, Op, Commits, Live
<1>2. PICK k \in loc[t].todo : base' = [base EXCEPT ![k] = None]
  OBVIOUS
<1>3. k \in Keys /\ base' \in Contents /\ \A i \in Keys : base'[i] = IF i = k THEN None ELSE base[i]
  BY <1>2 DEF Contents, Content, Locals
<1>4. k \in Safe => k \in tomb /\ View[k] = None /\ View'[k] = None
  BY <1>3 DEF TaskOK, CommitProgress, View
<1> QED BY <1>1, <1>3, <1>4
  DEF FilesOK, FilesFollow, Safe, OneOrOther, Same, View, Hidden

LEMMA UnpublishPreserves ==
  ASSUME IInv, NEW t \in Tasks, Unpublish(t), Watch PROVE IInv'
<1> USE TypesOf, TaskTypes DEF IInv, Unpublish
<1>1. Live(t) /\ (Op(t) \in Locked => Head(queue) = t) /\ Op(t) = "commit"
  BY AtWork DEF TaskOK, OpOfLabel, Op, Over
<1>2. PICK k \in loc[t].todo : /\ base' = [base EXCEPT ![k] = None]
                               /\ loc' = [loc EXCEPT ![t].todo = @ \ {k}]
  OBVIOUS
<1>3. FilesOK(t)
  BY UnpublishFollows
<1>4. /\ loc'[t] \in Locals /\ loc'[t].todo = loc[t].todo \ {k}
      /\ loc' \in [Tasks -> Locals] /\ \A u \in Tasks \ {t} : loc'[u] = loc[u]
  BY <1>2 DEF Locals
<1>5. Continues(t, "unpublish") /\ pc'[t] = "unpublish" /\ Op(t)' = Op(t)
  BY DEF Continues, Over, PCs, Goto, Op
<1>6. \A i \in Keys : base'[i] = IF i = k THEN None ELSE base[i]
  BY <1>2 DEF Contents
<1>7. CommitProgress(t)'
  <2>1. k \in Safe => over[k] = None
    BY DEF TaskOK, CommitProgress, OneOrOther
  <2> QED BY <1>4, <1>5, <1>6, <2>1 DEF TaskOK, CommitProgress, Safe
<1>8. TaskOK(t)'
  BY <1>1, <1>5, <1>7
  DEF TaskOK, OpOfLabel, WriteProgress, GetProgress, SnapshotProgress, Op
<1>9. saved' \in SUBSET Contents
  BY DEF TypeOK
<1> QED BY <1>1, <1>3, <1>4, <1>5, <1>8, <1>9, PlainStep

LEMMA WipePreserves ==
  ASSUME IInv, NEW t \in Tasks, Wipe(t), Watch PROVE IInv'
<1>1. Live(t) /\ (Op(t) \in Locked => Head(queue) = t)
  BY AtWork DEF Wipe, Over
<1>2. FilesOK(t)
  BY <1>1, EffectFollows DEF Wipe, Effect
<1>3. saved' \in SUBSET Contents
  BY DEF Wipe, IInv, TypeOK
<1> QED BY <1>1, <1>2, <1>3, EndPreserves DEF Wipe

-----------------------------------------------------------------------------
(* Failures, crashes, and the start of a call.                              *)

LEMMA FailFollows ==
  ASSUME IInv, NEW t \in Tasks, Fail(t) PROVE FilesOK(t)
<1>1. PICK f \in {files, Effect(t)} : base' = f[1] /\ over' = f[2] /\ tomb' = f[3]
  BY DEF Fail
<1>2. CASE f = files
  BY <1>1, <1>2, FilesUnchanged DEF Fail, files
<1>3. CASE f = Effect(t)
  <2>1. f = <<f[1], f[2], f[3]>>
    BY <1>3 DEF Effect, files
  <2> QED BY <1>1, <1>3, <2>1, EffectFollows DEF Fail
<1> QED BY <1>1, <1>2, <1>3

LEMMA FailPreserves ==
  ASSUME IInv, NEW t \in Tasks, Fail(t), Watch PROVE IInv'
<1>1. Live(t) /\ (Op(t) \in Locked => Head(queue) = t)
  BY AtWork DEF Fail, Live, Over
<1>2. saved' \in SUBSET Contents
  BY DEF Fail, IInv, TypeOK
<1> QED BY <1>1, <1>2, FailFollows, EndPreserves DEF Fail

LEMMA CrashPreserves ==
  ASSUME IInv, Crash, Watch PROVE IInv'
<1> USE TypesOf, FreshTypes DEF IInv, Crash, files
<1>1. pc' \in [Tasks -> Over]
  BY DEF Live, Over, PCs
<1>2. req' \in [Tasks -> Requested] /\ loc' \in [Tasks -> Locals] /\ View' = View
  BY DEF View
<1>3. TypeOK'
  <2>1. pc' \in [Tasks -> PCs] /\ queue' \in Seq(Tasks)
    BY <1>1 DEF PCs, Over
  <2> QED BY <1>2, <2>1, Watched DEF TypeOK, Requested, Locals
<1>4. \A t \in Tasks : ~Live(t)' /\ pc'[t] \in Over
  BY <1>1 DEF Live, Over
<1>5. \A t \in Tasks : TaskOK(t)'
  BY <1>4 DEF TaskOK, OpOfLabel, WriteProgress, GetProgress, CommitProgress, SnapshotProgress, Over
<1>6. Queued'
  BY <1>4 DEF Queued
<1>7. Undetermined' /\ ClashesExposed'
  BY <1>4 DEF Undetermined, ClashesExposed
<1> QED BY <1>2, <1>3, <1>5, <1>6, <1>7 DEF OneOrOther, WritesKept, Safe

\* What Start makes of the request and the variables of call t.
LEMMA StartIs ==
  ASSUME IInv, NEW t \in Tasks, NEW op \in Ops, NEW r \in Requests(op), Start(t, op, r[1], r[2])
  PROVE  /\ pc[t] = "idle" /\ pc'[t] = First(op) /\ First(op) \in PCs \ Over
         /\ pc' \in [Tasks -> PCs]
         /\ req'[t] = [op |-> op, key |-> r[1], value |-> r[2]]
         /\ r[1] \in Keys /\ r[2] \in Content /\ (op = "set" => r[2] # None)
         /\ req' \in [Tasks -> Requested] /\ loc' \in [Tasks -> Locals]
         /\ loc'[t].key = r[1] /\ (op # "restore" => loc'[t].copy = Nothing)
         /\ OthersStay(t)
<1> USE TypesOf, FreshTypes, SomeKeyIsKey DEF IInv, Start
<1>1. r[1] \in Keys /\ r[2] \in Content /\ (op = "set" => r[2] # None)
  <2>1. CASE op = "set"
    BY <2>1, OverlayAssumption DEF Requests, Content
  <2>2. CASE op \in {"get", "delete"}
    BY <2>2 DEF Requests, Content
  <2>3. CASE op \notin {"set", "get", "delete"}
    BY <2>3 DEF Requests, Content
  <2> QED BY <2>1, <2>2, <2>3
<1>2. First(op) \in PCs \ Over
  BY DEF First, PCs, Over, Ops, Locked, Wide
<1>3. pc' \in [Tasks -> PCs] /\ pc'[t] = First(op) /\ \A u \in Tasks \ {t} : pc'[u] = pc[u]
  BY <1>2 DEF Goto
<1>4. /\ req' \in [Tasks -> Requested] /\ req'[t] = [op |-> op, key |-> r[1], value |-> r[2]]
      /\ \A u \in Tasks \ {t} : req'[u] = req[u]
  BY <1>1 DEF Requested
<1> DEFINE copy == IF op = "restore" THEN CHOOSE s \in saved : TRUE ELSE FreshLocals.copy
           l == [FreshLocals EXCEPT !.key = r[1], !.copy = copy]
<1>5. copy \in Contents /\ FreshLocals.copy = Nothing
  BY DEF TypeOK, FreshLocals
<1>6. loc' = [loc EXCEPT ![t] = l]
  OBVIOUS
<1> HIDE DEF copy
<1>7. l \in Locals /\ l.key = r[1] /\ l.copy = copy
  BY <1>1, <1>5 DEF Locals, FreshLocals
<1> HIDE DEF l
<1>8. loc' \in [Tasks -> Locals] /\ loc'[t] = l /\ \A u \in Tasks \ {t} : loc'[u] = loc[u]
  BY <1>6, <1>7
<1>9. op # "restore" => copy = Nothing
  BY <1>5 DEF copy
<1> QED BY <1>1, <1>2, <1>3, <1>4, <1>7, <1>8, <1>9 DEF OthersStay

LEMMA StartPreserves ==
  ASSUME IInv, NEW t \in Tasks, NEW op \in Ops, NEW r \in Requests(op),
         Start(t, op, r[1], r[2]), Watch
  PROVE  IInv'
<1> DEFINE key == r[1]
<1> USE TypesOf DEF IInv
<1>1. /\ pc[t] = "idle" /\ pc'[t] = First(op) /\ First(op) \in PCs \ Over
      /\ pc' \in [Tasks -> PCs]
      /\ req'[t] = [op |-> op, key |-> key, value |-> r[2]]
      /\ key \in Keys /\ r[2] \in Content /\ (op = "set" => r[2] # None)
      /\ req' \in [Tasks -> Requested] /\ loc' \in [Tasks -> Locals]
      /\ loc'[t].key = key /\ (op # "restore" => loc'[t].copy = Nothing)
      /\ OthersStay(t)
  BY StartIs
<1>2. /\ exposed' = exposed \cup UNION {Endangered(op, key, u) : u \in {v \in Tasks : Live(v)}}
      /\ expect' = Forgotten(Touches(op, key) \cup exposed')
      /\ UNCHANGED <<files, saved>> /\ UNCHANGED <<base, over, tomb>>
      /\ queue' = IF op \in Locked THEN Append(queue, t) ELSE queue
  BY DEF Start, files
<1>3. ~Live(t) /\ Live(t)' /\ Op(t)' = op /\ req'[t].key = key
  BY <1>1 DEF Live, Op, Over
<1>4. \A u \in Tasks \ {t} : Live(u)' = Live(u) /\ Op(u)' = Op(u) /\ req'[u] = req[u] /\ pc'[u] = pc[u]
  BY <1>1 DEF OthersStay, Live, Op
<1>5. exposed \subseteq exposed' /\ exposed' \subseteq Keys
  <2>1. ASSUME NEW u \in Tasks PROVE Endangered(op, key, u) \subseteq Keys
    <3>1. Touches(op, key) \subseteq Keys /\ Touches(Op(u), req[u].key) \subseteq Keys
      BY <1>1, TaskTypes DEF Touches
    <3> QED BY <3>1 DEF Endangered
  <2>2. exposed \subseteq Keys
    BY DEF TypeOK
  <2> QED BY <1>2, <2>1, <2>2
<1>6. View' = View /\ View' \in Contents
  BY <1>2 DEF View
<1>7. FilesOK(t)
  BY <1>2, <1>5, FilesUnchanged
<1>8. \A k \in Keys : expect'[k] = IF k \in Touches(op, key) \cup exposed' THEN Unknown ELSE expect[k]
  BY <1>2 DEF Forgotten
<1>9. expect' \in [Keys -> Content \cup {Unknown}]
  <2>1. expect \in [Keys -> Content \cup {Unknown}]
    BY DEF TypeOK
  <2> HIDE DEF IInv
  <2> QED BY <1>2, <2>1 DEF Forgotten
<1>10. Queued' /\ queue' \in Seq(Tasks)
  <2>1. CASE op \in Locked
    <3>1. First(op) = "queued"
      BY <2>1 DEF First, Locked, Wide
    <3>2. Goto(t, "queued") /\ queue' = Append(queue, t)
      BY <1>2, <2>1, <3>1 DEF Start
    <3> QED BY <1>1, <1>3, <1>4, <2>1, <3>2, QueueAppended
  <2>2. CASE op \notin Locked
    <3>1. queue' = queue /\ queue \in Seq(Tasks)
      BY <1>2, <2>2 DEF TypeOK
    <3>2. \A i \in 1..Len(queue) : queue[i] \in Tasks \ {t}
      BY <1>3, <3>1 DEF Queued
    <3>3. \A i \in 1..Len(queue) : Live(queue[i]) /\ Op(queue[i]) \in Locked
      BY DEF Queued
    <3>4. \A i \in 1..Len(queue) : pc'[queue[i]] \notin Over /\ req'[queue[i]].op \in Locked
      BY <1>4, <3>2, <3>3 DEF Live, Op, Over
    <3>5. ASSUME NEW u \in Tasks, Live(u)', Op(u)' \in Locked
          PROVE  (\E i \in 1..Len(queue) : queue[i] = u) /\ (pc'[u] # "queued" => Head(queue) = u)
      BY <1>3, <1>4, <2>2, <3>5 DEF Queued
    <3>6. \A i, j \in 1..Len(queue) : queue[i] = queue[j] => i = j
      BY DEF Queued
    <3> HIDE TypesOf DEF IInv
    <3> QED BY <3>1, <3>4, <3>5, <3>6 DEF Queued, Live, Op, Over
  <2> QED BY <2>1, <2>2
<1>11. TypeOK'
  BY <1>1, <1>2, <1>5, <1>6, <1>9, <1>10, Watched DEF TypeOK, Requested, Locals
<1>12. Undetermined'
  <2>1. \A k \in exposed' : expect'[k] = Unknown
    BY <1>5, <1>8
  <2>2. \A k \in Touches(op, key) : k \in Keys /\ expect'[k] = Unknown
    BY <1>1, <1>8 DEF Touches
  <2>3. ASSUME NEW u \in Tasks \ {t}, Live(u), NEW k \in Touches(Op(u), req[u].key)
        PROVE  expect'[k] = Unknown
    <3>1. k \in Keys /\ expect[k] = Unknown
      BY <2>3, TaskTypes DEF Undetermined
    <3> QED BY <1>8, <3>1
  <2> QED BY <1>3, <1>4, <2>1, <2>2, <2>3 DEF Undetermined
<1>13. ClashesExposed'
  <2>1. ASSUME NEW u \in Tasks \ {t}, Live(u)
        PROVE  Clash(t, u)' \subseteq exposed' /\ Clash(u, t)' \subseteq exposed'
    <3> DEFINE mine == Touches(op, key)
               theirs == Touches(Op(u), req[u].key)
    <3>1. /\ Clash(t, u)' = IF op \in Locked \/ Op(u) \in Locked THEN mine \cup theirs
                            ELSE mine \cap theirs
          /\ Clash(u, t)' = IF op \in Locked \/ Op(u) \in Locked THEN mine \cup theirs
                            ELSE mine \cap theirs
      BY <1>3, <1>4 DEF Clash
    <3>2. Endangered(op, key, u) \subseteq exposed'
      BY <1>2, <2>1
    <3>3. /\ op \in Locked => mine = {}
          /\ Op(u) \in Locked => theirs = {}
      <4>1. Op(u) \in Ops
        BY DEF Op, Requested
      <4>2. \A o \in Locked : o \notin {"set", "delete"} \cup Wide
        BY DEF Locked, Wide
      <4> QED BY <4>1, <4>2, TouchesOf
    <3>4. Endangered(op, key, u) = IF op \in Locked THEN theirs
                                   ELSE IF Op(u) \in Locked THEN mine ELSE mine \cap theirs
      BY <3>3 DEF Endangered
    <3> QED BY <3>1, <3>2, <3>3, <3>4
  <2>2. ASSUME NEW u \in Tasks \ {t}, NEW v \in Tasks \ {t}, u # v, Live(u), Live(v)
        PROVE  Clash(u, v)' \subseteq exposed'
    <3>1. Clash(u, v)' = Clash(u, v)
      BY <1>4 DEF Clash
    <3> QED BY <1>5, <2>2, <3>1 DEF ClashesExposed
  <2> QED BY <1>4, <2>1, <2>2 DEF ClashesExposed
<1>14. TaskOK(t)'
  <2>1. /\ op = "get" => First(op) = "getTomb"
        /\ op = "set" => First(op) = "hasTomb"
        /\ op = "delete" => First(op) = "hasOver"
        /\ op \in Wide => First(op) = "clear"
        /\ op \in Locked => First(op) = "queued"
        /\ op \in {"get", "set", "delete"} \cup Wide \cup Locked
        /\ op = "snapshot" => op \in Locked
    BY DEF First, Locked, Wide, Ops
  <2>2. OpOfLabel(t)' /\ WriteProgress(t)' /\ CommitProgress(t)'
    BY <1>1, <1>3, <2>1 DEF OpOfLabel, WriteProgress, CommitProgress, Op, Wide, Locked
  <2>3. GetProgress(t)'
    <3>1. op = "get" => seen'[t] = seen[t] \cup {View'[key]}
      BY <1>1, <1>3, <1>6, Watched
    <3> QED BY <1>1, <1>3, <2>1, <3>1 DEF GetProgress
  <2>4. SnapshotProgress(t)'
    BY <1>1, <1>3, <2>1 DEF SnapshotProgress, Locked, Wide
  <2> QED BY <2>2, <2>3, <2>4 DEF TaskOK
<1>15. \A u \in Tasks : TaskOK(u)'
  BY <1>1, <1>5, <1>6, <1>7, <1>14, OthersKept DEF FilesOK
<1>16. WritesKept'
  BY <1>5, <1>6, <1>8 DEF WritesKept, Safe
<1> QED BY <1>7, <1>10, <1>11, <1>12, <1>13, <1>15, <1>16 DEF FilesOK

-----------------------------------------------------------------------------
(* The invariant.                                                           *)

LEMMA InitIInv == Init => IInv
<1> SUFFICES ASSUME Init PROVE IInv
  OBVIOUS
<1> USE FreshTypes DEF Init
<1>1. View \in Contents
  BY DEF View, Contents, Content
<1>2. TypeOK
  BY <1>1 DEF TypeOK, PCs, Requested, Locals, Contents
<1>3. \A t \in Tasks : ~Live(t) /\ pc[t] = "idle"
  BY DEF Live
<1>4. \A t \in Tasks : TaskOK(t)
  BY <1>3 DEF TaskOK, OpOfLabel, WriteProgress, GetProgress, CommitProgress, SnapshotProgress
<1>5. Queued
  BY <1>3 DEF Queued
<1>6. Undetermined /\ ClashesExposed /\ OneOrOther /\ WritesKept
  BY <1>3 DEF Undetermined, ClashesExposed, OneOrOther, WritesKept, Safe
<1> QED BY <1>2, <1>4, <1>5, <1>6 DEF IInv

LEMMA StepKeepsIInv ==
  ASSUME IInv, NEW t \in Tasks, Step(t), Watch PROVE IInv'
<1>1. CASE GetTomb(t) BY <1>1, GetTombPreserves
<1>2. CASE GetOver(t) BY <1>2, GetOverPreserves
<1>3. CASE GetBase(t) BY <1>3, GetBasePreserves
<1>4. CASE Answer(t) BY <1>4, AnswerPreserves
<1>5. CASE HasTomb(t) BY <1>5, HasTombPreserves
<1>6. CASE DropTomb(t) BY <1>6, DropTombPreserves
<1>7. CASE Write(t) BY <1>7, WritePreserves
<1>8. CASE HasOver(t) BY <1>8, HasOverPreserves
<1>9. CASE DropOver(t) BY <1>9, DropOverPreserves
<1>10. CASE Bury(t) BY <1>10, BuryPreserves
<1>11. CASE Clear(t) BY <1>11, ClearPreserves
<1>12. CASE Replay(t) BY <1>12, ReplayPreserves
<1>13. CASE Replayed(t) BY <1>13, ReplayedPreserves
<1>14. CASE Enter(t) BY <1>14, EnterPreserves
<1>15. CASE ListOver(t) BY <1>15, ListOverPreserves
<1>16. CASE ReadOver(t) BY <1>16, ReadOverPreserves
<1>17. CASE Publish(t) BY <1>17, PublishPreserves
<1>18. CASE ListTomb(t) BY <1>18, ListTombPreserves
<1>19. CASE Unpublish(t) BY <1>19, UnpublishPreserves
<1>20. CASE Wipe(t) BY <1>20, WipePreserves
<1>21. CASE SnapTomb(t) BY <1>21, SnapTombPreserves
<1>22. CASE SnapBase(t) BY <1>22, SnapBasePreserves
<1>23. CASE Capture(t) BY <1>23, CapturePreserves
<1>24. CASE Captured(t) BY <1>24, CapturedPreserves
<1> QED BY <1>1, <1>2, <1>3, <1>4, <1>5, <1>6, <1>7, <1>8, <1>9, <1>10, <1>11, <1>12, <1>13,
           <1>14, <1>15, <1>16, <1>17, <1>18, <1>19, <1>20, <1>21, <1>22, <1>23, <1>24 DEF Step

LEMMA StutterKeepsIInv == ASSUME IInv, UNCHANGED vars PROVE IInv'
<1>1. View' = View
  BY DEF View, vars, files
<1> QED BY <1>1 DEF vars, files, IInv, TypeOK, OneOrOther, Undetermined, ClashesExposed, Clash,
                    Queued, TaskOK, OpOfLabel, WriteProgress, GetProgress, CommitProgress,
                    SnapshotProgress, WritesKept, Safe, Live, Op

LEMMA NextKeepsIInv == IInv /\ [Next]_vars => IInv'
<1> SUFFICES ASSUME IInv, [Next]_vars PROVE IInv'
  OBVIOUS
<1>1. CASE UNCHANGED vars
  BY <1>1, StutterKeepsIInv
<1>2. ASSUME NEW t \in Tasks, NEW op \in Ops, NEW r \in Requests(op), Start(t, op, r[1], r[2]), Watch
      PROVE  IInv'
  BY <1>2, StartPreserves
<1>3. ASSUME NEW t \in Tasks, Step(t), Watch PROVE IInv'
  BY <1>3, StepKeepsIInv
<1>4. ASSUME NEW t \in Tasks, Fail(t), Watch PROVE IInv'
  BY <1>4, FailPreserves
<1>5. CASE Crash /\ Watch
  BY <1>5, CrashPreserves
<1>6. CASE Finished
  BY <1>6, StutterKeepsIInv DEF Finished
<1> QED BY <1>1, <1>2, <1>3, <1>4, <1>5, <1>6 DEF Next

LEMMA Invariance == Spec => []IInv
  BY InitIInv, NextKeepsIInv, PTL DEF Spec

\* Only the effects of inner calls, Replay and Unpublish change the files.
LEMMA StepFollows ==
  ASSUME IInv, NEW t \in Tasks, Step(t) PROVE UNCHANGED exposed /\ FilesFollow(t)
<1>1. CASE UNCHANGED <<files, exposed>>
  BY <1>1, FilesUnchanged DEF FilesOK
<1>2. CASE DropTomb(t) \/ Write(t) \/ DropOver(t) \/ Bury(t) \/ Publish(t) \/ Clear(t) \/ Wipe(t)
  <2>1. Live(t) /\ UNCHANGED exposed
    BY <1>2 DEF Live, DropTomb, Write, DropOver, Bury, Publish, Clear, Wipe
  <2>2. <<base', over', tomb'>> = Effect(t)
    BY <1>2 DEF Effect, DropTomb, Write, DropOver, Bury, Publish, Clear, Wipe
  <2> QED BY <2>1, <2>2, EffectFollows DEF FilesOK
<1>3. CASE Replay(t)
  BY <1>3, ReplayFollows DEF Replay, FilesOK
<1>4. CASE Unpublish(t)
  BY <1>4, UnpublishFollows DEF Unpublish, FilesOK
<1> QED BY <1>1, <1>2, <1>3, <1>4
  DEF Step, GetTomb, GetOver, GetBase, Answer, HasTomb, HasOver, Replayed, Enter, ListOver,
      ReadOver, ListTomb, SnapTomb, SnapBase, Capture, Captured

-----------------------------------------------------------------------------
(* TypeCorrect: each variable has its type, for any calls, keys and values. *)
THEOREM TypeCorrect == Spec => []TypeOK
<1>1. IInv => TypeOK
  BY DEF IInv
<1> QED BY <1>1, Invariance, PTL

(* ReadsAreRegular: whatever writes, commits, failures and crashes come     *)
(* between the three reads of a get, it answers with a value that was       *)
(* visible while it ran (overlay.ts:129).                                   *)
THEOREM ReadsAreRegular == Spec => []GetIsRegular
<1>1. IInv => GetIsRegular
  BY TaskTypes DEF IInv, GetIsRegular, TaskOK, OpOfLabel, GetProgress, Live, Op
<1> QED BY <1>1, Invariance, PTL

(* LastWriteIsVisible: what the last write of a key left is what a reader   *)
(* sees until the next write, through commits and snapshots at any stage.   *)
THEOREM LastWriteIsVisible == Spec => []WritesKept
<1>1. IInv => WritesKept
  BY DEF IInv
<1> QED BY <1>1, Invariance, PTL

(* WipeIsSafe: before a commit wipes the overlay the base has all of it.    *)
THEOREM WipeIsSafe == Spec => []CommitIsComplete
<1>1. ASSUME IInv PROVE CommitIsComplete
  <2> SUFFICES ASSUME NEW t \in Tasks, pc[t] = "unpublish", loc[t].todo = {}, NEW k \in Safe
               PROVE  base[k] = View[k]
    BY DEF CommitIsComplete
  <2>1. over[k] \in {None, base[k]} /\ (k \in tomb => base[k] = None) /\ k \in Keys
    BY <1>1 DEF IInv, TaskOK, CommitProgress, Safe
  <2> QED BY <2>1 DEF View
<1> QED BY <1>1, Invariance, PTL

(* SnapshotsAreViews: a snapshot taken key by key is the view of one moment. *)
THEOREM SnapshotsAreViews == Spec => []SnapshotIsView
<1>1. ASSUME IInv PROVE SnapshotIsView
  <2> SUFFICES ASSUME NEW t \in Tasks, pc[t] = "capture", loc[t].todo = {}, NEW k \in Safe
               PROVE  loc[t].copy[k] = View[k]
    BY DEF SnapshotIsView
  <2> QED BY <1>1 DEF IInv, TaskOK, OpOfLabel, SnapshotProgress, Op
<1> QED BY <1>1, Invariance, PTL

\* Nothing reaches the base but what a reader sees already, and a commit
\* changes nothing for readers: base and view never change in one step.
BaseFollowsView ==
    [][\A k \in Keys \ exposed' :
         base'[k] # base[k] => base'[k] = View[k] /\ View'[k] = View[k]]_vars

(* BaseIsNeverAhead: nothing reaches the base that readers do not see       *)
(* already, and what reaches it changes nothing for them.                   *)
THEOREM BaseIsNeverAhead == Spec => BaseFollowsView
<1> DEFINE Follows ==
        \A k \in Keys \ exposed' : base'[k] # base[k] => base'[k] = View[k] /\ View'[k] = View[k]
<1>1. ASSUME IInv, [Next]_vars PROVE [Follows]_vars
  <2>1. ASSUME NEW t \in Tasks, FilesFollow(t) PROVE Follows
    BY <2>1 DEF FilesFollow, Safe
  <2>2. ASSUME base' = base PROVE Follows
    BY <2>2
  <2>3. ASSUME NEW t \in Tasks, Step(t) \/ Fail(t) PROVE Follows
    BY <1>1, <2>1, <2>3, StepFollows, FailFollows DEF FilesOK
  <2>4. CASE Crash \/ Finished \/ UNCHANGED vars
    BY <2>2, <2>4 DEF Crash, Finished, vars, files
  <2>5. ASSUME NEW t \in Tasks, NEW op \in Ops, NEW r \in Requests(op), Start(t, op, r[1], r[2])
        PROVE  Follows
    BY <2>2, <2>5 DEF Start, files
  <2> HIDE DEF Follows
  <2> QED BY <1>1, <2>3, <2>4, <2>5 DEF Next
<1> QED BY <1>1, Invariance, PTL DEF BaseFollowsView, Spec

-----------------------------------------------------------------------------
(* Refinement.  A step of a call is a step of each key: of its writes, of   *)
(* its way to the base, or none.                                            *)

LEMMA Ended ==
  ASSUME IInv, NEW t \in Tasks, NEW label \in Over, End(t, label)
  PROVE  OthersStay(t) /\ ~Live(t)'
  BY DEF End, Goto, IInv, TypeOK, OthersStay, Live, Over

\* A running call changes neither its request nor, in a restore, its snapshot.
LEMMA WritersGoOn ==
  ASSUME IInv, NEW t \in Tasks, Step(t) \/ Fail(t)
  PROVE  /\ OthersStay(t) /\ Live(t)
         /\ Live(t)' => req'[t] = req[t] /\ (Op(t) \in Wide => loc'[t].copy = loc[t].copy)
<1> USE DEF Goto
<1>0. pc \in [Tasks -> PCs] /\ req \in [Tasks -> Requested] /\ loc \in [Tasks -> Locals]
  BY DEF IInv, TypeOK, Requested, Locals
<1>1. CASE \/ Answer(t) \/ Write(t) \/ Bury(t) \/ Replayed(t) \/ Wipe(t) \/ Captured(t)
           \/ Fail(t) \/ (Clear(t) /\ Op(t) = "discard")
  <2>1. End(t, "done") \/ End(t, "failed")
    BY <1>1 DEF Answer, Write, Bury, Replayed, Wipe, Captured, Fail, Clear
  <2>2. Live(t)
    BY <1>1 DEF Answer, Write, Bury, Replayed, Wipe, Captured, Fail, Clear, Live
  <2> QED BY <2>1, <2>2, Ended DEF Over
<1>2. CASE HasTomb(t) \/ DropTomb(t) \/ HasOver(t) \/ DropOver(t)
  BY <1>0, <1>2 DEF HasTomb, DropTomb, HasOver, DropOver, OthersStay, Live
<1>3. CASE (Clear(t) /\ Op(t) # "discard") \/ Replay(t)
  <2>1. CASE Replay(t)
    BY <1>0, <2>1 DEF Replay, OthersStay, Live, Locals
  <2>2. CASE Clear(t) /\ Op(t) # "discard"
    BY <1>0, <2>2 DEF Clear, OthersStay, Live, Locals
  <2> QED BY <1>3, <2>1, <2>2
<1>4. CASE GetTomb(t) \/ GetOver(t) \/ GetBase(t)
  <2>1. Op(t) \notin Wide /\ Live(t) /\ UNCHANGED req
    BY <1>4 DEF GetTomb, GetOver, GetBase, IInv, TaskOK, OpOfLabel, Op, Wide, Live
  <2>2. OthersStay(t)
    BY <1>0, <1>4 DEF GetTomb, GetOver, GetBase, Got, OthersStay
  <2> QED BY <2>1, <2>2
<1>5. CASE \/ Enter(t) \/ ListOver(t) \/ ReadOver(t) \/ Publish(t) \/ ListTomb(t)
           \/ Unpublish(t) \/ SnapTomb(t) \/ SnapBase(t) \/ Capture(t)
  <2>1. Op(t) \notin Wide
    BY <1>5 DEF Enter, ListOver, ReadOver, Publish, ListTomb, Unpublish, SnapTomb, SnapBase,
                Capture, IInv, TaskOK, OpOfLabel, Op, Wide, Locked
  <2>2. Live(t) /\ UNCHANGED req
    BY <1>5 DEF Enter, ListOver, ReadOver, Publish, ListTomb, Unpublish, SnapTomb, SnapBase,
                Capture, Live
  <2>3. ASSUME NEW u \in Tasks \ {t} PROVE pc'[u] = pc[u] /\ loc'[u] = loc[u]
    <3>1. CASE Enter(t)
      BY <1>0, <3>1 DEF Enter
    <3>2. CASE ListOver(t) \/ ReadOver(t) \/ ListTomb(t)
      BY <1>0, <3>2 DEF ListOver, ReadOver, ListTomb
    <3>3. CASE Publish(t) \/ Unpublish(t)
      BY <1>0, <3>3 DEF Publish, Unpublish
    <3>4. CASE SnapTomb(t) \/ SnapBase(t) \/ Capture(t)
      BY <1>0, <3>4 DEF SnapTomb, SnapBase, Capture
    <3> QED BY <1>5, <3>1, <3>2, <3>3, <3>4
  <2>4. OthersStay(t)
    BY <2>2, <2>3 DEF OthersStay
  <2> QED BY <2>1, <2>2, <2>4
<1> QED BY <1>1, <1>2, <1>3, <1>4, <1>5 DEF Step

\* Nothing new comes to a key whose base stays as it is.
LEMMA NothingNewComes ==
  ASSUME IInv, NEW t \in Tasks, Step(t) \/ Fail(t), NEW k \in Keys, base'[k] = base[k]
  PROVE  Coming'[k] \subseteq Coming[k]
<1> SUFFICES ASSUME NEW u \in Writers(k)' PROVE u \in Writers(k) /\ Leaves(u, k)' = Leaves(u, k)
  BY DEF Coming
<1>1. CASE u # t
  BY <1>1, WritersGoOn DEF OthersStay, Writers, Leaves, Live, Op
<1>2. CASE u = t
  <2>1. Live(t) /\ Live(t)' /\ req'[t] = req[t]
    BY <1>2, WritersGoOn DEF Writers
  <2>2. u \in Writers(k)
    BY <1>2, <2>1 DEF Writers, Op
  <2>3. Op(t) = "restore" => loc'[t].copy = loc[t].copy
    BY <2>1, WritersGoOn DEF Wide
  <2> QED BY <1>2, <2>1, <2>2, <2>3 DEF Leaves, Op
<1> QED BY <1>1, <1>2

\* What an effect shows of a key its call writes: what was there, what is below,
\* or what the call leaves.
LEMMA EffectShows ==
  ASSUME IInv, NEW t \in Tasks, Live(t), <<base', over', tomb'>> = Effect(t),
         NEW k \in Safe, Writes(t, k)
  PROVE  base' = base /\ View'[k] \in {View[k], base[k], Leaves(t, k)}
<1> USE TaskTypes, TypesOf, FreshTypes DEF IInv
<1>0. k \in Keys /\ (k \in tomb => over[k] = None) /\ req[t].value \in Content
  BY DEF Safe, OneOrOther, Requested
<1>1. Op(t) \in {"set", "delete"} => k = req[t].key
  BY DEF Writes, Touches, Wide
<1>2. Op(t) \notin Locked /\ Op(t) # "get"
  BY DEF Writes, Touches, Wide, Locked
<1>3. CASE pc[t] = "dropTomb"
  <2>1. base' = base /\ over' = over /\ tomb' = tomb \ {k}
    BY <1>1, <1>3 DEF Effect, TaskOK, OpOfLabel, Op
  <2> QED BY <1>0, <2>1 DEF View
<1>4. CASE pc[t] = "write"
  <2>1. Op(t) = "set" /\ k \notin tomb /\ req[t].value # None
    BY <1>1, <1>4 DEF TaskOK, OpOfLabel, WriteProgress, Op
  <2>2. base' = base /\ over' = [over EXCEPT ![k] = req[t].value] /\ tomb' = tomb
    BY <1>1, <1>4, <2>1 DEF Effect
  <2>3. over'[k] = req[t].value
    BY <1>0, <2>2 DEF Contents
  <2> QED BY <1>0, <2>1, <2>2, <2>3 DEF View, Leaves
<1>5. CASE pc[t] = "dropOver"
  <2>1. base' = base /\ over' = [over EXCEPT ![k] = None] /\ tomb' = tomb
    BY <1>1, <1>5 DEF Effect, TaskOK, OpOfLabel, Op
  <2>2. over'[k] = None
    BY <1>0, <2>1 DEF Contents
  <2> QED BY <1>0, <2>1, <2>2 DEF View
<1>6. CASE pc[t] = "bury"
  <2>1. Op(t) = "delete"
    BY <1>6 DEF TaskOK, OpOfLabel, Op
  <2>2. base' = base /\ over' = over /\ tomb' = tomb \cup {k}
    BY <1>1, <1>6, <2>1 DEF Effect
  <2> QED BY <1>0, <2>1, <2>2 DEF View, Leaves
<1>7. CASE pc[t] = "clear"
  <2>1. base' = base /\ over' = Nothing /\ tomb' = {}
    BY <1>7 DEF Effect
  <2> QED BY <1>0, <2>1 DEF View, Nothing
<1>8. CASE ~(pc[t] \in {"dropTomb", "write", "dropOver", "bury", "clear"})
  <2>1. Effect(t) = files
    BY <1>2, <1>8 DEF Effect, TaskOK, OpOfLabel, Op, Locked
  <2>2. base' = base /\ over' = over /\ tomb' = tomb
    BY <2>1 DEF files
  <2> QED BY <1>0, <2>2 DEF View
<1> QED BY <1>3, <1>4, <1>5, <1>6, <1>7, <1>8

LEMMA ReplayShows ==
  ASSUME IInv, NEW t \in Tasks, Replay(t), NEW k \in Safe
  PROVE  base' = base /\ View'[k] \in {View[k], base[k], Leaves(t, k)}
<1> USE TaskTypes, TypesOf DEF IInv, Replay
<1>1. PICK j \in loc[t].todo : over' = [over EXCEPT ![j] = loc[t].copy[j]]
  OBVIOUS
<1>2. k \in Keys /\ k \notin tomb /\ Op(t) = "restore"
  BY DEF Safe, TaskOK, OpOfLabel, WriteProgress, Op
<1>3. base' = base /\ tomb' = tomb
  OBVIOUS
<1>4. CASE j # k
  <2>1. over'[k] = over[k]
    BY <1>1, <1>2, <1>4 DEF Contents
  <2> QED BY <1>2, <1>3, <2>1 DEF View
<1>5. CASE j = k
  <2>1. over'[k] = loc[t].copy[k]
    BY <1>1, <1>2, <1>5 DEF Contents
  <2> QED BY <1>2, <1>3, <2>1 DEF View, Leaves
<1> QED BY <1>4, <1>5

\* What a step shows of a key its call writes.
LEMMA WritesShow ==
  ASSUME IInv, NEW t \in Tasks, Step(t) \/ Fail(t), NEW k \in Safe, Writes(t, k)
  PROVE  base' = base /\ View'[k] \in {View[k], base[k], Leaves(t, k)}
<1>0. Live(t) /\ k \in Keys
  BY DEF Writes, Safe
<1>1. CASE UNCHANGED files
  BY <1>0, <1>1 DEF files, View
<1>2. CASE <<base', over', tomb'>> = Effect(t)
  BY <1>0, <1>2, EffectShows
<1>3. CASE Replay(t)
  BY <1>3, ReplayShows
<1>4. ~Unpublish(t)
  BY DEF Unpublish, Writes, Touches, Wide, IInv, TaskOK, OpOfLabel, Op
<1>5. CASE DropTomb(t) \/ Write(t) \/ DropOver(t) \/ Bury(t) \/ Publish(t) \/ Clear(t) \/ Wipe(t)
  <2>1. <<base', over', tomb'>> = Effect(t)
    BY <1>5 DEF Effect, DropTomb, Write, DropOver, Bury, Publish, Clear, Wipe
  <2> QED BY <1>2, <2>1
<1>6. CASE Fail(t)
  <2>1. PICK f \in {files, Effect(t)} : base' = f[1] /\ over' = f[2] /\ tomb' = f[3]
    BY <1>6 DEF Fail
  <2>2. f = <<f[1], f[2], f[3]>>
    BY <2>1 DEF Effect, files
  <2> QED BY <1>1, <1>2, <2>1, <2>2 DEF files
<1> QED BY <1>1, <1>3, <1>4, <1>5, <1>6
  DEF Step, GetTomb, GetOver, GetBase, Answer, HasTomb, HasOver, Replayed, Enter, ListOver,
      ReadOver, ListTomb, SnapTomb, SnapBase, Capture, Captured

\* Only commits change the base, one key at a time.
LEMMA BaseChanges ==
  ASSUME IInv, NEW t \in Tasks, Step(t) \/ Fail(t), base' # base
  PROVE  /\ Op(t) = "commit"
         /\ \E k \in Keys : base'[k] # base[k] /\ \A j \in Keys \ {k} : base'[j] = base[j]
<1> USE TaskTypes, TypesOf DEF IInv
<1>1. /\ pc[t] = "publish" \/ pc[t] = "unpublish"
      /\ \E k \in Keys, v \in Content : base' = [base EXCEPT ![k] = v]
  <2>1. CASE Publish(t)
    BY <2>1 DEF Publish, Locals
  <2>2. CASE Unpublish(t)
    BY <2>2 DEF Unpublish, Locals, Content
  <2>3. CASE Fail(t)
    <3>1. PICK f \in {files, Effect(t)} : base' = f[1]
      BY <2>3 DEF Fail
    <3>2. f = Effect(t)
      BY <3>1 DEF files
    <3>3. pc[t] = "publish"
      BY <3>1, <3>2 DEF Effect, files
    <3>4. base' = [base EXCEPT ![loc[t].key] = loc[t].value]
      BY <3>1, <3>2, <3>3 DEF Effect
    <3> QED BY <3>3, <3>4 DEF Locals
  <2> QED BY <2>1, <2>2, <2>3
    DEF Step, GetTomb, GetOver, GetBase, Answer, HasTomb, HasOver, DropTomb, DropOver, Write, Bury,
        Clear, Replay, Replayed, Enter, ListOver, ReadOver, ListTomb, Wipe, SnapTomb, SnapBase,
        Capture, Captured, files
<1>2. PICK k \in Keys, v \in Content : base' = [base EXCEPT ![k] = v]
  BY <1>1
<1>3. base'[k] # base[k] /\ \A j \in Keys \ {k} : base'[j] = base[j]
  BY <1>2 DEF Contents
<1>4. Op(t) = "commit"
  BY <1>1 DEF TaskOK, OpOfLabel, Op
<1> QED BY <1>3, <1>4

\* Nobody writes a key that is not exposed while a commit runs.
LEMMA NoWritersBesideCommit ==
  ASSUME IInv, NEW t \in Tasks, Live(t), Op(t) = "commit", NEW k \in Safe
  PROVE  Writers(k) = {}
<1> SUFFICES ASSUME NEW u \in Writers(k) PROVE FALSE
  OBVIOUS
<1>1. u \in Tasks /\ Live(u) /\ k \in Touches(Op(u), req[u].key)
  BY DEF Writers
<1>2. u # t
  BY <1>1 DEF Touches, Wide
<1>3. Clash(t, u) \subseteq exposed
  BY <1>1, <1>2 DEF IInv, ClashesExposed
<1> QED BY <1>1, <1>3 DEF Clash, Locked, Safe

LEMMA StepRefines ==
  ASSUME IInv, NEW t \in Tasks, Step(t) \/ Fail(t) PROVE Layers!Next
<1>0. UNCHANGED exposed /\ FilesFollow(t)
  BY StepFollows, FailFollows DEF Fail, FilesOK
<1>1. CASE base' = base
  <2>1. ASSUME NEW k \in Keys
        PROVE  /\ Coming'[k] \subseteq Coming[k]
               /\ \/ k \in exposed \/ View'[k] = View[k]
                  \/ Coming[k] # {} /\ View'[k] \in Coming[k] \cup {base[k]}
    <3>1. Coming'[k] \subseteq Coming[k]
      BY <1>1, NothingNewComes
    <3>2. CASE k \in Safe /\ Writes(t, k)
      <4>1. View'[k] \in {View[k], base[k], Leaves(t, k)}
        BY <3>2, WritesShow
      <4>2. Leaves(t, k) \in Coming[k]
        BY <3>2 DEF Coming, Writers, Writes
      <4> QED BY <3>1, <4>1, <4>2
    <3>3. CASE k \in Safe /\ ~Writes(t, k)
      BY <1>0, <3>1, <3>3, SameView DEF FilesFollow, Safe
    <3> QED BY <3>1, <3>2, <3>3 DEF Safe
  <2> QED BY <1>0, <1>1, <2>1 DEF Layers!Next, Layers!Proceed
<1>2. CASE base' # base
  <2>1. Op(t) = "commit" /\ Live(t)
    BY <1>2, BaseChanges, WritersGoOn
  <2>2. PICK k \in Keys : base'[k] # base[k] /\ \A j \in Keys \ {k} : base'[j] = base[j]
    BY <1>2, BaseChanges
  <2>3. ASSUME NEW j \in Safe
        PROVE  View'[j] = View[j] /\ Coming[j] = {} /\ Coming'[j] = {}
    <3>1. ~Writes(t, j) /\ j \in Keys
      BY <2>1 DEF Writes, Touches, Wide, Safe
    <3>2. View'[j] = View[j]
      BY <1>0, <3>1, SameView DEF FilesFollow, Safe
    <3>3. Writers(j) = {}
      BY <2>1, NoWritersBesideCommit
    <3>4. ASSUME NEW u \in Writers(j)' PROVE FALSE
      <4>1. CASE u = t
        BY <2>1, <4>1, WritersGoOn DEF Writers, Op, Touches, Wide
      <4>2. CASE u # t
        BY <3>3, <4>2, WritersGoOn DEF OthersStay, Writers, Live, Op
      <4> QED BY <4>1, <4>2
    <3> QED BY <3>1, <3>2, <3>3, <3>4 DEF Coming
  <2>4. k \notin exposed => base'[k] = View[k]
    BY <1>0, <2>2 DEF FilesFollow, Safe
  <2>5. Layers!Publish(k)
    BY <1>0, <2>2, <2>3, <2>4 DEF Layers!Publish, Safe
  <2> QED BY <2>5 DEF Layers!Next
<1> QED BY <1>1, <1>2

LEMMA StartRefines ==
  ASSUME IInv, NEW t \in Tasks, NEW op \in Ops, NEW r \in Requests(op), Start(t, op, r[1], r[2])
  PROVE  Layers!Next
<1>1. UNCHANGED files /\ exposed \subseteq exposed' /\ pc[t] = "idle" /\ OthersStay(t)
  BY StartIs DEF Start
<1>2. View' = View /\ base' = base
  BY <1>1 DEF View, files
<1>3. ASSUME NEW k \in Keys, NEW u \in Writers(k)
      PROVE  u \in Writers(k)' /\ Leaves(u, k)' = Leaves(u, k)
  <2>1. u # t
    BY <1>1, <1>3 DEF Writers, Live
  <2> QED BY <1>1, <1>2, <1>3, <2>1 DEF OthersStay, Writers, Leaves, Live, Op
<1>4. \A k \in Keys : Coming[k] \subseteq Coming'[k]
  BY <1>3 DEF Coming
<1> QED BY <1>1, <1>2, <1>4 DEF Layers!Next, Layers!Begin

LEMMA CrashRefines ==
  ASSUME IInv, Crash PROVE Layers!Next
<1>1. View' = View /\ base' = base /\ exposed' = exposed
  BY DEF Crash, View, files
<1>2. \A u \in Tasks : ~Live(u)'
  BY DEF Crash, Live, IInv, TypeOK
<1>3. \A k \in Keys : Coming'[k] = {}
  BY <1>2 DEF Coming, Writers
<1> QED BY <1>1, <1>3 DEF Layers!Next, Layers!Proceed

(* OverlayIsCopyOnWrite: the overlay implements the copy-on-write map that  *)
(* its callers rely on (overlay.ts:1): every step begins calls, or changes  *)
(* keys by their own writes, or publishes one key that readers see already. *)
THEOREM OverlayIsCopyOnWrite == Spec => ImplementsCopyOnWrite
<1>1. Init => Layers!Init
  <2> SUFFICES ASSUME Init PROVE Layers!Init
    OBVIOUS
  <2>1. View \in [Keys -> Content] /\ base \in [Keys -> Content] /\ exposed = {}
    BY DEF Init, View, Contents, Content
  <2>2. Coming = [k \in Keys |-> {}]
    BY DEF Init, Coming, Writers, Live
  <2> QED BY <2>1, <2>2 DEF Layers!Init
<1>2. ASSUME IInv, [Next]_vars PROVE [Layers!Next]_<<base, View, Coming, exposed>>
  <2>1. CASE UNCHANGED vars
    BY <2>1 DEF vars, files, View, Coming, Writers, Leaves, Live, Op
  <2>2. ASSUME NEW t \in Tasks, Step(t) \/ Fail(t) PROVE Layers!Next
    BY <1>2, <2>2, StepRefines
  <2>3. ASSUME NEW t \in Tasks, NEW op \in Ops, NEW r \in Requests(op), Start(t, op, r[1], r[2])
        PROVE  Layers!Next
    BY <1>2, <2>3, StartRefines
  <2>4. CASE Crash
    BY <1>2, <2>4, CrashRefines
  <2> QED BY <1>2, <2>1, <2>2, <2>3, <2>4 DEF Next, Finished
<1> QED BY <1>1, <1>2, Invariance, PTL DEF Spec, ImplementsCopyOnWrite, Layers!Spec

-----------------------------------------------------------------------------
\* What a restore leaves of the snapshot: its values, and the base's value
\* wherever it has none.
RestoreLeaves ==
    \A t \in Tasks :
        pc[t] = "replay" /\ loc[t].todo = {} =>
            \A k \in Safe :
                View[k] = IF loc[t].copy[k] # None THEN loc[t].copy[k] ELSE base[k]

(* RestoresKeepValues: of RestoreRestores, which a restore does not keep,   *)
(* only the deletions fail: a key that was deleted when the snapshot was    *)
(* taken has the base's value again (overlay.ts:389), all others have their *)
(* value.                                                                   *)
THEOREM RestoresKeepValues == Spec => []RestoreLeaves
<1>1. IInv => RestoreLeaves
  <2> SUFFICES ASSUME IInv, NEW t \in Tasks, pc[t] = "replay", loc[t].todo = {}, NEW k \in Safe
               PROVE  View[k] = IF loc[t].copy[k] # None THEN loc[t].copy[k] ELSE base[k]
    BY DEF RestoreLeaves
  <2>1. k \notin tomb /\ over[k] = loc[t].copy[k] /\ k \in Keys
    BY DEF IInv, TaskOK, WriteProgress, Safe
  <2> QED BY <2>1 DEF View
<1> QED BY <1>1, Invariance, PTL
=============================================================================
