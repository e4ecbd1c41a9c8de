--------------------------- MODULE RecordsProofs ---------------------------
(* Stores that keep several records in step, each on its own.  The episodes *)
(* of any number of tasks, episodes and sequences: types, the recall counts *)
(* that boosts leave behind, and the sequences that episodes name.  The     *)
(* mirror for any number of runs, processes and slugs: types, and what a    *)
(* run without trouble leaves on the peer.  The labels for any number of    *)
(* tasks, items and pages: types, walks that leave nothing out, and items   *)
(* that stay read.                                                          *)
EXTENDS Episodic, LabelsState, MirrorState, Sequences, FiniteSetTheorems, TLAPS

Locals == [op : Ops \cup {"none"}, id : Ids \cup {None}, seq : Seqs \cup {None},
           todo : SUBSET Ids, keep : BOOLEAN, read : Episode \cup {None}, stale : BOOLEAN]

-----------------------------------------------------------------------------
(* The inductive invariant, task by task.                                   *)

\* Which labels a call can be at.
OpOfLabel(t) ==
    LET op == eloc[t].op IN
    /\ epc[t] = "put" => op = "remember"
    /\ epc[t] = "find" => op = "recall"
    /\ epc[t] = "next" => op \in {"recall", "decay", "disband"}
    /\ epc[t] \in {"lock", "read", "write"} => op \in {"recall", "boost"}
    /\ epc[t] = "delete" => op \in {"forget", "decay"}
    /\ epc[t] \in {"load", "save"} => op \in {"update", "regroup", "join", "disband"}
    /\ epc[t] \in {"getEpisode", "getSequence", "setSequence"} => op = "join"
    /\ epc[t] = "create" => op = "create"
    /\ epc[t] \in {"members", "deleteSequence"} => op = "disband"
    /\ epc[t] = "judge" => op = "decay"
    /\ epc[t] \in {"clearEpisodes", "clearSequences"} => op = "clearAll"

\* What the local variables of a call hold.
Operands(t) ==
    LET l == eloc[t] IN
    /\ l.op \in {"join", "create", "disband"} => l.seq \in Seqs
    /\ l.op \in {"boost", "forget", "update", "regroup", "remember", "join"} => l.id \in Ids /\ l.todo = {}
    /\ epc[t] \in {"lock", "read", "write", "delete", "load", "save"} => l.id \in Ids
    /\ epc[t] \in {"write", "save"} => l.read \in Episode /\ l.read # None
    /\ l.op = "disband" /\ l.keep => l.seq \in torn

\* A boost between its read and its write owns the lock of the episode, and
\* has read what is stored unless a write without the lock came in between.
Boosting(t) ==
    LET l == eloc[t] IN
    /\ epc[t] \in {"read", "write"} => keyLocks[l.id] = t
    /\ epc[t] = "write" /\ ~l.stale => l.id \in Stored /\ l.read = episodes[l.id]

\* A sequence that is about to be given to an episode exists or is torn.
UseStands(t) ==
    LET l == eloc[t] IN
    \/ epc[t] = "put"
    \/ l.op \in {"join", "regroup"} /\ epc[t] \in {"load", "save", "setSequence"}
    => l.seq \in sequences \cup torn \cup {None}

\* The episodes that must not name sequence s when it is deleted.
Left(s) == {i \in Stored \ mixed : episodes[i].sequence = s}

\* How far a deletion has come: who still names what it is going to delete.
DropProgress(t) ==
    LET l == eloc[t] IN
    /\ l.op = "disband" /\ l.seq \notin torn =>
          /\ epc[t] = "deleteSequence" => Left(l.seq) = {}
          /\ epc[t] = "next" => Left(l.seq) \subseteq l.todo
          /\ epc[t] \in {"load", "save"} => Left(l.seq) \subseteq l.todo \cup {l.id}
    /\ epc[t] = "clearSequences" =>
          \A i \in Stored \ mixed : episodes[i].sequence \in torn \cup {None}

TaskOK(t) == OpOfLabel(t) /\ Operands(t) /\ Boosting(t) /\ UseStands(t) /\ DropProgress(t)

\* A sequence that one call uses and another one drops is torn.
ClashesTorn ==
    \A t, u \in Tasks : \A s \in Seqs : Uses(eloc[t], s) /\ Drops(eloc[u], s) => s \in torn

IInv ==
    /\ EpisodicTypeOK
    /\ \A t \in Tasks : TaskOK(t)
    /\ ClashesTorn
    /\ BoostsCounted
    /\ SequencesStand

-----------------------------------------------------------------------------
(* What Jump does.                                                          *)

LEMMA FreshIsLocal == Fresh \in Locals
  BY DEF Fresh, Locals, Ops

LEMMA JumpEffect ==
  ASSUME EpisodicTypeOK, NEW t \in Tasks, NEW label \in Labels, NEW l \in Locals,
         Jump(t, label, l)
  PROVE  /\ epc' \in [Tasks -> Labels]
         /\ eloc' \in [Tasks -> Locals]
         /\ epc'[t] = label
         /\ eloc'[t] = IF label \in Ended THEN Fresh ELSE l
         /\ \A u \in Tasks \ {t} : epc'[u] = epc[u] /\ eloc'[u] = eloc[u]
<1>1. eloc \in [Tasks -> Locals] /\ epc \in [Tasks -> Labels]
  BY DEF EpisodicTypeOK, Locals
<1>2. (IF label \in Ended THEN Fresh ELSE l) \in Locals
  BY FreshIsLocal
<1> QED BY <1>1, <1>2, Zenon DEF Jump

-----------------------------------------------------------------------------
(* What a step of task t does to the other tasks.                           *)

\* They keep their place and their variables, but for stale.
OthersStay(t) ==
    \A u \in Tasks \ {t} :
        /\ epc'[u] = epc[u]
        /\ \/ eloc'[u] = eloc[u]
           \/ eloc'[u] = [eloc[u] EXCEPT !.stale = TRUE]

\* They keep their locks, and none of what they have read changes unseen.
LocksStay(t) ==
    \A u \in Tasks \ {t} :
        /\ epc[u] \in {"read", "write"} => keyLocks'[eloc[u].id] = keyLocks[eloc[u].id]
        /\ epc[u] = "write" /\ ~eloc'[u].stale => episodes'[eloc[u].id] = episodes[eloc[u].id]

\* A sequence goes only if t drops it, and is named anew only if t uses it.
SequencesStay(t) ==
    /\ torn \subseteq torn'
    /\ \A s \in sequences \ sequences' : Drops(eloc[t], s)
    /\ \A i \in (Stored \ mixed)' :
          \/ i \in Stored \ mixed /\ episodes'[i].sequence = episodes[i].sequence
          \/ episodes'[i].sequence = None
          \/ episodes'[i].sequence \in Seqs /\ Uses(eloc[t], episodes'[i].sequence)

LEMMA OthersKept ==
  ASSUME EpisodicAssumption, IInv, NEW t \in Tasks,
         OthersStay(t), LocksStay(t), SequencesStay(t)
  PROVE  \A u \in Tasks \ {t} : TaskOK(u)'
<1> SUFFICES ASSUME NEW u \in Tasks \ {t} PROVE TaskOK(u)'
  OBVIOUS
<1>1. eloc[u] \in Locals /\ TaskOK(u)
  BY DEF IInv, EpisodicTypeOK, Locals
<1>2. /\ epc'[u] = epc[u]
      /\ eloc'[u].op = eloc[u].op /\ eloc'[u].id = eloc[u].id /\ eloc'[u].seq = eloc[u].seq
      /\ eloc'[u].todo = eloc[u].todo /\ eloc'[u].keep = eloc[u].keep
      /\ eloc'[u].read = eloc[u].read
      /\ ~eloc'[u].stale => ~eloc[u].stale
  BY <1>1 DEF OthersStay, Locals
<1>3. OpOfLabel(u)'
  BY <1>1, <1>2 DEF TaskOK, OpOfLabel
<1>4. Operands(u)'
  BY <1>1, <1>2 DEF TaskOK, Operands, SequencesStay
<1>5. Boosting(u)'
  <2>1. eloc'[u].id \in Stored => eloc'[u].id \in Ids
    BY DEF Stored
  <2> QED BY <1>1, <1>2, <2>1 DEF TaskOK, Boosting, LocksStay, Stored
<1>6. UseStands(u)'
  <2> SUFFICES ASSUME \/ epc[u] = "put"
                      \/ /\ eloc[u].op \in {"join", "regroup"}
                         /\ epc[u] \in {"load", "save", "setSequence"},
                      eloc[u].seq \in sequences, eloc[u].seq \notin sequences'
               PROVE  eloc[u].seq \in torn
    BY <1>1, <1>2 DEF TaskOK, UseStands, SequencesStay
  <2>1. Uses(eloc[u], eloc[u].seq)
    BY <1>1 DEF TaskOK, OpOfLabel, Uses
  <2>2. Drops(eloc[t], eloc[u].seq)
    BY DEF SequencesStay
  <2>3. eloc[u].seq \in Seqs
    BY DEF IInv, EpisodicTypeOK
  <2> QED BY <2>1, <2>2, <2>3 DEF IInv, ClashesTorn
<1>7. DropProgress(u)'
  <2>1. ASSUME NEW i \in (Stored \ mixed)', Drops(eloc[u], episodes'[i].sequence),
               episodes'[i].sequence \notin torn \cup {None}
        PROVE  i \in Stored \ mixed /\ episodes'[i].sequence = episodes[i].sequence
    BY <2>1 DEF SequencesStay, IInv, ClashesTorn
  <2>2. ASSUME eloc[u].op = "disband", eloc[u].seq \notin torn'
        PROVE  Left(eloc[u].seq)' \subseteq Left(eloc[u].seq) /\ eloc[u].seq \notin torn
    <3>1. eloc[u].seq \in Seqs /\ eloc[u].seq # None /\ eloc[u].seq \notin torn
      BY <1>1, <2>2 DEF TaskOK, Operands, EpisodicAssumption, SequencesStay
    <3>2. ASSUME NEW i \in (Stored \ mixed)', episodes'[i].sequence = eloc[u].seq
          PROVE  i \in Left(eloc[u].seq)
      BY <2>1, <2>2, <3>1, <3>2 DEF Drops, Left
    <3>3. Left(eloc[u].seq)' = {i \in (Stored \ mixed)' : episodes'[i].sequence = eloc'[u].seq}
      BY DEF Left
    <3> QED BY <1>2, <3>1, <3>2, <3>3
  <2>3. ASSUME epc[u] = "clearSequences", NEW i \in (Stored \ mixed)'
        PROVE  episodes'[i].sequence \in torn' \cup {None}
    <3>1. eloc[u].op = "clearAll"
      BY <1>1, <2>3 DEF TaskOK, OpOfLabel
    <3> QED BY <1>1, <2>1, <2>3, <3>1 DEF TaskOK, DropProgress, Drops, SequencesStay
  <2> QED BY <1>1, <1>2, <2>2, <2>3 DEF TaskOK, DropProgress
<1> QED BY <1>3, <1>4, <1>5, <1>6, <1>7 DEF TaskOK

\* A call keeps its operation and its sequence, or ends.
LEMMA ClashesKept ==
  ASSUME IInv, torn' = torn,
         \A u \in Tasks : \/ eloc'[u].op = eloc[u].op /\ eloc'[u].seq = eloc[u].seq
                          \/ eloc'[u] = Fresh
  PROVE  ClashesTorn'
  BY DEF IInv, ClashesTorn, Uses, Drops, Fresh

-----------------------------------------------------------------------------
(* Steps that change local variables and locks only.                        *)

LEMMA QuietStep ==
  ASSUME EpisodicAssumption, IInv, NEW t \in Tasks, NEW label \in Labels, NEW l \in Locals,
         Jump(t, label, l), l.op = eloc[t].op, l.seq = eloc[t].seq,
         UNCHANGED <<autoBoost, episodes, sequences, boosted, mixed, torn>>,
         keyLocks' \in [Ids -> Tasks \cup {None}],
         \A u \in Tasks \ {t} : epc[u] \in {"read", "write"} =>
                                   keyLocks'[eloc[u].id] = keyLocks[eloc[u].id],
         TaskOK(t)'
  PROVE  IInv'
<1>1. /\ epc' \in [Tasks -> Labels]
      /\ eloc' \in [Tasks -> Locals]
      /\ eloc'[t] = IF label \in Ended THEN Fresh ELSE l
      /\ \A u \in Tasks \ {t} : epc'[u] = epc[u] /\ eloc'[u] = eloc[u]
  BY JumpEffect DEF IInv
<1>2. EpisodicTypeOK'
  BY <1>1 DEF IInv, EpisodicTypeOK, Locals
<1>3. \A u \in Tasks \ {t} : TaskOK(u)'
  <2>1. OthersStay(t)
    BY <1>1 DEF OthersStay
  <2>2. LocksStay(t)
    BY DEF LocksStay
  <2>3. SequencesStay(t)
    BY DEF SequencesStay, Stored
  <2> QED BY <2>1, <2>2, <2>3, OthersKept
<1>4. ClashesTorn'
  BY <1>1, ClashesKept
<1>5. BoostsCounted' /\ SequencesStand'
  BY DEF IInv, BoostsCounted, SequencesStand, Stored
<1> QED BY <1>2, <1>3, <1>4, <1>5 DEF IInv

\* A call that ends has nothing left to keep.
LEMMA EndedIsOK ==
  ASSUME NEW t \in Tasks, epc'[t] \in Ended \cup {"idle"}, eloc'[t] = Fresh
  PROVE  TaskOK(t)'
  BY DEF Ended, Fresh, TaskOK, OpOfLabel, Operands, Boosting, UseStands, DropProgress

LEMMA LocalsOf == ASSUME IInv, NEW t \in Tasks PROVE eloc[t] \in Locals /\ TaskOK(t)
  BY DEF IInv, EpisodicTypeOK, Locals

\* A Jump that leaves all records and locks alone.
LEMMA LocalStep ==
  ASSUME EpisodicAssumption, IInv, NEW t \in Tasks, NEW label \in Labels, NEW l \in Locals,
         Jump(t, label, l), l.op = eloc[t].op, l.seq = eloc[t].seq,
         UNCHANGED <<stores, boosted, mixed, torn>>,
         label \in Ended \/ TaskOK(t)'
  PROVE  IInv'
<1>1. TaskOK(t)'
  BY JumpEffect, EndedIsOK DEF IInv
<1> QED BY <1>1, QuietStep DEF stores, IInv, EpisodicTypeOK

LEMMA RecallPreserves ==
  ASSUME EpisodicAssumption, IInv, NEW t \in Tasks, Recall(t) PROVE IInv'
<1> USE LocalsOf DEF Recall, Goto
<1>1. PICK found \in SUBSET Stored :
          IF autoBoost /\ found # {} THEN Jump(t, "next", [eloc[t] EXCEPT !.todo = found])
                                     ELSE Jump(t, "done", eloc[t])
  OBVIOUS
<1>2. CASE Jump(t, "done", eloc[t])
  BY <1>2, LocalStep DEF Ended, Labels
<1>3. CASE Jump(t, "next", [eloc[t] EXCEPT !.todo = found])
  <2>1. [eloc[t] EXCEPT !.todo = found] \in Locals
    BY <1>1 DEF Locals, Stored
  <2>2. epc'[t] = "next" /\ eloc'[t] = [eloc[t] EXCEPT !.todo = found]
    BY <1>3, <2>1, JumpEffect DEF IInv, Labels, Ended
  <2>3. eloc[t].op = "recall"
    BY DEF TaskOK, OpOfLabel
  <2>4. TaskOK(t)'
    BY <2>2, <2>3 DEF TaskOK, OpOfLabel, Operands, Boosting, UseStands, DropProgress, Locals
  <2> QED BY <1>3, <2>1, <2>4, LocalStep DEF Labels, Locals
<1> QED BY <1>1, <1>2, <1>3

LEMMA JudgePreserves ==
  ASSUME EpisodicAssumption, IInv, NEW t \in Tasks, Judge(t) PROVE IInv'
<1> USE LocalsOf DEF Judge, Goto
<1>1. PICK decayed \in SUBSET Stored :
          IF decayed # {} THEN Jump(t, "next", [eloc[t] EXCEPT !.todo = decayed])
                          ELSE Jump(t, "done", eloc[t])
  OBVIOUS
<1>2. CASE Jump(t, "done", eloc[t])
  BY <1>2, LocalStep DEF Ended, Labels
<1>3. CASE Jump(t, "next", [eloc[t] EXCEPT !.todo = decayed])
  <2>1. [eloc[t] EXCEPT !.todo = decayed] \in Locals
    BY <1>1 DEF Locals, Stored
  <2>2. epc'[t] = "next" /\ eloc'[t] = [eloc[t] EXCEPT !.todo = decayed]
    BY <1>3, <2>1, JumpEffect DEF IInv, Labels, Ended
  <2>3. eloc[t].op = "decay"
    BY DEF TaskOK, OpOfLabel
  <2>4. TaskOK(t)'
    BY <2>2, <2>3 DEF TaskOK, OpOfLabel, Operands, Boosting, UseStands, DropProgress, Locals
  <2> QED BY <1>3, <2>1, <2>4, LocalStep DEF Labels, Locals
<1> QED BY <1>1, <1>2, <1>3

LEMMA NextEpisodePreserves ==
  ASSUME EpisodicAssumption, IInv, NEW t \in Tasks, NextEpisode(t) PROVE IInv'
<1> USE LocalsOf
<1>1. PICK i \in eloc[t].todo :
          Jump(t, CASE eloc[t].op = "recall" -> "lock" [] eloc[t].op = "decay" -> "delete"
                    [] eloc[t].op = "disband" -> "load",
               [eloc[t] EXCEPT !.id = i, !.todo = @ \ {i}, !.read = None, !.stale = FALSE])
  BY DEF NextEpisode
<1> DEFINE l == [eloc[t] EXCEPT !.id = i, !.todo = @ \ {i}, !.read = None, !.stale = FALSE]
<1>2. l \in Locals /\ i \in Ids
  BY DEF Locals
<1>3. eloc[t].op \in {"recall", "decay", "disband"} /\ epc[t] = "next"
  BY DEF TaskOK, OpOfLabel, NextEpisode
<1>4. UNCHANGED <<stores, boosted, mixed, torn>>
  BY DEF NextEpisode
<1>5. /\ l.op = eloc[t].op /\ l.seq = eloc[t].seq /\ l.keep = eloc[t].keep
      /\ l.id = i /\ l.todo = eloc[t].todo \ {i}
  BY DEF Locals
<1>6. ASSUME NEW label \in {"lock", "delete", "load"}, Jump(t, label, l),
             label = "lock" => l.op = "recall",
             label = "delete" => l.op = "decay",
             label = "load" => l.op = "disband"
      PROVE  IInv'
  <2> HIDE DEF l
  <2>1. epc'[t] = label /\ eloc'[t] = l /\ label \in Labels
    BY <1>2, <1>6, JumpEffect DEF IInv, Labels, Ended
  <2>2. OpOfLabel(t)' /\ Operands(t)' /\ Boosting(t)' /\ UseStands(t)'
    BY <1>2, <1>3, <1>4, <1>5, <1>6, <2>1
    DEF TaskOK, OpOfLabel, Operands, Boosting, UseStands
  <2>3. DropProgress(t)'
    BY <1>3, <1>4, <1>5, <1>6, <2>1 DEF TaskOK, DropProgress, Left, Stored, stores
  <2> QED BY <1>2, <1>4, <1>5, <1>6, <2>1, <2>2, <2>3, LocalStep DEF TaskOK
<1> QED BY <1>1, <1>3, <1>5, <1>6

LEMMA AfterUpdateIs ==
  ASSUME IInv, NEW t \in Tasks, epc[t] \in {"load", "save"}
  PROVE  AfterUpdate(t) = IF eloc[t].op = "join" THEN "setSequence"
                          ELSE IF eloc[t].op \in {"update", "regroup"} THEN "done"
                          ELSE IF eloc[t].todo = {} THEN "deleteSequence" ELSE "next"
  BY LocalsOf DEF AfterUpdate, TaskOK, OpOfLabel

LEMMA LoadPreserves ==
  ASSUME EpisodicAssumption, IInv, NEW t \in Tasks, Load(t) PROVE IInv'
<1> USE LocalsOf
<1>1. epc[t] = "load" /\ eloc[t].id \in Ids /\ eloc[t].op \in {"update", "regroup", "join", "disband"}
  BY DEF Load, TaskOK, OpOfLabel, Operands
<1>2. UNCHANGED <<stores, boosted, mixed, torn>>
  BY DEF Load
<1>3. CASE eloc[t].id \in Stored
  <2> DEFINE l == [eloc[t] EXCEPT !.read = episodes[eloc[t].id]]
  <2>1. /\ l \in Locals /\ l.read \in Episode /\ l.read # None
        /\ l.op = eloc[t].op /\ l.seq = eloc[t].seq /\ l.keep = eloc[t].keep
        /\ l.id = eloc[t].id /\ l.todo = eloc[t].todo
    BY <1>1, <1>3 DEF Locals, Stored, IInv, EpisodicTypeOK
  <2>2. Jump(t, "save", l)
    BY <1>3 DEF Load
  <2> HIDE DEF l
  <2>3. epc'[t] = "save" /\ eloc'[t] = l
    BY <2>1, <2>2, JumpEffect DEF IInv, Labels, Ended
  <2>4. OpOfLabel(t)' /\ Operands(t)' /\ Boosting(t)' /\ UseStands(t)'
    BY <1>1, <1>2, <2>1, <2>3, Zenon
    DEF TaskOK, OpOfLabel, Operands, Boosting, UseStands, stores
  <2>5. DropProgress(t)'
    BY <1>1, <1>2, <2>1, <2>3 DEF TaskOK, DropProgress, Left, Stored, stores
  <2> QED BY <1>2, <2>1, <2>2, <2>4, <2>5, LocalStep DEF TaskOK, Labels
<1>4. CASE eloc[t].id \notin Stored
  <2>1. Jump(t, AfterUpdate(t), eloc[t])
    BY <1>4 DEF Load, Goto
  <2>2. AfterUpdate(t) = IF eloc[t].op = "join" THEN "setSequence"
                         ELSE IF eloc[t].op \in {"update", "regroup"} THEN "done"
                         ELSE IF eloc[t].todo = {} THEN "deleteSequence" ELSE "next"
    BY <1>1, AfterUpdateIs
  <2>3. epc'[t] = AfterUpdate(t) /\ (AfterUpdate(t) # "done" => eloc'[t] = eloc[t])
    BY <2>1, <2>2, JumpEffect DEF IInv, Labels, Ended
  <2>4. CASE AfterUpdate(t) # "done"
    <3>1. OpOfLabel(t)' /\ Operands(t)' /\ Boosting(t)' /\ UseStands(t)'
      BY <1>1, <1>2, <2>2, <2>3, <2>4
      DEF TaskOK, OpOfLabel, Operands, Boosting, UseStands, stores
    <3>2. DropProgress(t)'
      BY <1>1, <1>2, <1>4, <2>2, <2>3, <2>4 DEF TaskOK, DropProgress, Left, Stored, stores
    <3> QED BY <1>2, <2>1, <2>2, <3>1, <3>2, LocalStep DEF TaskOK, Labels
  <2>5. CASE AfterUpdate(t) = "done"
    BY <1>2, <2>1, <2>5, LocalStep DEF Labels, Ended
  <2> QED BY <2>4, <2>5
<1> QED BY <1>3, <1>4

LEMMA GetPreserves ==
  ASSUME EpisodicAssumption, IInv, NEW t \in Tasks, GetEpisode(t) \/ GetSequence(t) PROVE IInv'
<1> USE LocalsOf DEF Goto
<1>1. PICK label \in {"getSequence", "load", "failed"} :
          /\ Jump(t, label, eloc[t])
          /\ label = "load" => eloc[t].seq \in sequences
  BY DEF GetEpisode, GetSequence
<1>2. /\ epc[t] \in {"getEpisode", "getSequence"}
      /\ UNCHANGED <<stores, boosted, mixed, torn>>
  BY DEF GetEpisode, GetSequence
<1>3. CASE label # "failed"
  <2>1. epc'[t] = label /\ eloc'[t] = eloc[t]
    BY <1>1, <1>3, JumpEffect DEF IInv, Labels, Ended
  <2>2. eloc[t].op = "join"
    BY <1>2 DEF TaskOK, OpOfLabel
  <2>3. TaskOK(t)'
    BY <1>1, <1>2, <1>3, <2>1, <2>2
    DEF TaskOK, OpOfLabel, Operands, Boosting, UseStands, DropProgress, stores
  <2> QED BY <1>1, <1>2, <2>3, LocalStep DEF Labels
<1>4. CASE label = "failed"
  BY <1>1, <1>2, <1>4, LocalStep DEF Labels, Ended
<1> QED BY <1>3, <1>4

LEMMA ListMembersPreserves ==
  ASSUME EpisodicAssumption, IInv, NEW t \in Tasks, ListMembers(t) PROVE IInv'
<1> USE LocalsOf
<1>1. epc[t] = "members" /\ eloc[t].op = "disband"
  BY DEF ListMembers, TaskOK, OpOfLabel
<1>2. UNCHANGED <<stores, boosted, mixed, torn>>
  BY DEF ListMembers
<1>3. Members(eloc[t].seq) \subseteq Ids /\ Left(eloc[t].seq) \subseteq Members(eloc[t].seq)
  BY DEF Members, Left, Stored
<1>4. CASE eloc[t].keep \/ Members(eloc[t].seq) = {}
  <2>1. Jump(t, "deleteSequence", eloc[t])
    BY <1>4 DEF ListMembers, Goto
  <2>2. epc'[t] = "deleteSequence" /\ eloc'[t] = eloc[t]
    BY <2>1, JumpEffect DEF IInv, Labels, Ended
  <2>3. OpOfLabel(t)' /\ Operands(t)' /\ Boosting(t)' /\ UseStands(t)'
    BY <1>1, <1>2, <2>2 DEF TaskOK, OpOfLabel, Operands, Boosting, UseStands
  <2>4. DropProgress(t)'
    BY <1>1, <1>2, <1>3, <1>4, <2>2 DEF TaskOK, Operands, DropProgress, Left, Stored, stores
  <2> QED BY <1>2, <2>1, <2>3, <2>4, LocalStep DEF TaskOK, Labels
<1>5. CASE ~(eloc[t].keep \/ Members(eloc[t].seq) = {})
  <2> DEFINE l == [eloc[t] EXCEPT !.todo = Members(eloc[t].seq)]
  <2>1. /\ l \in Locals /\ l.todo = Members(eloc[t].seq)
        /\ l.op = eloc[t].op /\ l.seq = eloc[t].seq /\ l.keep = eloc[t].keep
    BY <1>3 DEF Locals
  <2>2. Jump(t, "next", l)
    BY <1>5 DEF ListMembers
  <2> HIDE DEF l
  <2>3. epc'[t] = "next" /\ eloc'[t] = l
    BY <2>1, <2>2, JumpEffect DEF IInv, Labels, Ended
  <2>4. OpOfLabel(t)' /\ Operands(t)' /\ Boosting(t)' /\ UseStands(t)'
    BY <1>1, <1>2, <2>1, <2>3 DEF TaskOK, OpOfLabel, Operands, Boosting, UseStands
  <2>5. DropProgress(t)'
    BY <1>1, <1>2, <1>3, <2>1, <2>3 DEF DropProgress, Left, Stored, stores
  <2> QED BY <1>2, <2>1, <2>2, <2>4, <2>5, LocalStep DEF TaskOK, Labels
<1> QED BY <1>4, <1>5

-----------------------------------------------------------------------------
(* The lock of an episode.                                                  *)

\* No other boost has what t has locked.
LEMMA LockExcludes ==
  ASSUME EpisodicAssumption, IInv, NEW t \in Tasks, NEW u \in Tasks \ {t},
         epc[u] \in {"read", "write"},
         \/ epc[t] \in {"read", "write"}
         \/ keyLocks[eloc[t].id] = None
  PROVE  eloc[u].id # eloc[t].id
  BY LocalsOf DEF TaskOK, Boosting, EpisodicAssumption

LEMMA LockTypes ==
  ASSUME IInv, NEW t \in Tasks, eloc[t].id \in Ids, NEW o \in Tasks \cup {None},
         keyLocks' = [keyLocks EXCEPT ![eloc[t].id] = o]
  PROVE  /\ keyLocks' \in [Ids -> Tasks \cup {None}]
         /\ keyLocks'[eloc[t].id] = o
         /\ \A u \in Tasks : eloc[u].id # eloc[t].id =>
                                keyLocks'[eloc[u].id] = keyLocks[eloc[u].id]
  BY DEF IInv, EpisodicTypeOK

\* A Jump that takes or releases the lock of t's episode.
LEMMA LockStep ==
  ASSUME EpisodicAssumption, IInv, NEW t \in Tasks, NEW label \in Labels,
         NEW o \in Tasks \cup {None}, eloc[t].id \in Ids,
         epc[t] \in {"read", "write"} \/ keyLocks[eloc[t].id] = None,
         Jump(t, label, eloc[t]),
         keyLocks' = [keyLocks EXCEPT ![eloc[t].id] = o],
         UNCHANGED <<autoBoost, episodes, sequences, boosted, mixed, torn>>,
         TaskOK(t)'
  PROVE  IInv'
<1>1. keyLocks' \in [Ids -> Tasks \cup {None}]
  BY LockTypes
<1>2. \A u \in Tasks \ {t} : epc[u] \in {"read", "write"} =>
                              keyLocks'[eloc[u].id] = keyLocks[eloc[u].id]
  BY LockTypes, LockExcludes
<1>3. eloc[t] \in Locals
  BY LocalsOf
<1> QED BY <1>1, <1>2, <1>3, QuietStep

LEMMA LockPreserves ==
  ASSUME EpisodicAssumption, IInv, NEW t \in Tasks, Lock(t) PROVE IInv'
<1> USE LocalsOf
<1>1. /\ epc[t] = "lock" /\ eloc[t].id \in Ids /\ keyLocks[eloc[t].id] = None
      /\ keyLocks' = [keyLocks EXCEPT ![eloc[t].id] = t]
      /\ Jump(t, "read", eloc[t])
      /\ UNCHANGED <<autoBoost, episodes, sequences, boosted, mixed, torn>>
  BY DEF Lock, Goto, TaskOK, Operands
<1>2. epc'[t] = "read" /\ eloc'[t] = eloc[t]
  BY <1>1, JumpEffect DEF IInv, Labels, Ended
<1>3. TaskOK(t)'
  BY <1>1, <1>2, LockTypes
  DEF TaskOK, OpOfLabel, Operands, Boosting, UseStands, DropProgress
<1> QED BY <1>1, <1>3, LockStep DEF Labels

LEMMA ThenIs ==
  ASSUME IInv, NEW t \in Tasks
  PROVE  /\ Then(t) \in {"done", "next"}
         /\ Then(t) = "next" => eloc[t].op \notin {"boost", "forget", "update", "regroup", "remember", "join"}
  BY LocalsOf DEF Then, TaskOK, Operands

LEMMA BoostReadPreserves ==
  ASSUME EpisodicAssumption, IInv, NEW t \in Tasks, BoostRead(t) PROVE IInv'
<1> USE LocalsOf
<1>1. /\ epc[t] = "read" /\ eloc[t].id \in Ids /\ eloc[t].op \in {"recall", "boost"}
      /\ UNCHANGED <<autoBoost, episodes, sequences, boosted, mixed, torn>>
  BY DEF BoostRead, TaskOK, OpOfLabel, Operands
<1>2. CASE eloc[t].id \in Stored
  <2> DEFINE l == [eloc[t] EXCEPT !.read = episodes[eloc[t].id], !.stale = FALSE]
  <2>1. /\ l \in Locals /\ l.read = episodes[eloc[t].id] /\ l.read \in Episode /\ l.read # None
        /\ l.op = eloc[t].op /\ l.seq = eloc[t].seq /\ l.keep = eloc[t].keep
        /\ l.id = eloc[t].id /\ l.todo = eloc[t].todo
    BY <1>1, <1>2 DEF Locals, Stored, IInv, EpisodicTypeOK
  <2>2. Jump(t, "write", l) /\ keyLocks' = keyLocks
    BY <1>2 DEF BoostRead
  <2> HIDE DEF l
  <2>3. epc'[t] = "write" /\ eloc'[t] = l
    BY <2>1, <2>2, JumpEffect DEF IInv, Labels, Ended
  <2>4. TaskOK(t)'
    BY <1>1, <1>2, <2>1, <2>2, <2>3
    DEF TaskOK, OpOfLabel, Operands, Boosting, UseStands, DropProgress, Stored
  <2> QED BY <1>1, <2>1, <2>2, <2>4, LocalStep DEF Labels, stores
<1>3. CASE eloc[t].id \notin Stored
  <2>1. Jump(t, Then(t), eloc[t]) /\ keyLocks' = [keyLocks EXCEPT ![eloc[t].id] = None]
    BY <1>3 DEF BoostRead, Goto, Release
  <2>2. epc'[t] = Then(t) /\ eloc'[t] = IF Then(t) = "done" THEN Fresh ELSE eloc[t]
    BY <2>1, ThenIs, JumpEffect DEF IInv, Labels, Ended
  <2>3. TaskOK(t)'
    <3>1. CASE Then(t) = "done"
      BY <2>2, <3>1, EndedIsOK DEF Ended
    <3>2. CASE Then(t) = "next"
      BY <1>1, <2>2, <3>2, ThenIs
      DEF TaskOK, OpOfLabel, Operands, Boosting, UseStands, DropProgress
    <3> QED BY <3>1, <3>2, ThenIs
  <2> QED BY <1>1, <2>1, <2>3, ThenIs, LockStep DEF Labels
<1> QED BY <1>2, <1>3

LEMMA FailPreserves ==
  ASSUME EpisodicAssumption, IInv, NEW t \in Tasks, Fail(t) PROVE IInv'
<1> USE LocalsOf
<1>1. /\ Jump(t, "failed", eloc[t])
      /\ UNCHANGED <<autoBoost, episodes, sequences, boosted, mixed, torn>>
  BY DEF Fail, Goto
<1>2. TaskOK(t)'
  BY <1>1, JumpEffect, EndedIsOK DEF IInv, Labels, Ended
<1>3. CASE epc[t] \in {"read", "write"}
  <2>1. eloc[t].id \in Ids /\ keyLocks' = [keyLocks EXCEPT ![eloc[t].id] = None]
    BY <1>3 DEF Fail, Release, TaskOK, Operands
  <2> QED BY <1>1, <1>2, <1>3, <2>1, LockStep DEF Labels
<1>4. CASE epc[t] \notin {"read", "write"}
  BY <1>1, <1>2, <1>4, LocalStep DEF Fail, Labels, stores
<1> QED BY <1>3, <1>4

-----------------------------------------------------------------------------
(* Steps that end a call and change the sequences only.                     *)

LEMMA SequencesStep ==
  ASSUME EpisodicAssumption, IInv, NEW t \in Tasks, Jump(t, "done", eloc[t]),
         UNCHANGED <<autoBoost, episodes, keyLocks, boosted, mixed, torn>>,
         sequences' \subseteq Seqs,
         \A s \in sequences \ sequences' : Drops(eloc[t], s),
         SequencesStand'
  PROVE  IInv'
<1>1. /\ epc' \in [Tasks -> Labels]
      /\ eloc' \in [Tasks -> Locals]
      /\ epc'[t] = "done" /\ eloc'[t] = Fresh
      /\ \A u \in Tasks \ {t} : epc'[u] = epc[u] /\ eloc'[u] = eloc[u]
  BY JumpEffect, LocalsOf DEF IInv, Labels, Ended
<1>2. EpisodicTypeOK'
  BY <1>1 DEF IInv, EpisodicTypeOK, Locals
<1>3. \A u \in Tasks \ {t} : TaskOK(u)'
  <2>1. OthersStay(t) /\ LocksStay(t) /\ SequencesStay(t)
    BY <1>1 DEF OthersStay, LocksStay, SequencesStay, Stored
  <2> QED BY <2>1, OthersKept
<1>4. TaskOK(t)'
  BY <1>1, EndedIsOK DEF Ended
<1>5. ClashesTorn'
  BY <1>1, ClashesKept
<1>6. BoostsCounted'
  BY DEF IInv, BoostsCounted, Stored
<1> QED BY <1>2, <1>3, <1>4, <1>5, <1>6 DEF IInv

LEMMA PutSequencePreserves ==
  ASSUME EpisodicAssumption, IInv, NEW t \in Tasks, PutSequence(t) PROVE IInv'
<1>1. /\ Jump(t, "done", eloc[t]) /\ sequences' = sequences \cup {eloc[t].seq}
      /\ UNCHANGED <<autoBoost, episodes, keyLocks, boosted, mixed, torn>>
  BY DEF PutSequence, Goto
<1>2. eloc[t].seq \in Seqs
  BY LocalsOf DEF PutSequence, TaskOK, OpOfLabel, Operands
<1>3. SequencesStand'
  BY <1>1 DEF IInv, SequencesStand, Stored
<1>4. sequences' \subseteq Seqs /\ \A s \in sequences \ sequences' : Drops(eloc[t], s)
  BY <1>1, <1>2 DEF IInv, EpisodicTypeOK
<1> QED BY <1>1, <1>3, <1>4, SequencesStep

LEMMA DeleteSequencePreserves ==
  ASSUME EpisodicAssumption, IInv, NEW t \in Tasks, DeleteSequence(t) PROVE IInv'
<1>1. /\ Jump(t, "done", eloc[t]) /\ sequences' = sequences \ {eloc[t].seq}
      /\ UNCHANGED <<autoBoost, episodes, keyLocks, boosted, mixed, torn>>
      /\ epc[t] = "deleteSequence"
  BY DEF DeleteSequence, Goto
<1>2. eloc[t].op = "disband"
  BY <1>1, LocalsOf DEF TaskOK, OpOfLabel
<1>3. SequencesStand'
  BY <1>1, <1>2, LocalsOf DEF IInv, TaskOK, DropProgress, Left, SequencesStand, Stored
<1>4. sequences' \subseteq Seqs /\ \A s \in sequences \ sequences' : Drops(eloc[t], s)
  BY <1>1, <1>2 DEF IInv, EpisodicTypeOK, Drops
<1> QED BY <1>1, <1>3, <1>4, SequencesStep

-----------------------------------------------------------------------------
(* Writes without the lock.                                                 *)

LEMMA WriteStep ==
  ASSUME EpisodicAssumption, IInv, NEW t \in Tasks, NEW label \in Labels,
         NEW ids \in SUBSET Ids, NEW new \in Episode \cup {None},
         Write(t, ids, new, label),
         UNCHANGED <<autoBoost, sequences, keyLocks, torn>>,
         boosted' \in [Ids -> 0..MaxRecalls], mixed' \subseteq Ids,
         SequencesStay(t),
         eloc[t].op \in {"remember", "regroup", "join"} => eloc[t].seq \in sequences \cup torn \cup {None},
         TaskOK(t)', BoostsCounted'
  PROVE  IInv'
<1>1. /\ epc' \in [Tasks -> Labels]
      /\ eloc' \in [Tasks -> Locals]
      /\ episodes' \in [Ids -> Episode \cup {None}]
      /\ eloc'[t] = IF label \in Ended THEN Fresh ELSE eloc[t]
      /\ \A i \in Ids : episodes'[i] = IF i \in ids THEN new ELSE episodes[i]
      /\ \A u \in Tasks \ {t} :
            /\ epc'[u] = epc[u]
            /\ eloc'[u] = IF eloc[u].id \in ids THEN [eloc[u] EXCEPT !.stale = TRUE]
                          ELSE eloc[u]
  <2>1. eloc \in [Tasks -> Locals] /\ epc \in [Tasks -> Labels]
    BY DEF IInv, EpisodicTypeOK, Locals
  <2>2. \A u \in Tasks : [eloc[u] EXCEPT !.stale = TRUE] \in Locals
    BY <2>1 DEF Locals
  <2>3. episodes \in [Ids -> Episode \cup {None}]
    BY DEF IInv, EpisodicTypeOK
  <2>4. eloc' \in [Tasks -> Locals]
    BY <2>1, <2>2, FreshIsLocal, Zenon DEF Write
  <2>5. episodes' \in [Ids -> Episode \cup {None}]
    BY <2>3, Zenon DEF Write
  <2> QED BY <2>1, <2>4, <2>5, Zenon DEF Write
<1>2. EpisodicTypeOK'
  BY <1>1 DEF IInv, EpisodicTypeOK, Locals
<1>3. OthersStay(t)
  BY <1>1 DEF OthersStay
<1>4. ASSUME NEW u \in Tasks \ {t}, epc[u] = "write", ~eloc'[u].stale
      PROVE  episodes'[eloc[u].id] = episodes[eloc[u].id]
  <2>1. eloc[u] \in Locals /\ eloc[u].id \in Ids
    BY <1>4, LocalsOf DEF TaskOK, Operands
  <2>2. eloc[u].id \notin ids
    BY <1>1, <1>4, <2>1 DEF Locals
  <2> QED BY <1>1, <2>1, <2>2
<1>5. \A u \in Tasks \ {t} : TaskOK(u)'
  BY <1>3, <1>4, OthersKept DEF LocksStay
<1>6. ClashesTorn'
  <2>1. \A u \in Tasks : \/ eloc'[u].op = eloc[u].op /\ eloc'[u].seq = eloc[u].seq
                         \/ eloc'[u] = Fresh
    BY <1>1, LocalsOf DEF Locals
  <2> QED BY <2>1, ClashesKept
<1>7. SequencesStand'
  BY DEF SequencesStay, SequencesStand, IInv, Uses
<1> QED BY <1>2, <1>5, <1>6, <1>7 DEF IInv

LEMMA RememberPreserves ==
  ASSUME EpisodicAssumption, IInv, NEW t \in Tasks, Remember(t) PROVE IInv'
<1> USE LocalsOf
<1>1. /\ epc[t] = "put" /\ eloc[t].op = "remember" /\ eloc[t].id \in Ids
      /\ eloc[t].seq \in sequences \cup torn \cup {None}
      /\ eloc[t].seq \in Seqs \cup {None}
  BY DEF Remember, TaskOK, OpOfLabel, Operands, UseStands, Locals
<1> DEFINE new == [recalled |-> 0, sequence |-> eloc[t].seq]
<1>2. new \in Episode
  BY <1>1 DEF Episode, EpisodicAssumption
<1>3. /\ Write(t, {eloc[t].id}, new, "done")
      /\ boosted' = [boosted EXCEPT ![eloc[t].id] = 0]
      /\ mixed' = mixed \ {eloc[t].id}
      /\ UNCHANGED <<autoBoost, sequences, keyLocks, torn>>
  BY DEF Remember
<1>4. /\ epc'[t] = "done" /\ eloc'[t] = Fresh
      /\ \A i \in Ids : episodes'[i] = IF i = eloc[t].id THEN new ELSE episodes[i]
  <2>1. EpisodicTypeOK /\ {eloc[t].id} \in SUBSET Ids /\ "done" \in Labels /\ "done" \in Ended
    BY <1>1 DEF IInv, Labels, Ended
  <2> HIDE DEF new
  <2>2. new \in Episode \cup {None}
    BY <1>2
  <2>3. eloc \in [Tasks -> Locals] /\ epc \in [Tasks -> Labels]
    BY DEF IInv, EpisodicTypeOK, Locals
  <2>4. /\ epc'[t] = "done"
        /\ eloc'[t] = IF "done" \in Ended THEN Fresh ELSE eloc[t]
        /\ \A i \in Ids : episodes'[i] = IF i \in {eloc[t].id} THEN new ELSE episodes[i]
    BY <1>3, <2>3, Zenon DEF Write
  <2> QED BY <2>1, <2>4
<1>5. boosted' \in [Ids -> 0..MaxRecalls] /\ mixed' \subseteq Ids
  BY <1>1, <1>3 DEF IInv, EpisodicTypeOK, EpisodicAssumption
<1>6. SequencesStay(t)
  BY <1>1, <1>3, <1>4 DEF SequencesStay, Stored, Uses
<1>7. BoostsCounted'
  BY <1>1, <1>3, <1>4 DEF IInv, EpisodicTypeOK, BoostsCounted, Stored
<1>8. TaskOK(t)'
  BY <1>4, EndedIsOK DEF Ended
<1> QED BY <1>1, <1>2, <1>3, <1>5, <1>6, <1>7, <1>8, WriteStep DEF Labels

LEMMA ForgetPreserves ==
  ASSUME EpisodicAssumption, IInv, NEW t \in Tasks, Forget(t) PROVE IInv'
<1> USE LocalsOf
<1>1. epc[t] = "delete" /\ eloc[t].op \in {"forget", "decay"} /\ eloc[t].id \in Ids
  BY DEF Forget, TaskOK, OpOfLabel, Operands
<1>2. /\ Write(t, {eloc[t].id}, None, Then(t))
      /\ UNCHANGED <<autoBoost, sequences, keyLocks, boosted, mixed, torn>>
  BY DEF Forget
<1>3. /\ epc'[t] = Then(t) /\ eloc'[t] = IF Then(t) = "done" THEN Fresh ELSE eloc[t]
      /\ \A i \in Ids : episodes'[i] = IF i = eloc[t].id THEN None ELSE episodes[i]
  <2>1. /\ EpisodicTypeOK /\ {eloc[t].id} \in SUBSET Ids
        /\ Then(t) \in Labels /\ (Then(t) \in Ended <=> Then(t) = "done")
    BY <1>1, ThenIs DEF IInv, Labels, Ended
  <2>2. eloc \in [Tasks -> Locals] /\ epc \in [Tasks -> Labels]
    BY DEF IInv, EpisodicTypeOK, Locals
  <2>3. /\ epc'[t] = Then(t)
        /\ eloc'[t] = IF Then(t) \in Ended THEN Fresh ELSE eloc[t]
        /\ \A i \in Ids : episodes'[i] = IF i \in {eloc[t].id} THEN None ELSE episodes[i]
    BY <1>2, <2>2, Zenon DEF Write
  <2> QED BY <2>1, <2>3
<1>4. SequencesStay(t)
  BY <1>2, <1>3 DEF SequencesStay, Stored
<1>5. BoostsCounted'
  BY <1>2, <1>3 DEF IInv, BoostsCounted, Stored
<1>6. TaskOK(t)'
  <2>1. CASE Then(t) = "done"
    BY <1>3, <2>1, EndedIsOK DEF Ended
  <2>2. CASE Then(t) = "next"
    BY <1>1, <1>2, <1>3, <2>2, ThenIs
    DEF TaskOK, OpOfLabel, Operands, Boosting, UseStands, DropProgress
  <2> QED BY <2>1, <2>2, ThenIs
<1>7. boosted' \in [Ids -> 0..MaxRecalls] /\ mixed' \subseteq Ids
  BY <1>2 DEF IInv, EpisodicTypeOK
<1> QED BY <1>1, <1>2, <1>4, <1>5, <1>6, <1>7, ThenIs, WriteStep DEF Labels

LEMMA SavePreserves ==
  ASSUME EpisodicAssumption, IInv, NEW t \in Tasks, Save(t) PROVE IInv'
<1> USE LocalsOf
<1>1. /\ epc[t] = "save" /\ eloc[t].id \in Ids /\ eloc[t].op \in {"update", "regroup", "join", "disband"}
      /\ eloc[t].read \in Episode /\ eloc[t].read # None
      /\ eloc[t].op \in {"join", "regroup"} => eloc[t].seq \in sequences \cup torn \cup {None}
      /\ eloc[t].seq \in Seqs \cup {None}
  BY DEF Save, TaskOK, OpOfLabel, Operands, UseStands, Locals
<1> DEFINE to == NewSequence(eloc[t])
           new == [eloc[t].read EXCEPT !.sequence = to]
<1>2. to = IF eloc[t].op \in {"join", "regroup"} THEN eloc[t].seq
           ELSE IF eloc[t].op = "disband" THEN None ELSE eloc[t].read.sequence
  BY <1>1 DEF NewSequence
<1> HIDE DEF to
<1>3. /\ new \in Episode
      /\ new.recalled = eloc[t].read.recalled /\ new.sequence = to
  BY <1>1, <1>2 DEF Episode
<1>4. /\ Write(t, {eloc[t].id}, new, AfterUpdate(t))
      /\ mixed' = IF episodes[eloc[t].id] # eloc[t].read THEN mixed \cup {eloc[t].id} ELSE mixed
      /\ UNCHANGED <<autoBoost, sequences, keyLocks, boosted, torn>>
  BY DEF Save, to
<1> HIDE DEF new
<1>5. /\ AfterUpdate(t) \in Labels
      /\ AfterUpdate(t) \in Ended <=> AfterUpdate(t) = "done"
  BY <1>1, AfterUpdateIs DEF Labels, Ended
<1>6. /\ epc'[t] = AfterUpdate(t) /\ eloc'[t] = IF AfterUpdate(t) = "done" THEN Fresh ELSE eloc[t]
      /\ \A i \in Ids : episodes'[i] = IF i = eloc[t].id THEN new ELSE episodes[i]
  <2>1. eloc \in [Tasks -> Locals] /\ epc \in [Tasks -> Labels]
    BY DEF IInv, EpisodicTypeOK, Locals
  <2>2. /\ epc'[t] = AfterUpdate(t)
        /\ eloc'[t] = IF AfterUpdate(t) \in Ended THEN Fresh ELSE eloc[t]
        /\ \A i \in Ids : episodes'[i] = IF i \in {eloc[t].id} THEN new ELSE episodes[i]
    BY <1>4, <2>1, Zenon DEF Write
  <2> QED BY <1>5, <2>2
<1>7. ASSUME eloc[t].id \notin mixed'
      PROVE  eloc[t].id \in Stored \ mixed /\ eloc[t].read = episodes[eloc[t].id]
  BY <1>1, <1>4, <1>7 DEF Stored
<1>8. SequencesStay(t)
  <2> SUFFICES ASSUME NEW i \in (Stored \ mixed)'
               PROVE  \/ i \in Stored \ mixed /\ episodes'[i].sequence = episodes[i].sequence
                      \/ episodes'[i].sequence = None
                      \/ /\ episodes'[i].sequence \in Seqs
                         /\ Uses(eloc[t], episodes'[i].sequence)
    BY <1>4 DEF SequencesStay
  <2> QED BY <1>1, <1>2, <1>3, <1>4, <1>6, <1>7 DEF Stored, Uses
<1>9. BoostsCounted'
  BY <1>1, <1>3, <1>4, <1>6, <1>7 DEF IInv, BoostsCounted, Stored
<1>10. TaskOK(t)'
  <2>1. CASE AfterUpdate(t) = "done"
    BY <1>6, <2>1, EndedIsOK DEF Ended
  <2>2. CASE AfterUpdate(t) # "done"
    <3>1. OpOfLabel(t)' /\ Operands(t)' /\ Boosting(t)' /\ UseStands(t)'
      BY <1>1, <1>4, <1>6, <2>2, AfterUpdateIs
      DEF TaskOK, OpOfLabel, Operands, Boosting, UseStands
    <3>2. ASSUME eloc[t].op = "disband", eloc[t].seq \notin torn
          PROVE  Left(eloc[t].seq)' \subseteq eloc[t].todo
      <4>1. eloc[t].seq # None
        BY <1>1, <3>2 DEF TaskOK, Operands, EpisodicAssumption
      <4>2. ASSUME NEW i \in (Stored \ mixed)', episodes'[i].sequence = eloc[t].seq
            PROVE  i \in eloc[t].todo
        BY <1>1, <1>2, <1>3, <1>4, <1>6, <3>2, <4>1, <4>2
        DEF TaskOK, DropProgress, Left, Stored
      <4>3. Left(eloc[t].seq)' = {i \in (Stored \ mixed)' : episodes'[i].sequence = eloc[t].seq}
        BY <1>6, <2>2 DEF Left
      <4> QED BY <4>2, <4>3
    <3>3. DropProgress(t)'
      BY <1>1, <1>4, <1>6, <2>2, <3>2, AfterUpdateIs DEF DropProgress
    <3> QED BY <3>1, <3>3 DEF TaskOK
  <2> QED BY <2>1, <2>2
<1>11. boosted' \in [Ids -> 0..MaxRecalls] /\ mixed' \subseteq Ids
  BY <1>1, <1>4 DEF IInv, EpisodicTypeOK
<1> QED BY <1>1, <1>3, <1>4, <1>5, <1>8, <1>9, <1>10, <1>11, WriteStep

LEMMA ClearAllPreserves ==
  ASSUME EpisodicAssumption, IInv, NEW t \in Tasks, ClearAll(t) PROVE IInv'
<1> USE LocalsOf
<1>1. UNCHANGED <<autoBoost, keyLocks, boosted, mixed, torn>>
  BY DEF ClearAll
<1>2. epc[t] \in {"clearEpisodes", "clearSequences"} /\ eloc[t].op = "clearAll"
  BY DEF ClearAll, TaskOK, OpOfLabel
<1>3. CASE epc[t] = "clearEpisodes"
  <2>1. Write(t, Ids, None, "clearSequences") /\ sequences' = sequences
    BY <1>3 DEF ClearAll
  <2>2. /\ epc'[t] = "clearSequences" /\ eloc'[t] = eloc[t]
        /\ \A i \in Ids : episodes'[i] = None
    <3>1. eloc \in [Tasks -> Locals] /\ epc \in [Tasks -> Labels] /\ "clearSequences" \notin Ended
      BY DEF IInv, EpisodicTypeOK, Locals, Ended
    <3> QED BY <2>1, <3>1, Zenon DEF Write
  <2>3. Stored' = {}
    BY <2>2 DEF Stored
  <2>4. TaskOK(t)'
    BY <1>1, <1>2, <2>2, <2>3
    DEF TaskOK, OpOfLabel, Operands, Boosting, UseStands, DropProgress
  <2>5. SequencesStay(t) /\ BoostsCounted'
    BY <1>1, <2>1, <2>3 DEF SequencesStay, BoostsCounted
  <2>6. boosted' \in [Ids -> 0..MaxRecalls] /\ mixed' \subseteq Ids
    BY <1>1 DEF IInv, EpisodicTypeOK
  <2>7. Ids \in SUBSET Ids /\ "clearSequences" \in Labels
    BY DEF Labels
  <2> QED BY <1>1, <1>2, <2>1, <2>4, <2>5, <2>6, <2>7, WriteStep
<1>4. CASE epc[t] = "clearSequences"
  <2>1. Jump(t, "done", eloc[t]) /\ sequences' = {} /\ episodes' = episodes
    BY <1>4 DEF ClearAll, Goto
  <2>2. SequencesStand'
    BY <1>1, <1>4, <2>1 DEF TaskOK, DropProgress, SequencesStand, Stored
  <2>3. \A s \in sequences : Drops(eloc[t], s)
    BY <1>2 DEF Drops
  <2> QED BY <1>1, <2>1, <2>2, <2>3, SequencesStep DEF Labels
<1> QED BY <1>2, <1>3, <1>4

-----------------------------------------------------------------------------
(* The write of a boost, under its lock.                                    *)

LEMMA BoostWritePreserves ==
  ASSUME EpisodicAssumption, IInv, NEW t \in Tasks, BoostWrite(t) PROVE IInv'
<1> USE LocalsOf
<1> DEFINE id == eloc[t].id
           new == [eloc[t].read EXCEPT !.recalled = @ + 1]
<1>1. /\ epc[t] = "write" /\ id \in Ids /\ eloc[t].op \in {"recall", "boost"}
      /\ eloc[t].read \in Episode /\ eloc[t].read.recalled < MaxRecalls
      /\ boosted[id] < MaxRecalls
      /\ ~eloc[t].stale => id \in Stored /\ eloc[t].read = episodes[id]
  BY DEF BoostWrite, TaskOK, OpOfLabel, Operands, Boosting
<1>2. /\ episodes' = [episodes EXCEPT ![id] = new]
      /\ boosted' = [boosted EXCEPT ![id] = @ + 1]
      /\ mixed' = IF eloc[t].stale THEN mixed \cup {id} ELSE mixed
      /\ keyLocks' = [keyLocks EXCEPT ![id] = None]
      /\ Jump(t, Then(t), eloc[t])
      /\ UNCHANGED <<autoBoost, sequences, torn>>
  BY DEF BoostWrite, Goto, Release
<1>3. /\ new \in Episode /\ new.sequence = eloc[t].read.sequence
      /\ new.recalled = eloc[t].read.recalled + 1
  BY <1>1 DEF Episode, EpisodicAssumption
<1> HIDE DEF new
<1>4. /\ epc' \in [Tasks -> Labels]
      /\ eloc' \in [Tasks -> Locals]
      /\ epc'[t] = Then(t) /\ eloc'[t] = IF Then(t) = "done" THEN Fresh ELSE eloc[t]
      /\ \A u \in Tasks \ {t} : epc'[u] = epc[u] /\ eloc'[u] = eloc[u]
  BY <1>2, ThenIs, JumpEffect DEF IInv, Labels, Ended
<1>5. /\ episodes' \in [Ids -> Episode \cup {None}]
      /\ \A i \in Ids : episodes'[i] = IF i = id THEN new ELSE episodes[i]
  BY <1>1, <1>2, <1>3 DEF IInv, EpisodicTypeOK
<1>6. /\ boosted' \in [Ids -> 0..MaxRecalls]
      /\ \A i \in Ids : boosted'[i] = IF i = id THEN boosted[i] + 1 ELSE boosted[i]
  BY <1>1, <1>2 DEF IInv, EpisodicTypeOK, EpisodicAssumption
<1>7. EpisodicTypeOK'
  <2>1. keyLocks' \in [Ids -> Tasks \cup {None}] /\ mixed' \subseteq Ids
    BY <1>1, <1>2 DEF IInv, EpisodicTypeOK
  <2> QED BY <1>2, <1>4, <1>5, <1>6, <2>1 DEF IInv, EpisodicTypeOK, Locals
<1>8. \A u \in Tasks \ {t} : epc[u] \in {"read", "write"} => eloc[u].id # id /\ eloc[u].id \in Ids
  BY <1>1, LockExcludes DEF TaskOK, Operands
<1>9. SequencesStay(t)
  BY <1>1, <1>2, <1>3, <1>5 DEF SequencesStay, Stored
<1>10. \A u \in Tasks \ {t} : TaskOK(u)'
  <2>1. OthersStay(t)
    BY <1>4 DEF OthersStay
  <2>2. LocksStay(t)
    <3>1. \A i \in Ids \ {id} : keyLocks'[i] = keyLocks[i]
      BY <1>2 DEF IInv, EpisodicTypeOK
    <3> QED BY <1>5, <1>8, <3>1 DEF LocksStay
  <2> QED BY <1>9, <2>1, <2>2, OthersKept
<1>11. TaskOK(t)'
  <2>1. CASE Then(t) = "done"
    BY <1>4, <2>1, EndedIsOK DEF Ended
  <2>2. CASE Then(t) = "next"
    BY <1>1, <1>2, <1>4, <2>2, ThenIs
    DEF TaskOK, OpOfLabel, Operands, Boosting, UseStands, DropProgress
  <2> QED BY <2>1, <2>2, ThenIs
<1>12. ClashesTorn'
  <2>1. \A u \in Tasks : \/ eloc'[u].op = eloc[u].op /\ eloc'[u].seq = eloc[u].seq
                         \/ eloc'[u] = Fresh
    BY <1>4
  <2> QED BY <1>2, <2>1, ClashesKept
<1>13. BoostsCounted'
  <2> SUFFICES ASSUME NEW i \in (Stored \ mixed)' PROVE episodes'[i].recalled = boosted'[i]
    BY DEF BoostsCounted
  <2>1. i \in Ids
    BY DEF Stored
  <2>2. CASE i = id
    BY <1>1, <1>2, <1>3, <1>5, <1>6, <2>2 DEF IInv, BoostsCounted
  <2>3. CASE i # id
    BY <1>2, <1>5, <1>6, <2>1, <2>3 DEF IInv, BoostsCounted, Stored
  <2> QED BY <2>2, <2>3
<1>14. SequencesStand'
  BY <1>1, <1>2, <1>9 DEF SequencesStay, SequencesStand, IInv, Uses
<1> QED BY <1>7, <1>10, <1>11, <1>12, <1>13, <1>14 DEF IInv

-----------------------------------------------------------------------------
(* A call begins, and may tear the sequences it drops or uses.              *)

LEMMA CallsAre ==
  ASSUME EpisodicAssumption, IInv, NEW t \in Tasks, NEW call \in CallsOf(t)
  PROVE  /\ call \in Locals /\ call.op \in Ops
         /\ call.op \in {"join", "create", "disband"} => call.seq \in Seqs
         /\ call.op \in {"boost", "forget", "update", "regroup", "remember", "join"} =>
               call.id \in Ids /\ call.todo = {}
         /\ call.op \in {"remember", "regroup"} => call.seq \in Seqs \cup {None}
<1>1. \/ \E o \in {"boost", "forget", "update"}, i \in Ids : call = Call(o, i, None)
      \/ \E o \in {"remember", "regroup"}, i \in Ids, s \in Seqs \cup {None} : call = Call(o, i, s)
      \/ \E i \in Ids, s \in Seqs : call = Call("join", i, s)
      \/ \E s \in Seqs : call = Call("create", None, s)
      \/ \E s \in Seqs, k \in BOOLEAN : call = Disband(s, k)
      \/ \E o \in {"recall", "decay", "clearAll"} : call = Call(o, None, None)
  BY DEF CallsOf
<1>3. ASSUME NEW o \in {"boost", "forget", "update"}, NEW i \in Ids, call = Call(o, i, None)
      PROVE  /\ call \in Locals /\ call.op = o /\ call.id = i /\ call.todo = {}
  BY <1>3 DEF Call, Fresh, Locals, Ops
<1>4. ASSUME NEW i \in Ids, NEW s \in Seqs \cup {None}, NEW o \in {"remember", "regroup", "join"},
             call = Call(o, i, s)
      PROVE  /\ call \in Locals /\ call.op = o /\ call.id = i /\ call.seq = s
             /\ call.todo = {}
  BY <1>4 DEF Call, Fresh, Locals, Ops
<1>5. ASSUME NEW s \in Seqs, call = Call("create", None, s)
      PROVE  call \in Locals /\ call.op = "create" /\ call.seq = s
  BY <1>5 DEF Call, Fresh, Locals, Ops
<1>6. ASSUME NEW s \in Seqs, NEW k \in BOOLEAN, call = Disband(s, k)
      PROVE  call \in Locals /\ call.op = "disband" /\ call.seq = s
  BY <1>6 DEF Disband, Call, Fresh, Locals, Ops
<1>7. ASSUME NEW o \in {"recall", "decay", "clearAll"}, call = Call(o, None, None)
      PROVE  call \in Locals /\ call.op = o
  BY <1>7 DEF Call, Fresh, Locals, Ops
<1> QED BY <1>1, <1>3, <1>4, <1>5, <1>6, <1>7 DEF Ops

LEMMA FirstIs ==
  ASSUME NEW op \in Ops
  PROVE  First(op) \in Labels \ Ended
  BY DEF First, Ops, Labels, Ended

LEMMA StartPreserves ==
  ASSUME EpisodicAssumption, IInv, NEW t \in Tasks, NEW call \in CallsOf(t), Start(t, call)
  PROVE  IInv'
<1> USE LocalsOf
<1>1. /\ UNCHANGED <<autoBoost, episodes, sequences, keyLocks, boosted, mixed>>
      /\ Jump(t, First(call.op), call)
      /\ torn \subseteq torn'
  BY DEF Start, stores
<1>2. First(call.op) \in Labels \ Ended /\ call \in Locals
  BY CallsAre, FirstIs
<1>3. /\ epc' \in [Tasks -> Labels]
      /\ eloc' \in [Tasks -> Locals]
      /\ epc'[t] = First(call.op) /\ eloc'[t] = call
      /\ \A u \in Tasks \ {t} : epc'[u] = epc[u] /\ eloc'[u] = eloc[u]
  BY <1>1, <1>2, JumpEffect DEF IInv
<1>4. EpisodicTypeOK'
  <2>1. torn' \subseteq Seqs
    BY DEF Start, IInv, EpisodicTypeOK
  <2> QED BY <1>1, <1>3, <2>1 DEF IInv, EpisodicTypeOK, Locals
<1>5. \A u \in Tasks \ {t} : TaskOK(u)'
  <2>1. OthersStay(t) /\ LocksStay(t) /\ SequencesStay(t)
    BY <1>1, <1>3 DEF OthersStay, LocksStay, SequencesStay, Stored
  <2> QED BY <2>1, OthersKept
<1>6. TaskOK(t)'
  <2>1. OpOfLabel(t)'
    BY <1>3, CallsAre DEF OpOfLabel, First, Ops
  <2>2. call.op = "disband" /\ call.keep => call.seq \in torn'
    BY CallsAre DEF Start
  <2>3. Operands(t)'
    BY <1>3, <2>2, CallsAre DEF Operands, First, Ops
  <2>4. Boosting(t)' /\ DropProgress(t)'
    BY <1>3, CallsAre DEF Boosting, DropProgress, First, Ops
  <2>5. call.op \in {"remember", "regroup"} => call.seq \in sequences \cup torn' \cup {None}
    BY CallsAre DEF Start, Uses
  <2>6. UseStands(t)'
    BY <1>1, <1>3, <2>5, CallsAre DEF UseStands, First, Ops
  <2> QED BY <2>1, <2>3, <2>4, <2>6 DEF TaskOK
<1>7. ClashesTorn'
  <2> SUFFICES ASSUME NEW u \in Tasks, NEW w \in Tasks, NEW s \in Seqs,
                      Uses(eloc'[u], s), Drops(eloc'[w], s)
               PROVE  s \in torn'
    BY DEF ClashesTorn, Uses, Drops
  <2>1. CASE u # t /\ w # t
    BY <1>1, <1>3, <2>1 DEF IInv, ClashesTorn
  <2>2. CASE u = t /\ w # t
    BY <1>3, <2>2 DEF Start
  <2>3. CASE u # t /\ w = t
    BY <1>3, <2>3 DEF Start
  <2>4. CASE u = t /\ w = t
    BY <2>4 DEF Uses, Drops
  <2> QED BY <2>1, <2>2, <2>3, <2>4
<1>8. BoostsCounted' /\ SequencesStand'
  BY <1>1 DEF IInv, BoostsCounted, SequencesStand, Stored
<1> QED BY <1>4, <1>5, <1>6, <1>7, <1>8 DEF IInv

-----------------------------------------------------------------------------
(* The invariant holds initially and is preserved.                          *)

LEMMA InitEstablishes == EpisodicAssumption /\ Init => IInv
<1> SUFFICES ASSUME EpisodicAssumption, Init PROVE IInv
  OBVIOUS
<1>1. EpisodicTypeOK
  BY FreshIsLocal DEF EpisodicAssumption, Init, EpisodicTypeOK, Locals, Labels, Episode
<1>2. ASSUME NEW t \in Tasks PROVE TaskOK(t)
  BY <1>2 DEF Init, Fresh, TaskOK, OpOfLabel, Operands, Boosting, UseStands, DropProgress
<1>3. ClashesTorn
  BY DEF Init, ClashesTorn, Uses, Drops, Fresh
<1>4. BoostsCounted /\ SequencesStand
  BY DEF Init, BoostsCounted, SequencesStand, Stored
<1> QED BY <1>1, <1>2, <1>3, <1>4 DEF IInv

LEMMA NextPreserves == EpisodicAssumption /\ IInv /\ [Next]_vars => IInv'
<1> SUFFICES ASSUME EpisodicAssumption, IInv, [Next]_vars PROVE IInv'
  OBVIOUS
<1>1. ASSUME NEW t \in Tasks, NEW call \in CallsOf(t), Start(t, call) PROVE IInv'
  BY <1>1, StartPreserves
<1>2. ASSUME NEW t \in Tasks, Step(t) PROVE IInv'
  BY <1>2, RememberPreserves, ForgetPreserves, RecallPreserves, JudgePreserves,
     NextEpisodePreserves, LockPreserves, BoostReadPreserves, BoostWritePreserves,
     LoadPreserves, SavePreserves, GetPreserves, PutSequencePreserves, ListMembersPreserves,
     DeleteSequencePreserves, ClearAllPreserves DEF Step
<1>3. ASSUME NEW t \in Tasks, Fail(t) PROVE IInv'
  BY <1>3, FailPreserves
<1>4. CASE UNCHANGED vars
  BY <1>4 DEF vars, stores, IInv, EpisodicTypeOK, TaskOK, OpOfLabel, Operands, Boosting,
       UseStands, DropProgress, Left, ClashesTorn, BoostsCounted, SequencesStand, Stored
<1> QED BY <1>1, <1>2, <1>3, <1>4 DEF Next

LEMMA Inductive == EpisodicAssumption => (Spec => []IInv)
<1> SUFFICES ASSUME EpisodicAssumption PROVE Spec => []IInv
  OBVIOUS
<1>1. Init => IInv
  BY InitEstablishes
<1>2. IInv /\ [Next]_vars => IInv'
  BY NextPreserves
<1> QED BY <1>1, <1>2, PTL DEF Spec

\* The episodes, the sequences, the locks and the local variables keep their
\* types: no boost counts past its bound.
THEOREM TypeCorrect == EpisodicAssumption => (Spec => []EpisodicTypeOK)
<1>1. IInv => EpisodicTypeOK
  BY DEF IInv
<1> QED BY <1>1, Inductive, PTL

\* boost (store.ts:212) under withKeyLock: no boost is lost, whatever boosts,
\* recalls and other calls run at once.
THEOREM BoostsAreCounted == EpisodicAssumption => (Spec => []BoostsCounted)
<1>1. IInv => BoostsCounted
  BY DEF IInv
<1> QED BY <1>1, Inductive, PTL

\* deleteSequence, addToSequence and clearAll: an episode names a sequence
\* that exists, but for the exceptions that SequencesStand states.
THEOREM SequencesAreNamed == EpisodicAssumption => (Spec => []SequencesStand)
<1>1. IInv => SequencesStand
  BY DEF IInv
<1> QED BY <1>1, Inductive, PTL

-----------------------------------------------------------------------------
(* The mirror.                                                              *)
CONSTANTS Process(_), MaxVersion, MaxTroubles

VARIABLES inFlight, mpc, mloc, troubles

M == INSTANCE Mirror

MirrorLocals == [items : [Slugs -> M!Versions], todo : SUBSET M!Names, active : SUBSET M!Names,
           clean : BOOLEAN]

-----------------------------------------------------------------------------
(* The inductive invariant.                                                 *)

\* The run in flight in a process is the one that runs in it.
Held ==
    /\ \A r \in M!Running : inFlight[Process(r)] = r
    /\ \A p \in M!Processes : inFlight[p] # None =>
          inFlight[p] \in M!Running /\ Process(inFlight[p]) = p

CleanAlone == \A r \in M!Running : mloc[r].clean => M!Elsewhere(r) = {}

\* The files fs are those of the items, others pruned if that is asked for.
Shows(items, fs) ==
    \A n \in M!Names : M!FilesOf(items)[n] # None \/ config.prune => fs[n] = M!FilesOf(items)[n]

\* The files fs are what the property asks for.
Follows(fs) ==
    \A n \in M!Followed : M!Wanted[n] # None \/ config.prune => fs[n] = M!Wanted[n]

Index == IF config.index THEN {"index"} ELSE {}

\* The files that a run with the variables l is done with, before it is at label.
Settled(label, l, n) ==
    \/ label \in {"list", "prune"}
    \/ label = "recent" /\ n # "recent"
    \/ label = "pages" /\ n \notin l.todo /\ ~(n = "recent" /\ config.recent)

\* What a clean run with the variables l has done before it is at label.
ProgressAt(label, l, fs) ==
    label # "query" =>
        /\ l.items \in M!Newest
        /\ label = "index" => l.todo = M!Groups(l.items) /\ l.active = {} /\ config.index
        /\ label = "pages" => /\ l.todo \subseteq M!Groups(l.items)
                              /\ l.active = Index \cup (M!Groups(l.items) \ l.todo)
        /\ label = "recent" => /\ l.active = Index \cup M!Groups(l.items)
                               /\ config.recent
        /\ label = "list" => /\ config.prune
                             /\ l.active = {n \in M!Names : M!FilesOf(l.items)[n] # None}
        /\ \A n \in M!Names :
              Settled(label, l, n) /\ M!FilesOf(l.items)[n] # None
                  => fs[n] = M!FilesOf(l.items)[n]
        /\ label = "prune" =>
              /\ config.prune
              /\ \A n \in M!Names :
                    IF n \in l.todo THEN M!FilesOf(l.items)[n] = None
                    ELSE M!FilesOf(l.items)[n] = None => fs[n] = None

Progress == \A r \in M!Running : mloc[r].clean => ProgressAt(mpc[r], mloc[r], files)

\* A run that has not asked for its items has pushed nothing, and a run has
\* pages to push for slugs only.
Pending ==
    \A r \in M!Running :
        /\ mpc[r] = "query" => mloc[r].active = {}
        /\ mpc[r] \in {"index", "pages"} => mloc[r].todo \subseteq Slugs

MirrorIInv ==
    /\ M!MirrorTypeOK
    /\ Held
    /\ CleanAlone
    /\ Progress
    /\ Pending
    /\ mirrored => M!Running = {} /\ Follows(files)

-----------------------------------------------------------------------------
LEMMA MirrorFreshIsLocal == M!MirrorAssumption => M!Fresh \in MirrorLocals
  BY DEF M!MirrorAssumption, M!Fresh, MirrorLocals, M!Versions

LEMMA MirrorJumpEffect ==
  ASSUME M!MirrorAssumption, M!MirrorTypeOK, NEW r \in Tasks, NEW label \in M!Labels, NEW l \in MirrorLocals,
         M!Jump(r, label, l)
  PROVE  /\ mpc' \in [Tasks -> M!Labels]
         /\ mloc' \in [Tasks -> MirrorLocals]
         /\ mpc'[r] = label
         /\ mloc'[r] = IF label \in M!Ended THEN M!Fresh ELSE l
         /\ \A u \in Tasks \ {r} : mpc'[u] = mpc[u] /\ mloc'[u] = mloc[u]
<1>1. mloc \in [Tasks -> MirrorLocals] /\ mpc \in [Tasks -> M!Labels]
  BY DEF M!MirrorTypeOK, MirrorLocals
<1>2. (IF label \in M!Ended THEN M!Fresh ELSE l) \in MirrorLocals
  BY MirrorFreshIsLocal
<1> QED BY <1>1, <1>2, Zenon DEF M!Jump

\* What a run has done depends on the items and the options alone.
LEMMA ProgressKept ==
  ASSUME UNCHANGED <<config, inbox, beyond>>, NEW r \in Tasks,
         ProgressAt(mpc'[r], mloc'[r], files')
  PROVE  ProgressAt(mpc[r], mloc[r], files)'
<1>1. M!Newest' = M!Newest
  BY DEF M!Newest, M!Versions
<1>2. \A n \in M!Names : (M!FilesOf(mloc[r].items)[n])' = M!FilesOf(mloc'[r].items)[n]
  BY DEF M!FilesOf, M!Names
<1>3. M!Groups(mloc[r].items)' = M!Groups(mloc'[r].items)
  BY DEF M!Groups
<1>4. Index' = Index
  BY DEF Index
<1>5. \A n : Settled(mpc[r], mloc[r], n)' = Settled(mpc'[r], mloc'[r], n)
  BY DEF Settled
<1> QED BY <1>1, <1>2, <1>3, <1>4, <1>5 DEF ProgressAt, M!Names

LEMMA FollowsKept ==
  ASSUME UNCHANGED <<config, inbox, beyond>>, Follows(files')
  PROVE  Follows(files)'
  BY DEF Follows, M!Followed, M!Wanted, M!FilesOf, M!Names

\* While r runs, no other run is clean.
LEMMA OthersAreNotClean ==
  ASSUME MirrorIInv, NEW r \in M!Running, NEW u \in M!Running \ {r}
  PROVE  ~mloc[u].clean
<1>1. Process(u) # Process(r)
  BY DEF MirrorIInv, Held
<1>2. r \in M!Elsewhere(u)
  BY <1>1 DEF M!Elsewhere
<1> QED BY <1>2 DEF MirrorIInv, CleanAlone

\* The run ends: it holds its process no longer.
LEMMA EndStep ==
  ASSUME M!MirrorAssumption, MirrorIInv, NEW r \in M!Running, NEW label \in M!Ended,
         M!Jump(r, label, M!Fresh),
         inFlight' = [inFlight EXCEPT ![Process(r)] = None],
         UNCHANGED <<config, inbox, beyond>>,
         files' \in [M!Names -> M!Versions \cup {None}], troubles' \in 0..MaxTroubles,
         mirrored' \in BOOLEAN,
         mirrored' => mloc[r].clean /\ Follows(files')
  PROVE  MirrorIInv'
<1>1. r \in Tasks /\ Process(r) \in M!Processes /\ M!Ended \subseteq M!Labels
  BY DEF M!Running, M!Processes, M!Labels
<1>2. /\ mpc' \in [Tasks -> M!Labels]
      /\ mloc' \in [Tasks -> MirrorLocals]
      /\ mpc'[r] = label
      /\ \A u \in Tasks \ {r} : mpc'[u] = mpc[u] /\ mloc'[u] = mloc[u]
  BY <1>1, MirrorJumpEffect, MirrorFreshIsLocal DEF MirrorIInv
<1>3. M!Running' = M!Running \ {r}
  BY <1>1, <1>2 DEF M!Running
<1>4. /\ inFlight' \in [M!Processes -> Tasks \cup {None}]
      /\ \A p \in M!Processes : inFlight'[p] = IF p = Process(r) THEN None ELSE inFlight[p]
  BY <1>1 DEF MirrorIInv, M!MirrorTypeOK
<1>5. M!MirrorTypeOK'
  BY <1>2, <1>4 DEF MirrorIInv, M!MirrorTypeOK, MirrorLocals, M!Processes
<1>6. Held'
  <2>1. \A u \in M!Running \ {r} : Process(u) # Process(r) /\ u \in Tasks /\ Process(u) \in M!Processes
    BY DEF MirrorIInv, Held, M!Running, M!Processes
  <2> QED BY <1>3, <1>4, <2>1 DEF MirrorIInv, Held, M!Processes
<1>7. \A u \in M!Running' : u \in M!Running \ {r} /\ ~mloc'[u].clean
  BY <1>2, <1>3, OthersAreNotClean DEF M!Running
<1>8. CleanAlone' /\ Progress' /\ Pending'
  BY <1>2, <1>3, <1>7 DEF CleanAlone, Progress, MirrorIInv, Pending, M!Running
<1>9. mirrored' => M!Running' = {} /\ Follows(files)'
  <2> SUFFICES ASSUME mirrored' PROVE M!Running' = {} /\ Follows(files)'
    OBVIOUS
  <2>1. M!Elsewhere(r) = {}
    BY DEF MirrorIInv, CleanAlone
  <2>2. \A u \in M!Running : Process(u) = Process(r)
    BY <2>1 DEF M!Elsewhere
  <2>3. M!Running = {r}
    BY <2>2 DEF MirrorIInv, Held
  <2>4. Follows(files)'
    BY DEF Follows, M!Followed, M!Wanted, M!FilesOf, M!Names
  <2> QED BY <1>3, <2>3, <2>4
<1> QED BY <1>5, <1>6, <1>8, <1>9 DEF MirrorIInv

\* The run goes on at another label.
LEMMA MoveStep ==
  ASSUME M!MirrorAssumption, MirrorIInv, NEW r \in M!Running, NEW label \in M!Labels \ (M!Ended \cup {"idle", "query"}),
         NEW l \in MirrorLocals,
         M!Jump(r, label, l),
         UNCHANGED <<config, inbox, beyond, inFlight, mirrored>>,
         files' \in [M!Names -> M!Versions \cup {None}], troubles' \in 0..MaxTroubles,
         label \in {"index", "pages"} => l.todo \subseteq Slugs,
         l.clean => (mloc[r].clean \/ M!Elsewhere(r) = {}) /\ ProgressAt(label, l, files')
  PROVE  MirrorIInv'
<1>1. r \in Tasks
  BY DEF M!Running
<1>2. /\ mpc' \in [Tasks -> M!Labels]
      /\ mloc' \in [Tasks -> MirrorLocals]
      /\ mpc'[r] = label /\ mloc'[r] = l
      /\ \A u \in Tasks \ {r} : mpc'[u] = mpc[u] /\ mloc'[u] = mloc[u]
  BY <1>1, MirrorJumpEffect DEF MirrorIInv
<1>3. M!Running' = M!Running
  BY <1>1, <1>2 DEF M!Running
<1>4. M!MirrorTypeOK'
  BY <1>2 DEF MirrorIInv, M!MirrorTypeOK, MirrorLocals, M!Processes
<1>5. Held'
  BY <1>3 DEF MirrorIInv, Held, M!Processes
<1>6. \A u \in M!Running' : u = r \/ (u \in M!Running \ {r} /\ ~mloc'[u].clean)
  BY <1>2, <1>3, OthersAreNotClean DEF M!Running
<1>7. CleanAlone'
  <2>1. l.clean => M!Elsewhere(r) = {}
    BY DEF MirrorIInv, CleanAlone
  <2> QED BY <1>2, <1>3, <1>6, <2>1 DEF CleanAlone, M!Elsewhere
<1>8. Progress'
  <2>1. l.clean => ProgressAt(label, l, files')
    OBVIOUS
  <2>2. l.clean => ProgressAt(mpc[r], mloc[r], files)'
    BY <1>1, <1>2, <2>1, ProgressKept
  <2> QED BY <1>2, <1>6, <2>2 DEF Progress
<1>9. ~mirrored' /\ Pending'
  BY <1>2, <1>3 DEF MirrorIInv, Pending, M!Running
<1> QED BY <1>4, <1>5, <1>7, <1>8, <1>9 DEF MirrorIInv

\* What the items have that a query may give is what the property asks for.
LEMMA ShowsFollows ==
  ASSUME NEW items \in M!Newest, NEW fs, Shows(items, fs)
  PROVE  Follows(fs)
<1> SUFFICES ASSUME NEW n \in M!Followed, M!Wanted[n] # None \/ config.prune
             PROVE  fs[n] = M!Wanted[n]
  BY DEF Follows
<1>1. n \in M!Names
  BY DEF M!Followed
<1>2. M!FilesOf(items)[n] = M!Wanted[n]
  <2>1. n \in Slugs \ beyond => items[n] = inbox[n]
    BY DEF M!Newest
  <2>2. (n = "recent" /\ config.recent) \/ n \notin beyond
    BY DEF M!Followed
  <2> QED BY <1>1, <2>1, <2>2 DEF M!FilesOf, M!Wanted
<1> QED BY <1>1, <1>2 DEF Shows

LEMMA ProceedStep ==
  ASSUME M!MirrorAssumption, MirrorIInv, NEW r \in M!Running,
         NEW label \in (M!Labels \cup {"end"}) \ (M!Ended \cup {"idle", "query"}),
         NEW l \in MirrorLocals, M!Proceed(r, label, l),
         UNCHANGED <<config, inbox, beyond>>,
         files' \in [M!Names -> M!Versions \cup {None}], troubles' \in 0..MaxTroubles,
         label \in {"index", "pages"} => l.todo \subseteq Slugs,
         l.clean => /\ mloc[r].clean
                    /\ IF label = "end" THEN l.items \in M!Newest /\ Shows(l.items, files')
                                        ELSE ProgressAt(label, l, files')
  PROVE  MirrorIInv'
<1>1. CASE label = "end"
  <2>1. /\ M!Jump(r, "done", M!Fresh)
        /\ inFlight' = [inFlight EXCEPT ![Process(r)] = None]
        /\ mirrored' = l.clean
    BY <1>1 DEF M!Proceed
  <2>2. l.clean => Follows(files')
    BY <1>1, ShowsFollows
  <2> QED BY <1>1, <2>1, <2>2, EndStep DEF M!Ended, MirrorLocals
<1>2. CASE label # "end"
  <2>1. M!Jump(r, label, l) /\ UNCHANGED <<inFlight, mirrored>>
    BY <1>2 DEF M!Proceed
  <2> QED BY <1>2, <2>1, MoveStep
<1> QED BY <1>1, <1>2

-----------------------------------------------------------------------------
(* One lemma for each step of a run.                                        *)

LEMMA RunIs ==
  ASSUME MirrorIInv, NEW r \in Tasks, mpc[r] \notin M!Ended \cup {"idle"}
  PROVE  /\ r \in M!Running /\ mloc[r] \in MirrorLocals
         /\ mloc[r].clean => ProgressAt(mpc[r], mloc[r], files)
         /\ mpc[r] \in {"index", "pages"} => mloc[r].todo \subseteq Slugs
  BY DEF MirrorIInv, M!MirrorTypeOK, MirrorLocals, M!Running, Progress, Pending

LEMMA QueryPreserves ==
  ASSUME M!MirrorAssumption, MirrorIInv, NEW r \in Tasks, M!Query(r) PROVE MirrorIInv'
<1>1. r \in M!Running /\ mloc[r] \in MirrorLocals /\ mloc[r].active = {}
  BY RunIs DEF M!Query, M!Ended, MirrorIInv, Pending
<1> DEFINE label == IF config.index THEN "index" ELSE "pages"
<1>2. PICK items \in M!Newest :
          M!Jump(r, label, [mloc[r] EXCEPT !.items = items, !.todo = M!Groups(items),
                                           !.clean = (M!Elsewhere(r) = {})])
  BY DEF M!Query
<1> DEFINE l == [mloc[r] EXCEPT !.items = items, !.todo = M!Groups(items),
                                !.clean = (M!Elsewhere(r) = {})]
<1>3. M!Jump(r, label, l) /\ UNCHANGED <<config, inbox, beyond, files, inFlight, troubles, mirrored>>
  BY <1>2 DEF M!Query
<1>4. /\ l \in MirrorLocals /\ l.items = items /\ l.todo = M!Groups(items) /\ l.active = {}
      /\ l.clean = (M!Elsewhere(r) = {}) /\ l.todo \subseteq Slugs
  BY <1>1 DEF MirrorLocals, M!Groups, M!Names, M!Newest
<1> HIDE DEF l
<1>5. ProgressAt(label, l, files')
  <2>1. ASSUME NEW n \in M!Names, Settled(label, l, n) PROVE M!FilesOf(items)[n] = None
    BY <1>4, <2>1 DEF Settled, M!FilesOf, M!Groups
  <2> QED BY <1>4, <2>1 DEF ProgressAt, Index
<1>6. label \in M!Labels \ (M!Ended \cup {"idle", "query"})
  BY DEF M!Labels, M!Ended
<1>7. files' \in [M!Names -> M!Versions \cup {None}] /\ troubles' \in 0..MaxTroubles
  BY <1>3 DEF MirrorIInv, M!MirrorTypeOK
<1> HIDE DEF label
<1> QED BY <1>1, <1>3, <1>4, <1>5, <1>6, <1>7, MoveStep

\* A PUT of name; progress is owed only when it is answered.
LEMMA PushStep ==
  ASSUME M!MirrorAssumption, MirrorIInv, NEW r \in M!Running, NEW name \in M!Names, NEW version \in M!Versions,
         NEW label \in (M!Labels \cup {"end"}) \ (M!Ended \cup {"idle", "query"}),
         NEW l \in MirrorLocals, M!Push(r, name, version, label, l),
         UNCHANGED <<config, inbox, beyond>>,
         label \in {"index", "pages"} => l.todo \subseteq Slugs,
         l.clean => mloc[r].clean,
         LET fs == [files EXCEPT ![name] = version]
             done == [l EXCEPT !.active = @ \cup {name}]
         IN  l.clean => IF label = "end" THEN l.items \in M!Newest /\ Shows(l.items, fs)
                                        ELSE ProgressAt(label, done, fs)
  PROVE  MirrorIInv'
<1>1. /\ files \in [M!Names -> M!Versions \cup {None}] /\ troubles \in 0..MaxTroubles
      /\ [files EXCEPT ![name] = version] \in [M!Names -> M!Versions \cup {None}]
  BY DEF MirrorIInv, M!MirrorTypeOK
<1>2. CASE /\ files' = [files EXCEPT ![name] = version]
           /\ M!Proceed(r, label, [l EXCEPT !.active = @ \cup {name}])
           /\ UNCHANGED troubles
  <2> DEFINE done == [l EXCEPT !.active = @ \cup {name}]
  <2>1. /\ done \in MirrorLocals /\ done.clean = l.clean /\ done.todo = l.todo
        /\ done.items = l.items
    BY DEF MirrorLocals
  <2>2. M!Proceed(r, label, done)
    BY <1>2
  <2>3. l.clean => IF label = "end" THEN done.items \in M!Newest /\ Shows(done.items, files')
                                    ELSE ProgressAt(label, done, files')
    BY <1>2, <2>1
  <2> HIDE DEF done
  <2> QED BY <1>1, <1>2, <2>1, <2>2, <2>3, ProceedStep
<1>3. CASE /\ M!Trouble
           /\ files' \in {files, [files EXCEPT ![name] = version]}
           /\ M!Proceed(r, label, [l EXCEPT !.clean = FALSE])
  <2> DEFINE done == [l EXCEPT !.clean = FALSE]
  <2>1. done \in MirrorLocals /\ ~done.clean /\ done.todo = l.todo
    BY DEF MirrorLocals
  <2>2. troubles' \in 0..MaxTroubles /\ files' \in [M!Names -> M!Versions \cup {None}]
    BY <1>1, <1>3 DEF M!Trouble, M!MirrorAssumption
  <2>3. M!Proceed(r, label, done)
    BY <1>3
  <2> HIDE DEF done
  <2> QED BY <2>1, <2>2, <2>3, ProceedStep
<1> QED BY <1>2, <1>3 DEF M!Push

LEMMA NamesApart ==
  ASSUME M!MirrorAssumption
  PROVE  /\ Slugs \subseteq M!Names /\ {"index", "recent"} \subseteq M!Names
         /\ 0 \in M!Versions /\ None \notin M!Versions
  BY DEF M!MirrorAssumption, M!Names, M!Versions

\* What the files of some items are.
LEMMA FilesAre ==
  ASSUME M!MirrorAssumption, NEW items \in [Slugs -> M!Versions], NEW n \in M!Names
  PROVE  /\ M!Groups(items) \subseteq Slugs
         /\ n = "recent" /\ config.recent => M!FilesOf(items)[n] = 0
         /\ n \in M!Groups(items) /\ ~(n = "recent" /\ config.recent) =>
               M!FilesOf(items)[n] = items[n]
         /\ n = "index" /\ n \notin M!Groups(items) /\ config.index => M!FilesOf(items)[n] = 0
         /\ M!FilesOf(items)[n] # None <=>
               (n \in M!Groups(items) \cup Index \/ (n = "recent" /\ config.recent))
<1>1. n \in Slugs => items[n] \in M!Versions
  OBVIOUS
<1>2. M!FilesOf(items)[n] = IF n = "recent" /\ config.recent THEN 0
                            ELSE IF n \in Slugs /\ items[n] > 0 THEN items[n]
                            ELSE IF n = "index" /\ config.index THEN 0
                            ELSE None
  BY DEF M!FilesOf
<1> QED BY <1>1, <1>2, NamesApart DEF M!Groups, Index

LEMMA PushIndexPreserves ==
  ASSUME M!MirrorAssumption, MirrorIInv, NEW r \in Tasks, M!PushIndex(r) PROVE MirrorIInv'
<1>1. /\ r \in M!Running /\ mloc[r] \in MirrorLocals /\ mpc[r] = "index"
      /\ mloc[r].clean => ProgressAt("index", mloc[r], files)
      /\ mloc[r].todo \subseteq Slugs
  BY RunIs DEF M!PushIndex, M!Ended
<1> DEFINE fs == [files EXCEPT !["index"] = 0]
           done == [mloc[r] EXCEPT !.active = @ \cup {"index"}]
<1>2. /\ fs["index"] = 0
      /\ done.items = mloc[r].items /\ done.todo = mloc[r].todo
      /\ done.active = mloc[r].active \cup {"index"}
  BY <1>1, NamesApart DEF MirrorIInv, M!MirrorTypeOK, MirrorLocals
<1>3. mloc[r].clean => ProgressAt("pages", done, fs)
  <2> HIDE DEF fs, done
  <2> SUFFICES ASSUME mloc[r].clean PROVE ProgressAt("pages", done, fs)
    OBVIOUS
  <2>1. /\ mloc[r].items \in M!Newest /\ mloc[r].todo = M!Groups(mloc[r].items)
        /\ mloc[r].active = {} /\ config.index
    BY <1>1 DEF ProgressAt
  <2>2. mloc[r].items \in [Slugs -> M!Versions]
    BY <1>1 DEF MirrorLocals
  <2>3. ASSUME NEW n \in M!Names, Settled("pages", done, n), M!FilesOf(done.items)[n] # None
        PROVE  fs[n] = M!FilesOf(done.items)[n]
    <3>1. n \notin M!Groups(mloc[r].items) /\ ~(n = "recent" /\ config.recent)
      BY <1>2, <2>1, <2>3 DEF Settled
    <3>2. n = "index" /\ M!FilesOf(done.items)[n] = 0
      BY <1>2, <2>2, <2>3, <3>1, FilesAre DEF Index
    <3> QED BY <1>2, <3>2
  <2> QED BY <1>2, <2>1, <2>3 DEF ProgressAt, Index
<1>4. "pages" \in (M!Labels \cup {"end"}) \ (M!Ended \cup {"idle", "query"})
  BY DEF M!Labels, M!Ended
<1>5. M!Push(r, "index", 0, "pages", mloc[r]) /\ UNCHANGED <<config, inbox, beyond>>
  BY DEF M!PushIndex
<1> QED BY <1>1, <1>3, <1>4, <1>5, NamesApart, PushStep

LEMMA PushPagePreserves ==
  ASSUME M!MirrorAssumption, MirrorIInv, NEW r \in Tasks, M!PushPage(r) PROVE MirrorIInv'
<1>1. /\ r \in M!Running /\ mloc[r] \in MirrorLocals /\ mpc[r] = "pages"
      /\ mloc[r].clean => ProgressAt("pages", mloc[r], files)
      /\ mloc[r].todo \subseteq Slugs
      /\ UNCHANGED <<config, inbox, beyond>>
  BY RunIs DEF M!PushPage, M!Ended
<1>2. CASE mloc[r].todo = {}
  <2>1. M!Proceed(r, M!AfterPages, mloc[r]) /\ UNCHANGED <<files, troubles>>
    BY <1>2 DEF M!PushPage
  <2>2. M!AfterPages \in (M!Labels \cup {"end"}) \ (M!Ended \cup {"idle", "query"})
    BY DEF M!AfterPages, M!Labels, M!Ended
  <2>3. files' \in [M!Names -> M!Versions \cup {None}] /\ troubles' \in 0..MaxTroubles
    BY <2>1 DEF MirrorIInv, M!MirrorTypeOK
  <2>4. ASSUME mloc[r].clean
        PROVE  IF M!AfterPages = "end"
               THEN mloc[r].items \in M!Newest /\ Shows(mloc[r].items, files)
               ELSE ProgressAt(M!AfterPages, mloc[r], files)
    <3> DEFINE items == mloc[r].items
    <3>1. /\ items \in M!Newest /\ mloc[r].active = Index \cup M!Groups(items)
          /\ \A n \in M!Names : /\ ~(n = "recent" /\ config.recent)
                                /\ M!FilesOf(items)[n] # None
                                => files[n] = M!FilesOf(items)[n]
      BY <1>1, <1>2, <2>4 DEF ProgressAt, Settled
    <3>2. items \in [Slugs -> M!Versions]
      BY <1>1 DEF MirrorLocals
    <3>3. CASE M!AfterPages = "end"
      <4>1. ~config.recent /\ ~config.prune
        BY <3>3 DEF M!AfterPages
      <4> QED BY <3>1, <3>3, <4>1 DEF Shows
    <3>4. CASE M!AfterPages = "recent"
      <4>1. config.recent
        BY <3>4 DEF M!AfterPages
      <4> QED BY <3>1, <3>4, <4>1 DEF ProgressAt, Settled
    <3>5. CASE M!AfterPages = "list"
      <4>1. ~config.recent /\ config.prune
        BY <3>5 DEF M!AfterPages
      <4>2. M!Groups(items) \cup Index = {n \in M!Names : M!FilesOf(items)[n] # None}
        BY <3>2, <4>1, FilesAre, NamesApart DEF Index
      <4> QED BY <3>1, <3>5, <4>1, <4>2 DEF ProgressAt
    <3> QED BY <3>3, <3>4, <3>5 DEF M!AfterPages
  <2> QED BY <1>1, <2>1, <2>2, <2>3, <2>4, ProceedStep
<1>3. CASE mloc[r].todo # {}
  <2>1. PICK s \in mloc[r].todo :
            M!Push(r, s, mloc[r].items[s], "pages", [mloc[r] EXCEPT !.todo = @ \ {s}])
    BY <1>3 DEF M!PushPage
  <2> DEFINE l == [mloc[r] EXCEPT !.todo = @ \ {s}]
             version == mloc[r].items[s]
             fs == [files EXCEPT ![s] = version]
             done == [l EXCEPT !.active = @ \cup {s}]
  <2>2. /\ l \in MirrorLocals /\ s \in M!Names /\ l.clean = mloc[r].clean /\ l.todo \subseteq Slugs
        /\ done.items = mloc[r].items /\ done.todo = mloc[r].todo \ {s}
        /\ done.active = mloc[r].active \cup {s}
    BY <1>1 DEF MirrorLocals
  <2>3. version \in M!Versions
    BY <1>1 DEF MirrorLocals
  <2>4. \A n \in M!Names : fs[n] = IF n = s THEN version ELSE files[n]
    BY <2>2 DEF MirrorIInv, M!MirrorTypeOK
  <2>5. mloc[r].clean => ProgressAt("pages", done, fs)
    <3> HIDE DEF l, done, fs
    <3> SUFFICES ASSUME mloc[r].clean PROVE ProgressAt("pages", done, fs)
      OBVIOUS
    <3>1. /\ mloc[r].items \in M!Newest /\ mloc[r].todo \subseteq M!Groups(mloc[r].items)
          /\ mloc[r].active = Index \cup (M!Groups(mloc[r].items) \ mloc[r].todo)
          /\ \A n \in M!Names : Settled("pages", mloc[r], n) /\ M!FilesOf(mloc[r].items)[n] # None
                               => files[n] = M!FilesOf(mloc[r].items)[n]
      BY <1>1 DEF ProgressAt
    <3>2. mloc[r].items \in [Slugs -> M!Versions]
      BY <1>1 DEF MirrorLocals
    <3>3. ASSUME NEW n \in M!Names, Settled("pages", done, n), M!FilesOf(done.items)[n] # None
          PROVE  fs[n] = M!FilesOf(done.items)[n]
      <4>1. CASE n = s
        <5>1. s \in M!Groups(mloc[r].items) /\ ~(n = "recent" /\ config.recent)
          BY <3>1, <3>3 DEF Settled
        <5> QED BY <2>2, <2>4, <3>2, <4>1, <5>1, FilesAre
      <4>2. CASE n # s
        <5>1. Settled("pages", mloc[r], n)
          BY <2>2, <3>3, <4>2 DEF Settled
        <5> QED BY <2>2, <2>4, <3>1, <3>3, <4>2, <5>1
      <4> QED BY <4>1, <4>2
    <3> QED BY <2>2, <3>1, <3>3 DEF ProgressAt
  <2>6. "pages" \in (M!Labels \cup {"end"}) \ (M!Ended \cup {"idle", "query"})
    BY DEF M!Labels, M!Ended
  <2> QED BY <1>1, <2>1, <2>2, <2>3, <2>5, <2>6, PushStep
<1> QED BY <1>2, <1>3

LEMMA PushRecentPreserves ==
  ASSUME M!MirrorAssumption, MirrorIInv, NEW r \in Tasks, M!PushRecent(r) PROVE MirrorIInv'
<1>1. /\ r \in M!Running /\ mloc[r] \in MirrorLocals /\ mpc[r] = "recent"
      /\ mloc[r].clean => ProgressAt("recent", mloc[r], files)
      /\ UNCHANGED <<config, inbox, beyond>>
      /\ M!Push(r, "recent", 0, M!AfterRecent, mloc[r])
  BY RunIs DEF M!PushRecent, M!Ended
<1> DEFINE fs == [files EXCEPT !["recent"] = 0]
           done == [mloc[r] EXCEPT !.active = @ \cup {"recent"}]
<1>2. /\ \A n \in M!Names : fs[n] = IF n = "recent" THEN 0 ELSE files[n]
      /\ done.items = mloc[r].items /\ done.todo = mloc[r].todo
      /\ done.active = mloc[r].active \cup {"recent"}
  BY <1>1 DEF MirrorIInv, M!MirrorTypeOK, MirrorLocals
<1>3. M!AfterRecent \in (M!Labels \cup {"end"}) \ (M!Ended \cup {"idle", "query"})
  BY DEF M!AfterRecent, M!Labels, M!Ended
<1>4. ASSUME mloc[r].clean
      PROVE  IF M!AfterRecent = "end"
             THEN mloc[r].items \in M!Newest /\ Shows(mloc[r].items, fs)
             ELSE ProgressAt(M!AfterRecent, done, fs)
  <2> DEFINE items == mloc[r].items
  <2> HIDE DEF fs, done
  <2>1. /\ items \in M!Newest /\ mloc[r].active = Index \cup M!Groups(items) /\ config.recent
        /\ \A n \in M!Names : n # "recent" /\ M!FilesOf(items)[n] # None
                             => files[n] = M!FilesOf(items)[n]
    BY <1>1, <1>4 DEF ProgressAt, Settled
  <2>2. items \in [Slugs -> M!Versions]
    BY <1>1 DEF MirrorLocals
  <2>3. \A n \in M!Names : M!FilesOf(items)[n] # None => fs[n] = M!FilesOf(items)[n]
    BY <1>2, <2>1, <2>2, FilesAre
  <2>4. CASE M!AfterRecent = "end"
    <3>1. ~config.prune
      BY <2>4 DEF M!AfterRecent
    <3> QED BY <2>1, <2>3, <2>4, <3>1 DEF Shows
  <2>5. CASE M!AfterRecent # "end"
    <3>1. M!AfterRecent = "list" /\ config.prune
      BY <2>5 DEF M!AfterRecent
    <3>2. M!Groups(items) \cup Index \cup {"recent"} = {n \in M!Names : M!FilesOf(items)[n] # None}
      BY <2>1, <2>2, FilesAre, NamesApart DEF Index
    <3> QED BY <1>2, <2>1, <2>3, <3>1, <3>2 DEF ProgressAt
  <2> QED BY <2>4, <2>5
<1>5. M!AfterRecent \notin {"index", "pages"}
  BY DEF M!AfterRecent
<1> QED BY <1>1, <1>3, <1>4, <1>5, NamesApart, PushStep

LEMMA ListFilesPreserves ==
  ASSUME M!MirrorAssumption, MirrorIInv, NEW r \in Tasks, M!ListFiles(r) PROVE MirrorIInv'
<1>1. /\ r \in M!Running /\ mloc[r] \in MirrorLocals /\ mpc[r] = "list"
      /\ mloc[r].clean => ProgressAt("list", mloc[r], files)
      /\ UNCHANGED <<config, inbox, beyond, files>>
  BY RunIs DEF M!ListFiles, M!Ended
<1>2. files' \in [M!Names -> M!Versions \cup {None}] /\ troubles \in 0..MaxTroubles
  BY <1>1 DEF MirrorIInv, M!MirrorTypeOK
<1>3. {"end", "prune"} \subseteq (M!Labels \cup {"end"}) \ (M!Ended \cup {"idle", "query"})
  BY DEF M!Labels, M!Ended
<1> DEFINE items == mloc[r].items
<1>4. ASSUME mloc[r].clean
      PROVE  /\ config.prune /\ items \in M!Newest
             /\ \A n \in M!Names : M!FilesOf(items)[n] # None =>
                   files[n] = M!FilesOf(items)[n] /\ n \notin M!Orphans(r)
             /\ \A n \in M!Names : M!FilesOf(items)[n] = None /\ n \notin M!Orphans(r)
                   => files[n] = None
  <2>1. /\ config.prune /\ items \in M!Newest
        /\ mloc[r].active = {n \in M!Names : M!FilesOf(items)[n] # None}
        /\ \A n \in M!Names : M!FilesOf(items)[n] # None => files[n] = M!FilesOf(items)[n]
    BY <1>1, <1>4 DEF ProgressAt, Settled
  <2>2. items \in [Slugs -> M!Versions]
    BY <1>1 DEF MirrorLocals
  <2>3. config.index => M!FilesOf(items)["index"] # None
    BY <2>2, FilesAre, NamesApart DEF Index
  <2>4. \A n \in M!Names : n \in M!Orphans(r) <=> files[n] # None /\ M!FilesOf(items)[n] = None
    BY <2>1, <2>3 DEF M!Orphans
  <2> QED BY <2>1, <2>4
<1>5. CASE M!Orphans(r) = {} /\ M!Proceed(r, "end", mloc[r]) /\ UNCHANGED troubles
  <2>1. mloc[r].clean => items \in M!Newest /\ Shows(items, files')
    BY <1>1, <1>4, <1>5 DEF Shows
  <2> QED BY <1>1, <1>2, <1>3, <1>5, <2>1, ProceedStep
<1>6. CASE /\ M!Proceed(r, "prune", [mloc[r] EXCEPT !.todo = M!Orphans(r)])
           /\ UNCHANGED troubles
  <2> DEFINE l == [mloc[r] EXCEPT !.todo = M!Orphans(r)]
  <2>1. /\ l \in MirrorLocals /\ l.clean = mloc[r].clean /\ l.todo = M!Orphans(r)
        /\ l.items = mloc[r].items
    BY <1>1 DEF MirrorLocals, M!Orphans
  <2>2. M!Proceed(r, "prune", l)
    BY <1>6
  <2> HIDE DEF l
  <2>3. l.clean => ProgressAt("prune", l, files')
    BY <1>1, <1>4, <2>1 DEF ProgressAt, Settled
  <2> QED BY <1>1, <1>2, <1>3, <1>6, <2>1, <2>2, <2>3, ProceedStep
<1>7. CASE M!Trouble /\ M!Proceed(r, "end", [mloc[r] EXCEPT !.clean = FALSE])
  <2> DEFINE l == [mloc[r] EXCEPT !.clean = FALSE]
  <2>1. l \in MirrorLocals /\ ~l.clean
    BY <1>1 DEF MirrorLocals
  <2>2. troubles' \in 0..MaxTroubles
    BY <1>2, <1>7 DEF M!Trouble, M!MirrorAssumption
  <2>3. M!Proceed(r, "end", l)
    BY <1>7
  <2> HIDE DEF l
  <2> QED BY <1>1, <1>2, <1>3, <2>1, <2>2, <2>3, ProceedStep
<1> QED BY <1>5, <1>6, <1>7 DEF M!ListFiles

LEMMA PrunePreserves ==
  ASSUME M!MirrorAssumption, MirrorIInv, NEW r \in Tasks, M!Prune(r) PROVE MirrorIInv'
<1>1. /\ r \in M!Running /\ mloc[r] \in MirrorLocals /\ mpc[r] = "prune"
      /\ mloc[r].clean => ProgressAt("prune", mloc[r], files)
      /\ UNCHANGED <<config, inbox, beyond>>
  BY RunIs DEF M!Prune, M!Ended
<1>2. PICK n \in mloc[r].todo :
          LET rest == mloc[r].todo \ {n}
              label == IF rest = {} THEN "end" ELSE "prune"
          IN  \/ /\ files' = [files EXCEPT ![n] = None]
                 /\ M!Proceed(r, label, [mloc[r] EXCEPT !.todo = rest])
                 /\ UNCHANGED troubles
              \/ /\ M!Trouble
                 /\ files' \in {files, [files EXCEPT ![n] = None]}
                 /\ M!Proceed(r, label, [mloc[r] EXCEPT !.todo = rest, !.clean = FALSE])
  BY DEF M!Prune
<1> DEFINE rest == mloc[r].todo \ {n}
           label == IF rest = {} THEN "end" ELSE "prune"
<1>3. label \in (M!Labels \cup {"end"}) \ (M!Ended \cup {"idle", "query"}) /\ label \notin {"index", "pages"}
  BY DEF M!Labels, M!Ended
<1>4. /\ n \in M!Names /\ files \in [M!Names -> M!Versions \cup {None}] /\ troubles \in 0..MaxTroubles
      /\ [files EXCEPT ![n] = None] \in [M!Names -> M!Versions \cup {None}]
  BY <1>1 DEF MirrorIInv, M!MirrorTypeOK, MirrorLocals
<1>5. CASE /\ files' = [files EXCEPT ![n] = None]
           /\ M!Proceed(r, label, [mloc[r] EXCEPT !.todo = rest])
           /\ UNCHANGED troubles
  <2> DEFINE l == [mloc[r] EXCEPT !.todo = rest]
  <2>1. /\ l \in MirrorLocals /\ l.clean = mloc[r].clean /\ l.todo = rest /\ l.items = mloc[r].items
    BY <1>1 DEF MirrorLocals
  <2>2. M!Proceed(r, label, l)
    BY <1>5
  <2> HIDE DEF l
  <2>3. \A m \in M!Names : files'[m] = IF m = n THEN None ELSE files[m]
    BY <1>4, <1>5
  <2> DEFINE items == mloc[r].items
  <2>4. ASSUME mloc[r].clean
        PROVE  IF label = "end" THEN items \in M!Newest /\ Shows(items, files')
                                ELSE ProgressAt(label, l, files')
    <3>1. /\ items \in M!Newest /\ config.prune
          /\ \A m \in M!Names : M!FilesOf(items)[m] # None => files[m] = M!FilesOf(items)[m]
          /\ \A m \in M!Names : IF m \in mloc[r].todo THEN M!FilesOf(items)[m] = None
                               ELSE M!FilesOf(items)[m] = None => files[m] = None
      BY <1>1, <2>4 DEF ProgressAt, Settled
    <3>2. /\ \A m \in M!Names : M!FilesOf(items)[m] # None => files'[m] = M!FilesOf(items)[m]
          /\ \A m \in M!Names : IF m \in rest THEN M!FilesOf(items)[m] = None
                               ELSE M!FilesOf(items)[m] = None => files'[m] = None
      BY <1>4, <2>3, <3>1
    <3>3. CASE label = "end"
      <4>1. rest = {}
        BY <3>3
      <4> HIDE DEF rest, label
      <4> QED BY <3>1, <3>2, <3>3, <4>1 DEF Shows
    <3>4. CASE label = "prune"
      <4> HIDE DEF rest, label
      <4> QED BY <2>1, <3>1, <3>2, <3>4 DEF ProgressAt, Settled
    <3> QED BY <3>3, <3>4
  <2> HIDE DEF label, rest
  <2> QED BY <1>1, <1>3, <1>4, <1>5, <2>1, <2>2, <2>4, ProceedStep
<1>6. CASE /\ M!Trouble
           /\ files' \in {files, [files EXCEPT ![n] = None]}
           /\ M!Proceed(r, label, [mloc[r] EXCEPT !.todo = rest, !.clean = FALSE])
  <2> DEFINE l == [mloc[r] EXCEPT !.todo = rest, !.clean = FALSE]
  <2>1. l \in MirrorLocals /\ ~l.clean
    BY <1>1 DEF MirrorLocals
  <2>2. troubles' \in 0..MaxTroubles /\ files' \in [M!Names -> M!Versions \cup {None}]
    BY <1>4, <1>6 DEF M!Trouble, M!MirrorAssumption
  <2>3. M!Proceed(r, label, l)
    BY <1>6
  <2> HIDE DEF l, label, rest
  <2> QED BY <1>1, <1>3, <2>1, <2>2, <2>3, ProceedStep
<1> QED BY <1>2, <1>5, <1>6

\* The run is cut short: it skips, throws, or its process dies.
LEMMA EndPreserves ==
  ASSUME M!MirrorAssumption, MirrorIInv, NEW r \in M!Running, NEW label \in M!Ended, M!End(r, label),
         UNCHANGED <<config, inbox, beyond, files>>,
         troubles' \in {troubles, troubles + 1}, troubles' \in 0..MaxTroubles
  PROVE  MirrorIInv'
<1>1. /\ M!Jump(r, label, M!Fresh) /\ ~mirrored' /\ mirrored' \in BOOLEAN
      /\ inFlight' = [inFlight EXCEPT ![Process(r)] = None]
  BY DEF M!End
<1>2. files' \in [M!Names -> M!Versions \cup {None}]
  BY DEF MirrorIInv, M!MirrorTypeOK
<1> QED BY <1>1, <1>2, EndStep

LEMMA CutShortPreserves ==
  ASSUME M!MirrorAssumption, MirrorIInv, NEW r \in Tasks, M!NoPeer(r) \/ M!Throw(r) PROVE MirrorIInv'
<1>1. r \in M!Running
  BY DEF M!NoPeer, M!Throw, M!Running, M!Ended
<1>2. troubles \in 0..MaxTroubles
  BY DEF MirrorIInv, M!MirrorTypeOK
<1>3. CASE M!NoPeer(r)
  BY <1>1, <1>2, <1>3, EndPreserves DEF M!NoPeer, M!Ended
<1>4. CASE M!Throw(r)
  <2>1. troubles' = troubles + 1 /\ troubles' \in 0..MaxTroubles
    BY <1>2, <1>4 DEF M!Throw, M!Trouble, M!MirrorAssumption
  <2> QED BY <1>1, <1>4, <2>1, EndPreserves DEF M!Throw, M!Ended
<1> QED BY <1>3, <1>4

LEMMA CrashPreserves ==
  ASSUME M!MirrorAssumption, MirrorIInv, NEW p \in M!Processes, M!Crash(p) PROVE MirrorIInv'
<1>1. inFlight[p] \in M!Running
  BY DEF M!Crash, MirrorIInv, Held
<1>2. troubles' = troubles + 1 /\ troubles' \in 0..MaxTroubles
  BY DEF M!Crash, M!Trouble, M!MirrorAssumption, MirrorIInv, M!MirrorTypeOK
<1> QED BY <1>1, <1>2, EndPreserves DEF M!Crash, M!Ended

-----------------------------------------------------------------------------
(* A run begins, and the inbox changes.                                     *)

LEMMA MirrorStartPreserves ==
  ASSUME M!MirrorAssumption, MirrorIInv, NEW r \in Tasks, M!Start(r) PROVE MirrorIInv'
<1>1. mpc[r] = "idle" /\ r \notin M!Running /\ UNCHANGED <<config, inbox, beyond, files, troubles>>
  BY DEF M!Start, M!Running
<1>2. mpc \in [Tasks -> M!Labels] /\ mloc \in [Tasks -> MirrorLocals] /\ Process(r) \in M!Processes
  BY DEF MirrorIInv, M!MirrorTypeOK, MirrorLocals, M!Processes
<1>3. CASE inFlight[Process(r)] # None
  <2>1. M!Jump(r, "skipped", M!Fresh) /\ UNCHANGED <<inFlight, mirrored>>
    BY <1>3 DEF M!Start
  <2>2. /\ mpc' \in [Tasks -> M!Labels]
        /\ mloc' \in [Tasks -> MirrorLocals]
        /\ mpc'[r] = "skipped"
        /\ \A u \in Tasks \ {r} : mpc'[u] = mpc[u] /\ mloc'[u] = mloc[u]
    BY <2>1, MirrorJumpEffect, MirrorFreshIsLocal DEF MirrorIInv, M!Labels, M!Ended
  <2>3. M!Running' = M!Running
    BY <1>1, <2>2 DEF M!Running, M!Ended
  <2>4. \A u \in M!Running : u \in Tasks \ {r}
    BY <1>1 DEF M!Running
  <2>5. M!MirrorTypeOK'
    BY <1>1, <2>1, <2>2 DEF MirrorIInv, M!MirrorTypeOK, MirrorLocals, M!Processes
  <2>6. Held' /\ CleanAlone'
    BY <2>1, <2>2, <2>3, <2>4 DEF MirrorIInv, Held, CleanAlone, M!Elsewhere, M!Processes
  <2>7. Progress' /\ Pending'
    <3>1. ASSUME NEW u \in M!Running', mloc'[u].clean PROVE ProgressAt(mpc[u], mloc[u], files)'
      <4>1. ProgressAt(mpc'[u], mloc'[u], files')
        BY <1>1, <2>2, <2>3, <2>4, <3>1 DEF MirrorIInv, Progress
      <4> QED BY <1>1, <2>3, <2>4, <4>1, ProgressKept
    <3>2. Progress'
      BY <3>1 DEF Progress
    <3>3. Pending'
      BY <1>1, <2>2, <2>3, <2>4 DEF MirrorIInv, Pending
    <3> QED BY <3>2, <3>3
  <2>8. mirrored' => M!Running' = {} /\ Follows(files)'
    BY <1>1, <2>1, <2>3
    DEF MirrorIInv, Follows, M!Followed, M!Wanted, M!FilesOf, M!Names
  <2> QED BY <2>5, <2>6, <2>7, <2>8 DEF MirrorIInv
<1>4. CASE inFlight[Process(r)] = None
  <2>1. /\ mpc' = [mpc EXCEPT ![r] = "query"]
        /\ inFlight' = [inFlight EXCEPT ![Process(r)] = r]
        /\ mloc' = [u \in Tasks |->
                      IF u = r THEN [M!Fresh EXCEPT !.clean = (M!Elsewhere(r) = {})]
                      ELSE IF u \in M!Elsewhere(r) THEN [mloc[u] EXCEPT !.clean = FALSE]
                      ELSE mloc[u]]
        /\ mirrored' = FALSE
    BY <1>4 DEF M!Start
  <2>2. /\ [M!Fresh EXCEPT !.clean = (M!Elsewhere(r) = {})] \in MirrorLocals
        /\ [M!Fresh EXCEPT !.clean = (M!Elsewhere(r) = {})].active = {}
        /\ [M!Fresh EXCEPT !.clean = (M!Elsewhere(r) = {})].clean = (M!Elsewhere(r) = {})
    <3>1. ASSUME NEW b \in BOOLEAN
          PROVE  /\ [M!Fresh EXCEPT !.clean = b] \in MirrorLocals
                 /\ [M!Fresh EXCEPT !.clean = b].active = {}
                 /\ [M!Fresh EXCEPT !.clean = b].clean = b
      BY DEF M!MirrorAssumption, M!Fresh, MirrorLocals, M!Versions
    <3> QED BY <3>1
  <2>3. \A u \in Tasks : [mloc[u] EXCEPT !.clean = FALSE] \in MirrorLocals
    BY <1>2 DEF MirrorLocals
  <2>4. \A u \in M!Running : Process(u) # Process(r) /\ u \in Tasks /\ u \in M!Elsewhere(r) /\ u # r
    BY <1>1, <1>4 DEF MirrorIInv, Held, M!Running, M!Elsewhere, M!MirrorAssumption
  <2>5. mpc' \in [Tasks -> M!Labels] /\ mpc'[r] = "query" /\ \A u \in Tasks \ {r} : mpc'[u] = mpc[u]
    BY <1>2, <2>1 DEF M!Labels
  <2>6. mloc' \in [Tasks -> MirrorLocals]
    BY <1>2, <2>1, <2>2, <2>3, Zenon
  <2>7. M!Running' = M!Running \cup {r}
    BY <2>5 DEF M!Running, M!Ended
  <2>8. /\ mloc'[r].active = {} /\ mloc'[r].clean = (M!Elsewhere(r) = {})
        /\ \A u \in M!Running : /\ ~mloc'[u].clean /\ mloc'[u].active = mloc[u].active
                              /\ mloc'[u].todo = mloc[u].todo
    BY <1>2, <2>1, <2>2, <2>4 DEF MirrorLocals
  <2>9. /\ inFlight' \in [M!Processes -> Tasks \cup {None}]
        /\ \A p \in M!Processes : inFlight'[p] = IF p = Process(r) THEN r ELSE inFlight[p]
    BY <1>2, <2>1 DEF MirrorIInv, M!MirrorTypeOK
  <2>10. M!MirrorTypeOK'
    BY <1>1, <2>1, <2>5, <2>6, <2>9 DEF MirrorIInv, M!MirrorTypeOK, MirrorLocals, M!Processes
  <2>11. Held'
    <3>1. \A u \in M!Running' : inFlight'[Process(u)] = u
      BY <1>2, <2>4, <2>7, <2>9 DEF MirrorIInv, Held, M!Processes
    <3>2. \A p \in M!Processes : inFlight'[p] # None =>
             inFlight'[p] \in M!Running' /\ Process(inFlight'[p]) = p
      BY <2>7, <2>9 DEF MirrorIInv, Held
    <3> QED BY <3>1, <3>2 DEF Held, M!Processes
  <2>12. CleanAlone'
    <3>1. M!Elsewhere(r)' = M!Elsewhere(r)
      BY <2>7 DEF M!Elsewhere
    <3> QED BY <2>7, <2>8, <3>1 DEF CleanAlone
  <2>13. Progress'
    BY <2>5, <2>7, <2>8 DEF Progress, ProgressAt
  <2>14. Pending'
    BY <2>4, <2>5, <2>7, <2>8 DEF MirrorIInv, Pending
  <2> QED BY <2>1, <2>10, <2>11, <2>12, <2>13, <2>14 DEF MirrorIInv
<1> QED BY <1>3, <1>4

LEMMA ItemsChangePreserves ==
  ASSUME M!MirrorAssumption, MirrorIInv, NEW s \in Slugs, NEW v \in M!Versions, M!ItemsChange(s, v)
  PROVE  MirrorIInv'
<1>1. /\ UNCHANGED <<config, files, inFlight, mpc>> /\ mirrored' = FALSE
      /\ mloc' = [r \in Tasks |-> [mloc[r] EXCEPT !.clean = FALSE]]
      /\ inbox' = [inbox EXCEPT ![s] = v]
      /\ beyond' \subseteq M!Groups(inbox')
      /\ M!Trouble
  BY DEF M!ItemsChange
<1>2. mloc \in [Tasks -> MirrorLocals]
  BY DEF MirrorIInv, M!MirrorTypeOK, MirrorLocals
<1>3. \A r \in Tasks : /\ [mloc[r] EXCEPT !.clean = FALSE] \in MirrorLocals
                      /\ ~[mloc[r] EXCEPT !.clean = FALSE].clean
                      /\ [mloc[r] EXCEPT !.clean = FALSE].active = mloc[r].active
                      /\ [mloc[r] EXCEPT !.clean = FALSE].todo = mloc[r].todo
  BY <1>2 DEF MirrorLocals
<1>4. mloc' \in [Tasks -> MirrorLocals]
  BY <1>1, <1>3, Zenon
<1>5. M!Running' = M!Running /\ M!Running \subseteq Tasks
  BY <1>1 DEF M!Running
<1>6. M!MirrorTypeOK'
  <2>1. troubles' \in 0..MaxTroubles
    BY <1>1 DEF M!Trouble, M!MirrorAssumption, MirrorIInv, M!MirrorTypeOK
  <2> QED BY <1>1, <1>4, <2>1 DEF MirrorIInv, M!MirrorTypeOK, MirrorLocals, M!Processes
<1>7. Held'
  BY <1>1, <1>5 DEF MirrorIInv, Held, M!Processes
<1>8. CleanAlone' /\ Progress'
  BY <1>1, <1>3, <1>5 DEF CleanAlone, Progress
<1>9. Pending'
  BY <1>1, <1>3, <1>5 DEF MirrorIInv, Pending
<1> QED BY <1>1, <1>6, <1>7, <1>8, <1>9 DEF MirrorIInv

-----------------------------------------------------------------------------
(* The invariant holds initially and is preserved.                          *)

LEMMA MirrorInitEstablishes == M!MirrorAssumption /\ M!Init => MirrorIInv
<1> SUFFICES ASSUME M!MirrorAssumption, M!Init PROVE MirrorIInv
  OBVIOUS
<1>1. M!MirrorTypeOK
  <2>1. {0, 1} \subseteq M!Versions /\ 0 \in 0..MaxTroubles /\ M!Fresh \in MirrorLocals
    BY MirrorFreshIsLocal DEF M!MirrorAssumption, M!Versions
  <2>2. inbox \in [Slugs -> M!Versions] /\ files \in [M!Names -> M!Versions \cup {None}]
    BY <2>1 DEF M!Init
  <2> QED BY <2>1, <2>2 DEF M!Init, M!MirrorTypeOK, M!Labels, MirrorLocals
<1>2. M!Running = {}
  BY DEF M!Init, M!Running
<1> QED BY <1>1, <1>2 DEF M!Init, MirrorIInv, Held, CleanAlone, Progress, Pending

LEMMA MirrorNextPreserves == M!MirrorAssumption /\ MirrorIInv /\ [M!Next]_(M!vars) => MirrorIInv'
<1> SUFFICES ASSUME M!MirrorAssumption, MirrorIInv, [M!Next]_(M!vars) PROVE MirrorIInv'
  OBVIOUS
<1>1. ASSUME NEW s \in Slugs, NEW v \in M!Versions, M!ItemsChange(s, v) PROVE MirrorIInv'
  BY <1>1, ItemsChangePreserves
<1>2. ASSUME NEW r \in Tasks, M!Start(r) PROVE MirrorIInv'
  BY <1>2, MirrorStartPreserves
<1>3. ASSUME NEW r \in Tasks, M!Step(r) PROVE MirrorIInv'
  BY <1>3, CutShortPreserves, QueryPreserves, PushIndexPreserves, PushPagePreserves,
     PushRecentPreserves, ListFilesPreserves, PrunePreserves DEF M!Step
<1>4. ASSUME NEW p \in M!Processes, M!Crash(p) PROVE MirrorIInv'
  BY <1>4, CrashPreserves
<1>5. CASE UNCHANGED M!vars
  <2>1. UNCHANGED <<config, inbox, beyond, files, inFlight, mpc, mloc, troubles, mirrored>>
    BY <1>5 DEF M!vars
  <2>2. M!MirrorTypeOK' /\ Held' /\ CleanAlone' /\ Pending'
    BY <2>1 DEF MirrorIInv, M!MirrorTypeOK, Held, CleanAlone, M!Elsewhere, M!Running, Pending,
                M!Names, M!Groups, M!Processes
  <2>3. M!Running' = M!Running /\ M!Running \subseteq Tasks
    BY <2>1 DEF M!Running
  <2>4. Progress'
    BY <2>1, <2>3, ProgressKept DEF MirrorIInv, Progress
  <2>5. mirrored' => M!Running' = {} /\ Follows(files)'
    BY <2>1, <2>3, FollowsKept DEF MirrorIInv
  <2> QED BY <2>2, <2>4, <2>5 DEF MirrorIInv
<1> QED BY <1>1, <1>2, <1>3, <1>4, <1>5 DEF M!Next

LEMMA MirrorInductive == M!MirrorAssumption => (M!Spec => []MirrorIInv)
<1> SUFFICES ASSUME M!MirrorAssumption PROVE M!Spec => []MirrorIInv
  OBVIOUS
<1>1. M!Init => MirrorIInv
  BY MirrorInitEstablishes
<1>2. MirrorIInv /\ [M!Next]_(M!vars) => MirrorIInv'
  BY MirrorNextPreserves
<1> QED BY <1>1, <1>2, PTL DEF M!Spec

\* The runs, the promises in flight and the files of the peer keep their types.
THEOREM MirrorTypeCorrect == M!MirrorAssumption => (M!Spec => []M!MirrorTypeOK)
<1>1. MirrorIInv => M!MirrorTypeOK
  BY DEF MirrorIInv
<1> QED BY <1>1, MirrorInductive, PTL

\* runMirror: a run that had no trouble and met no run of another process
\* leaves the peer with the pages of the slugs whose items it read, and with no
\* others if they are to be pruned, whatever the slugs are called.
THEOREM PeerFollows == M!MirrorAssumption => (M!Spec => []MirrorFollowsInbox)
<1>1. MirrorIInv => MirrorFollowsInbox
  BY DEF MirrorIInv, Follows, MirrorFollowsInbox, Followed, Wanted, FilesOf, Names,
     M!Followed, M!Wanted, M!FilesOf, M!Names
<1> QED BY <1>1, MirrorInductive, PTL

-----------------------------------------------------------------------------
(* The labels.                                                              *)
CONSTANTS Order, Aged, PageLimit, HardCap

VARIABLES lpc, lloc

L == INSTANCE Labels

LabelSets == (SUBSET L!Marks) \cup {None}
ItemsRead == UNION {[at -> LabelSets] : at \in SUBSET L!Positions}
LabelsLocals ==
    [op : L!Ops \cup {"none"}, id : Items \cup {None}, got : SUBSET L!Marks, ids : SUBSET Items,
     page : SUBSET L!Positions, items : ItemsRead, cursor : Items \cup {None}, more : BOOLEAN,
     matched : Nat, pending : SUBSET Items, stale : SUBSET Items]

-----------------------------------------------------------------------------
(* The inductive invariant.                                                 *)

\* Which labels a call can be at, and the page that a walk has in hand.
CallAt(label, l) ==
    /\ label \in {"hooks", "put"} => l.op = "deliver"
    /\ label = "delete" => l.op = "delete"
    /\ label \in {"get", "save"} => l.op \in L!Edits \cup {"readMany"}
    /\ label = "look" => l.op = "note"
    /\ label = "ids" => l.op = "readMany"
    /\ l.op # "readMany" => l.ids = {}
    /\ label \in {"query", "hydrate", "page"} => l.op \in L!Walks
    /\ label \in {"hooks", "put", "delete", "look", "get", "save"} => l.id \in Items
    /\ label = "page" => DOMAIN l.items = l.page
    /\ Cardinality(l.page) <= PageLimit

\* What a call has read of an item is stored, unless it is stale.
ReadsAt(label, l, stored) ==
    /\ label = "put" /\ l.id \notin l.stale => stored[l.id] = None
    /\ label = "save" /\ l.id \notin l.stale => l.got = stored[l.id]
    /\ label = "page" => \A k \in l.page : Order[k] \notin l.stale => l.items[k] = stored[Order[k]]

\* What a walk has not done yet it can still do: the items that it owes match
\* as they did, and are in the page in hand or after the cursor.
Owes(l, i, stored) ==
    /\ i \notin l.stale
    /\ stored[i] # None
    /\ l.op # "rule" => "unread" \in stored[i]
    /\ l.op = "sweep" => i \in Aged
    /\ L!Writes(l.op, stored[i])

AfterCursor(l, k) == \A j \in L!Positions : Order[j] = l.cursor => j < k

WalkAt(label, l, stored) ==
    label \in {"query", "hydrate", "page"} =>
        /\ \A i \in l.pending : Owes(l, i, stored)
        /\ \A k \in L!Positions : Order[k] \in l.pending =>
              IF label = "query" THEN AfterCursor(l, k)
              ELSE k \in l.page \/ (l.more /\ AfterCursor(l, k))

LabelsIInv ==
    /\ labels \in [Items -> LabelSets]
    /\ lpc \in [Tasks -> L!Steps]
    /\ lloc \in [Tasks -> LabelsLocals]
    /\ missed = {}
    /\ read \in SUBSET Items
    /\ \A i \in read : labels[i] # None /\ "unread" \notin labels[i]
    /\ \A t \in Tasks : /\ CallAt(lpc[t], lloc[t])
                        /\ ReadsAt(lpc[t], lloc[t], labels)
                        /\ WalkAt(lpc[t], lloc[t], labels)

-----------------------------------------------------------------------------
\* The instance and this module count the same way.
LEMMA SameCount == \A S : L!Cardinality(S) = Cardinality(S)
  BY DEF L!Cardinality, Cardinality, L!IsFiniteSet, IsFiniteSet

LEMMA LabelsFreshIsLocal ==
  ASSUME L!LabelsAssumption
  PROVE  L!Fresh \in LabelsLocals /\ Cardinality(L!Fresh.page) <= PageLimit /\ L!Fresh.ids = {}
<1>1. [k \in {} |-> None] \in ItemsRead
  <2>1. [k \in {} |-> None] \in [{} -> LabelSets]
    OBVIOUS
  <2>2. {} \in SUBSET L!Positions
    OBVIOUS
  <2> QED BY <2>1, <2>2, Zenon DEF ItemsRead
<1>2. Cardinality({}) = 0
  BY FS_EmptySet
<1> QED BY <1>1, <1>2 DEF L!LabelsAssumption, L!Fresh, LabelsLocals

\* What an edit leaves of the labels that it has read.
LEMMA EditedLabels ==
  ASSUME NEW op \in L!Edits \cup L!Walks \cup {"readMany"}, NEW s \in SUBSET L!Marks
  PROVE  /\ L!Edited(op, s) \in SUBSET L!Marks
         /\ op \in L!Readers => "unread" \notin L!Edited(op, s)
         /\ op # "unread" /\ "unread" \notin s => "unread" \notin L!Edited(op, s)
  BY DEF L!Edited, L!Edits, L!Walks, L!Readers, L!Marks

\* A call that has ended, or has not begun, keeps nothing.
LEMMA IdleKeeps ==
  ASSUME L!LabelsAssumption, NEW label \in L!Ended
  PROVE  /\ CallAt(label, L!Fresh)
         /\ ReadsAt(label, L!Fresh, labels')
         /\ WalkAt(label, L!Fresh, labels')
  BY LabelsFreshIsLocal DEF CallAt, ReadsAt, WalkAt, L!Ended

LEMMA LabelsJumpKeeps ==
  ASSUME L!LabelsAssumption, LabelsIInv, NEW t \in Tasks, NEW label \in L!Steps,
         NEW l \in LabelsLocals,
         L!Jump(t, label, l), labels' = labels, missed' = {},
         read' \in SUBSET Items,
         \A i \in read' : i \in read \/ (labels[i] # None /\ "unread" \notin labels[i]),
         label \notin L!Ended =>
            CallAt(label, l) /\ ReadsAt(label, l, labels) /\ WalkAt(label, l, labels)
  PROVE  LabelsIInv'
<1> DEFINE new == IF label \in L!Ended THEN L!Fresh ELSE l
<1>1. /\ new \in LabelsLocals /\ CallAt(label, new)
      /\ ReadsAt(label, new, labels) /\ WalkAt(label, new, labels)
  BY LabelsFreshIsLocal, IdleKeeps
<1>2. /\ lpc' \in [Tasks -> L!Steps] /\ lloc' \in [Tasks -> LabelsLocals]
      /\ lpc'[t] = label /\ lloc'[t] = new
      /\ \A u \in Tasks \ {t} : lpc'[u] = lpc[u] /\ lloc'[u] = lloc[u]
  BY <1>1, Zenon DEF LabelsIInv, L!Jump
<1>3. ASSUME NEW u \in Tasks
      PROVE  /\ CallAt(lpc'[u], lloc'[u])
             /\ ReadsAt(lpc'[u], lloc'[u], labels)
             /\ WalkAt(lpc'[u], lloc'[u], labels)
  <2>1. CASE u = t
    BY <1>1, <1>2, <2>1
  <2>2. CASE u # t
    BY <1>2, <2>2 DEF LabelsIInv
  <2> QED BY <2>1, <2>2
<1> HIDE DEF new
<1>4. \A i \in read' : labels'[i] # None /\ "unread" \notin labels'[i]
  BY DEF LabelsIInv
<1> QED BY <1>2, <1>3, <1>4 DEF LabelsIInv

\* A write of another call: what this one has read of the item is stale, and
\* it does not owe the item any more.
LEMMA StaleKeeps ==
  ASSUME L!LabelsAssumption, NEW label \in L!Steps, NEW l \in LabelsLocals, NEW i \in Items,
         NEW s \in LabelSets, labels \in [Items -> LabelSets],
         CallAt(label, l), ReadsAt(label, l, labels), WalkAt(label, l, labels)
  PROVE  LET m == [l EXCEPT !.pending = @ \ {i}, !.stale = @ \cup {i}]
             new == [labels EXCEPT ![i] = s]
         IN  /\ m \in LabelsLocals
             /\ CallAt(label, m) /\ ReadsAt(label, m, new) /\ WalkAt(label, m, new)
<1> DEFINE m == [l EXCEPT !.pending = @ \ {i}, !.stale = @ \cup {i}]
           new == [labels EXCEPT ![i] = s]
<1>1. /\ m \in LabelsLocals
      /\ m.op = l.op /\ m.id = l.id /\ m.got = l.got /\ m.page = l.page /\ m.items = l.items
      /\ m.cursor = l.cursor /\ m.more = l.more
      /\ m.pending = l.pending \ {i} /\ m.stale = l.stale \cup {i} /\ m.ids = l.ids
  BY DEF LabelsLocals
<1>2. \A j \in Items \ {i} : new[j] = labels[j]
  OBVIOUS
<1> HIDE DEF m, new
<1>3. CallAt(label, m)
  BY <1>1 DEF CallAt
<1>4. ReadsAt(label, m, new)
  <2>1. \A k \in l.page : Order[k] \in Items
    BY DEF LabelsLocals, L!LabelsAssumption, L!Positions
  <2>2. label \in {"put", "save"} => l.id \in Items
    BY DEF CallAt
  <2> QED BY <1>1, <1>2, <2>1, <2>2 DEF ReadsAt
<1>5. WalkAt(label, m, new)
  <2>1. \A j \in m.pending : j \in l.pending /\ j \in Items \ {i}
    BY <1>1 DEF LabelsLocals
  <2>2. \A j \in m.pending : Owes(l, j, labels) => Owes(m, j, new)
    BY <1>1, <1>2, <2>1 DEF Owes
  <2>3. \A k \in L!Positions : AfterCursor(l, k) => AfterCursor(m, k)
    BY <1>1 DEF AfterCursor
  <2> QED BY <1>1, <2>1, <2>2, <2>3 DEF WalkAt
<1> QED BY <1>1, <1>3, <1>4, <1>5 DEF m, new

LEMMA LabelsStoreKeeps ==
  ASSUME L!LabelsAssumption, LabelsIInv, NEW t \in Tasks, NEW i \in Items, NEW s \in LabelSets,
         NEW label \in L!Steps,
         NEW l \in LabelsLocals,
         L!Store(t, i, s, label, l), missed' = missed,
         s = None => l.op = "delete",
         l.op \in L!Readers => "unread" \notin s,
         i \in read /\ i \notin l.stale /\ l.op \notin {"unread", "delete"} => "unread" \notin s,
         NEW m \in LabelsLocals, m = [l EXCEPT !.pending = @ \ {i}],
         label \notin L!Ended =>
            CallAt(label, m) /\ ReadsAt(label, m, labels') /\ WalkAt(label, m, labels')
  PROVE  LabelsIInv'
<1> DEFINE own == IF label \in L!Ended THEN L!Fresh ELSE m
           Missed(l0) == [l0 EXCEPT !.pending = @ \ {i}, !.stale = @ \cup {i}]
<1>1. labels' \in [Items -> LabelSets] /\ labels' = [labels EXCEPT ![i] = s]
  BY DEF LabelsIInv, L!Store
<1>2. /\ own \in LabelsLocals /\ CallAt(label, own)
      /\ ReadsAt(label, own, labels') /\ WalkAt(label, own, labels')
  BY LabelsFreshIsLocal, IdleKeeps
<1>3. lpc' \in [Tasks -> L!Steps] /\ lpc'[t] = label /\ \A u \in Tasks \ {t} : lpc'[u] = lpc[u]
  BY DEF LabelsIInv, L!Store
<1>4. \A u \in Tasks \ {t} :
         lloc'[u] = IF lpc[u] \in L!Ended \cup {"idle"} THEN lloc[u] ELSE Missed(lloc[u])
  BY DEF L!Store
<1>5. lloc'[t] = own
  BY DEF L!Store
<1> HIDE DEF own
<1>6. ASSUME NEW u \in Tasks
      PROVE  /\ lloc'[u] \in LabelsLocals
             /\ CallAt(lpc'[u], lloc'[u])
             /\ ReadsAt(lpc'[u], lloc'[u], labels')
             /\ WalkAt(lpc'[u], lloc'[u], labels')
  <2>0. /\ lpc[u] \in L!Steps /\ lloc[u] \in LabelsLocals
        /\ CallAt(lpc[u], lloc[u])
        /\ ReadsAt(lpc[u], lloc[u], labels) /\ WalkAt(lpc[u], lloc[u], labels)
        /\ labels \in [Items -> LabelSets]
    BY DEF LabelsIInv
  <2>1. CASE u = t
    BY <1>2, <1>3, <1>5, <2>1
  <2>2. CASE u # t /\ lpc[u] \in L!Ended \cup {"idle"}
    <3>1. lpc'[u] = lpc[u] /\ lloc'[u] = lloc[u]
      BY <1>3, <1>4, <2>2
    <3>2. ReadsAt(lpc[u], lloc[u], labels') /\ WalkAt(lpc[u], lloc[u], labels')
      BY <2>2 DEF ReadsAt, WalkAt, L!Ended
    <3> QED BY <2>0, <3>1, <3>2
  <2>3. CASE u # t /\ lpc[u] \notin L!Ended \cup {"idle"}
    <3>1. lpc'[u] = lpc[u] /\ lloc'[u] = Missed(lloc[u])
      BY <1>3, <1>4, <2>3
    <3> HIDE DEF LabelsLocals
    <3>2. /\ Missed(lloc[u]) \in LabelsLocals
          /\ CallAt(lpc[u], Missed(lloc[u]))
          /\ ReadsAt(lpc[u], Missed(lloc[u]), labels') /\ WalkAt(lpc[u], Missed(lloc[u]), labels')
      BY <1>1, <2>0, StaleKeeps, Zenon
    <3> QED BY <3>1, <3>2
  <2> QED BY <2>1, <2>2, <2>3
<1>7. lloc' \in [Tasks -> LabelsLocals]
  <2>1. lloc' = [u \in Tasks |-> lloc'[u]]
    BY DEF L!Store
  <2> QED BY <1>6, <2>1
<1>8. read' \in SUBSET Items /\ \A j \in read' : labels'[j] # None /\ "unread" \notin labels'[j]
  <2>1. \A j \in Items \ {i} : labels'[j] = labels[j]
    BY <1>1 DEF LabelsIInv
  <2>2. labels'[i] = s
    BY <1>1 DEF LabelsIInv
  <2>3. CASE l.op = "delete" \/ i \in l.stale \/ l.op = "unread"
    <3>1. read' = read \ {i}
      BY <2>3 DEF L!Store
    <3> QED BY <2>1, <3>1 DEF LabelsIInv
  <2>4. CASE ~(l.op = "delete" \/ i \in l.stale \/ l.op = "unread")
    <3>1. read' = IF l.op \in L!Readers THEN read \cup {i} ELSE read
      BY <2>4 DEF L!Store
    <3>2. s # None /\ (i \in read' => "unread" \notin s)
      BY <2>4, <3>1
    <3> QED BY <2>1, <2>2, <3>1, <3>2 DEF LabelsIInv
  <2> QED BY <2>3, <2>4
<1> QED BY <1>1, <1>3, <1>6, <1>7, <1>8 DEF LabelsIInv
-----------------------------------------------------------------------------
(* The calls of one item.                                                   *)

LEMMA LabelsStartStep ==
  ASSUME L!LabelsAssumption, LabelsIInv, NEW t \in Tasks,
         NEW call \in LabelsLocals, L!Start(t, call), Cardinality(call.page) <= PageLimit,
         call.op \in L!Ops, call.cursor = None, call.stale = {},
         call.op # "readMany" => call.ids = {},
         call.op \notin L!Walks \cup {"readMany"} => call.id \in Items,
         call.op \in L!Walks => call.pending = L!Owed(call.op)
  PROVE  LabelsIInv'
<1> DEFINE label == L!First(call.op)
<1>1. label \in L!Steps \ L!Ended
  BY DEF L!First, L!Steps, L!Ended
<1>2. CallAt(label, call) /\ ReadsAt(label, call, labels)
  BY DEF L!First, CallAt, ReadsAt, L!Ops, L!Edits, L!Walks
<1>3. WalkAt(label, call, labels)
  <2> SUFFICES ASSUME label \in {"query", "hydrate", "page"} PROVE WalkAt(label, call, labels)
    BY DEF WalkAt
  <2>1. label = "query" /\ call.op \in L!Walks
    BY DEF L!First
  <2>2. \A k \in L!Positions : AfterCursor(call, k)
    BY DEF AfterCursor, L!LabelsAssumption, L!Positions
  <2>3. \A i \in call.pending : Owes(call, i, labels)
    BY <2>1 DEF L!Owed, Owes, L!Matches, L!Stored
  <2> QED BY <2>1, <2>2, <2>3 DEF WalkAt
<1>4. L!Jump(t, label, call) /\ labels' = labels /\ missed' = {} /\ read' = read
  BY DEF L!Start, LabelsIInv
<1> HIDE DEF label
<1> QED BY <1>1, <1>2, <1>3, <1>4, LabelsJumpKeeps DEF LabelsIInv

LEMMA StartOneStep ==
  ASSUME L!LabelsAssumption, LabelsIInv, NEW t \in Tasks, L!StartOne(t)
  PROVE  LabelsIInv'
<1> PICK op \in L!Edits \cup {"deliver", "delete"}, i \in Items :
       L!Start(t, [L!Fresh EXCEPT !.op = op, !.id = i])
  BY DEF L!StartOne
<1> DEFINE call == [L!Fresh EXCEPT !.op = op, !.id = i]
<1>1. /\ call \in LabelsLocals /\ call.op = op /\ call.id = i /\ call.page = L!Fresh.page
      /\ call.cursor = None /\ call.stale = {} /\ call.ids = {}
  BY LabelsFreshIsLocal DEF L!Fresh, LabelsLocals, L!Ops
<1>2. op \in L!Ops /\ op \notin L!Walks
  BY DEF L!Ops, L!Edits, L!Walks
<1>3. L!Start(t, call)
  OBVIOUS
<1> HIDE DEF call
<1> QED BY <1>1, <1>2, <1>3, LabelsFreshIsLocal, LabelsStartStep

LEMMA StartManyStep ==
  ASSUME L!LabelsAssumption, LabelsIInv, NEW t \in Tasks, L!StartMany(t)
  PROVE  LabelsIInv'
<1> PICK ids \in SUBSET Items : L!Start(t, [L!Fresh EXCEPT !.op = "readMany", !.ids = ids])
  BY DEF L!StartMany
<1> DEFINE call == [L!Fresh EXCEPT !.op = "readMany", !.ids = ids]
<1>1. /\ call \in LabelsLocals /\ call.op = "readMany" /\ call.page = L!Fresh.page
      /\ call.cursor = None /\ call.stale = {}
  BY LabelsFreshIsLocal DEF L!Fresh, LabelsLocals, L!Ops
<1>2. call.op \in L!Ops /\ call.op \notin L!Walks
  BY <1>1 DEF L!Ops, L!Walks
<1>3. L!Start(t, call)
  OBVIOUS
<1> HIDE DEF call
<1> QED BY <1>1, <1>2, <1>3, LabelsFreshIsLocal, LabelsStartStep

LEMMA StartWalkStep ==
  ASSUME L!LabelsAssumption, LabelsIInv, NEW t \in Tasks, L!StartWalk(t)
  PROVE  LabelsIInv'
<1> PICK op \in L!Walks : L!Start(t, [L!Fresh EXCEPT !.op = op, !.pending = L!Owed(op)])
  BY DEF L!StartWalk
<1> DEFINE call == [L!Fresh EXCEPT !.op = op, !.pending = L!Owed(op)]
<1>1. L!Owed(op) \in SUBSET Items
  BY DEF L!Owed
<1>2. /\ call \in LabelsLocals /\ call.op = op /\ call.pending = L!Owed(op)
      /\ call.page = L!Fresh.page /\ call.cursor = None /\ call.stale = {} /\ call.ids = {}
  BY <1>1, LabelsFreshIsLocal DEF L!Fresh, LabelsLocals, L!Ops
<1>3. L!Start(t, call) /\ call.op \in L!Ops
  BY <1>2 DEF L!Ops
<1> HIDE DEF call
<1> QED BY <1>2, <1>3, LabelsFreshIsLocal, LabelsStartStep

LEMMA HooksStep ==
  ASSUME L!LabelsAssumption, LabelsIInv, NEW t \in Tasks, L!Hooks(t)
  PROVE  LabelsIInv'
<1>1. lloc[t] \in LabelsLocals /\ CallAt("hooks", lloc[t])
  BY DEF LabelsIInv, L!Hooks
<1>2. labels' = labels /\ missed' = {} /\ read' = read /\ read \in SUBSET Items
  BY DEF LabelsIInv, L!Hooks
<1>3. CASE L!Jump(t, "done", L!Fresh)
  BY <1>2, <1>3, LabelsJumpKeeps, LabelsFreshIsLocal DEF L!Ended, L!Steps
<1>4. ASSUME lloc[t].id \notin L!Stored, NEW s \in L!Delivered,
             L!Jump(t, "put", [lloc[t] EXCEPT !.got = s, !.stale = {}])
      PROVE  LabelsIInv'
  <2> DEFINE l == [lloc[t] EXCEPT !.got = s, !.stale = {}]
  <2>1. s \in SUBSET L!Marks
    BY DEF L!Delivered, L!Marks
  <2>2. /\ l \in LabelsLocals /\ l.op = lloc[t].op /\ l.id = lloc[t].id
        /\ l.page = lloc[t].page /\ l.ids = lloc[t].ids
    BY <1>1, <2>1 DEF LabelsLocals
  <2>3. L!Jump(t, "put", l)
    BY <1>4
  <2> HIDE DEF l
  <2>4. CallAt("put", l) /\ WalkAt("put", l, labels)
    BY <1>1, <2>2 DEF CallAt, WalkAt
  <2>5. ReadsAt("put", l, labels)
    BY <1>1, <1>4, <2>2 DEF CallAt, ReadsAt, L!Stored
  <2> QED BY <1>2, <2>2, <2>3, <2>4, <2>5, LabelsJumpKeeps DEF L!Ended, L!Steps
<1> QED BY <1>3, <1>4 DEF L!Hooks

LEMMA PutStep ==
  ASSUME L!LabelsAssumption, LabelsIInv, NEW t \in Tasks, L!Put(t)
  PROVE  LabelsIInv'
<1> DEFINE l == lloc[t]
           m == [l EXCEPT !.pending = @ \ {l.id}]
<1>1. l \in LabelsLocals /\ CallAt("put", l) /\ ReadsAt("put", l, labels)
  BY DEF LabelsIInv, L!Put
<1>2. l.op = "deliver" /\ l.id \in Items /\ l.got \in SUBSET L!Marks /\ m \in LabelsLocals
  BY <1>1 DEF CallAt, LabelsLocals
<1>3. l.id \in read => l.id \in l.stale
  BY <1>1 DEF ReadsAt, LabelsIInv
<1>4. L!Store(t, l.id, l.got, "done", l) /\ missed' = missed
  BY DEF L!Put
<1>5. l.got # None
  BY <1>2 DEF L!LabelsAssumption
<1>6. l.got \in LabelSets /\ "done" \in L!Steps /\ "done" \in L!Ended /\ l.op \notin L!Readers
  BY <1>2 DEF LabelSets, L!Steps, L!Ended, L!Readers
<1> HIDE DEF l
<1> QED BY <1>1, <1>2, <1>3, <1>4, <1>5, <1>6, LabelsStoreKeeps

LEMMA LabelsDeleteStep ==
  ASSUME L!LabelsAssumption, LabelsIInv, NEW t \in Tasks, L!Delete(t)
  PROVE  LabelsIInv'
<1> DEFINE l == lloc[t]
           m == [l EXCEPT !.pending = @ \ {l.id}]
<1>1. l \in LabelsLocals /\ CallAt("delete", l)
  BY DEF LabelsIInv, L!Delete
<1>2. l.op = "delete" /\ l.id \in Items /\ m \in LabelsLocals
  BY <1>1 DEF CallAt, LabelsLocals
<1>3. None \in LabelSets /\ "done" \in L!Steps /\ "done" \in L!Ended /\ l.op \notin L!Readers
  BY <1>2, Zenon DEF LabelSets, L!Steps, L!Ended, L!Readers
<1>4. CASE l.id \in L!Stored
  <2>1. L!Store(t, l.id, None, "done", l) /\ missed' = missed
    BY <1>4 DEF L!Delete
  <2> HIDE DEF l
  <2> QED BY <1>1, <1>2, <1>3, <2>1, LabelsStoreKeeps
<1>5. CASE l.id \notin L!Stored
  <2>1. L!Jump(t, "done", L!Fresh) /\ labels' = labels /\ missed' = {} /\ read' = read
    BY <1>5 DEF L!Delete, LabelsIInv
  <2> QED BY <1>3, <2>1, LabelsJumpKeeps, LabelsFreshIsLocal DEF LabelsIInv
<1> QED BY <1>4, <1>5

LEMMA LookStep ==
  ASSUME L!LabelsAssumption, LabelsIInv, NEW t \in Tasks, L!Look(t)
  PROVE  LabelsIInv'
<1>1. lloc[t] \in LabelsLocals /\ CallAt("look", lloc[t])
  BY DEF LabelsIInv, L!Look
<1>2. labels' = labels /\ missed' = {} /\ read' = read /\ read \in SUBSET Items
  BY DEF LabelsIInv, L!Look
<1>3. PICK label \in {"get", "done"} : L!Jump(t, label, lloc[t])
  BY DEF L!Look
<1>4. CallAt("get", lloc[t]) /\ ReadsAt("get", lloc[t], labels) /\ WalkAt("get", lloc[t], labels)
  BY <1>1 DEF CallAt, ReadsAt, WalkAt, L!Edits
<1>5. label \in L!Steps /\ (label \notin L!Ended => label = "get")
  BY DEF L!Steps, L!Ended
<1> QED BY <1>1, <1>2, <1>3, <1>4, <1>5, LabelsJumpKeeps

LEMMA NextIdStep ==
  ASSUME L!LabelsAssumption, LabelsIInv, NEW t \in Tasks, L!NextId(t)
  PROVE  LabelsIInv'
<1>1. lloc[t] \in LabelsLocals /\ CallAt("ids", lloc[t])
  BY DEF LabelsIInv, L!NextId
<1>2. labels' = labels /\ missed' = {} /\ read' = read /\ read \in SUBSET Items
  BY DEF LabelsIInv, L!NextId
<1>3. PICK i \in lloc[t].ids : L!Jump(t, "get", [lloc[t] EXCEPT !.id = i, !.ids = @ \ {i}])
  BY DEF L!NextId
<1> DEFINE l == [lloc[t] EXCEPT !.id = i, !.ids = @ \ {i}]
<1>4. l \in LabelsLocals /\ l.id \in Items /\ l.op = lloc[t].op /\ l.page = lloc[t].page
      /\ (lloc[t].ids = {} => l.ids = {})
  BY <1>1 DEF LabelsLocals
<1>5. L!Jump(t, "get", l)
  BY <1>3
<1> HIDE DEF l
<1>6. CallAt("get", l) /\ ReadsAt("get", l, labels) /\ WalkAt("get", l, labels)
  BY <1>1, <1>4 DEF CallAt, ReadsAt, WalkAt
<1>7. "get" \in L!Steps
  BY DEF L!Steps
<1> QED BY <1>2, <1>4, <1>5, <1>6, <1>7, LabelsJumpKeeps

LEMMA AfterItem ==
  ASSUME NEW l \in LabelsLocals, l.op \in L!Edits \cup {"readMany"},
         Cardinality(l.page) <= PageLimit,
         l.op # "readMany" => l.ids = {}
  PROVE  /\ L!After(l) \in L!Steps
         /\ L!After(l) \notin L!Ended =>
               /\ CallAt(L!After(l), l)
               /\ ReadsAt(L!After(l), l, labels') /\ WalkAt(L!After(l), l, labels')
  BY DEF L!After, L!Steps, L!Ended, CallAt, ReadsAt, WalkAt, LabelsLocals

LEMMA LabelsGetStep ==
  ASSUME L!LabelsAssumption, LabelsIInv, NEW t \in Tasks, L!Get(t)
  PROVE  LabelsIInv'
<1> DEFINE l == lloc[t]
<1>1. l \in LabelsLocals /\ CallAt("get", l)
  BY DEF LabelsIInv, L!Get
<1>2. l.op \in L!Edits \cup {"readMany"} /\ l.id \in Items /\ Cardinality(l.page) <= PageLimit
  BY <1>1 DEF CallAt
<1>3. labels' = labels /\ missed' = {} /\ read \in SUBSET Items
  BY DEF LabelsIInv, L!Get
<1>4. CASE l.id \in L!Stored /\ L!Writes(l.op, labels[l.id])
  <2> DEFINE m == [l EXCEPT !.got = labels[l.id], !.stale = @ \ {l.id}]
  <2>1. labels[l.id] \in SUBSET L!Marks
    BY <1>2, <1>4 DEF LabelsIInv, LabelSets, L!Stored
  <2>2. m \in LabelsLocals /\ m.op = l.op /\ m.id = l.id /\ m.page = l.page /\ m.ids = l.ids
           /\ m.got = labels[l.id]
    BY <1>1, <2>1 DEF LabelsLocals
  <2>3. L!Jump(t, "save", m) /\ read' = read
    BY <1>4 DEF L!Get
  <2> HIDE DEF m, l
  <2>4. CallAt("save", m) /\ ReadsAt("save", m, labels) /\ WalkAt("save", m, labels)
    BY <1>1, <2>2 DEF CallAt, ReadsAt, WalkAt
  <2> QED BY <1>3, <2>2, <2>3, <2>4, LabelsJumpKeeps DEF L!Steps
<1>5. CASE ~(l.id \in L!Stored /\ L!Writes(l.op, labels[l.id]))
  <2>1. L!Jump(t, L!After(l), l)
    BY <1>5 DEF L!Get
  <2>2. read' = IF l.id \in L!Stored /\ l.op \in L!Readers THEN read \cup {l.id} ELSE read
    BY <1>5 DEF L!Get
  <2>3. l.op \in L!Readers /\ l.id \in L!Stored => "unread" \notin labels[l.id] /\ labels[l.id] # None
    <3> SUFFICES ASSUME l.op \in L!Readers, l.id \in L!Stored
                 PROVE  "unread" \notin labels[l.id] /\ labels[l.id] # None
      OBVIOUS
    <3>1. L!Edited(l.op, labels[l.id]) = labels[l.id] /\ labels[l.id] \in SUBSET L!Marks
      BY <1>2, <1>5 DEF L!Writes, LabelsIInv, LabelSets, L!Stored
    <3> QED BY <1>2, <3>1, EditedLabels DEF L!Stored
  <2>4. L!After(l) \in L!Steps /\ (L!After(l) \notin L!Ended =>
            /\ CallAt(L!After(l), l)
            /\ ReadsAt(L!After(l), l, labels) /\ WalkAt(L!After(l), l, labels))
    BY <1>1, <1>2, <1>3, AfterItem DEF CallAt
  <2> HIDE DEF l
  <2>5. read' \in SUBSET Items
           /\ \A i \in read' : i \in read \/ (labels[i] # None /\ "unread" \notin labels[i])
    BY <1>2, <1>3, <2>2, <2>3
  <2> QED BY <1>1, <1>3, <2>1, <2>4, <2>5, LabelsJumpKeeps
<1> QED BY <1>4, <1>5

LEMMA LabelsSaveStep ==
  ASSUME L!LabelsAssumption, LabelsIInv, NEW t \in Tasks, L!Save(t)
  PROVE  LabelsIInv'
<1> DEFINE l == lloc[t]
           m == [l EXCEPT !.pending = @ \ {l.id}]
           s == L!Edited(l.op, l.got)
<1>1. l \in LabelsLocals /\ CallAt("save", l) /\ ReadsAt("save", l, labels)
  BY DEF LabelsIInv, L!Save
<1>2. /\ l.op \in L!Edits \cup {"readMany"} /\ l.id \in Items /\ Cardinality(l.page) <= PageLimit
      /\ l.op # "readMany" => l.ids = {}
  BY <1>1 DEF CallAt
<1>3. l.got \in SUBSET L!Marks
  BY <1>1 DEF LabelsLocals
<1>4. /\ s \in SUBSET L!Marks
      /\ l.op \in L!Readers => "unread" \notin s
      /\ l.op # "unread" /\ "unread" \notin l.got => "unread" \notin s
  BY <1>2, <1>3, EditedLabels
<1>5. m \in LabelsLocals /\ m.op = l.op /\ m.page = l.page /\ m.ids = l.ids
  BY <1>1 DEF LabelsLocals
<1>6. L!Store(t, l.id, s, L!After(l), l) /\ missed' = missed
  BY DEF L!Save
<1>7. L!After(l) \in L!Steps /\ (L!After(l) \notin L!Ended =>
          /\ CallAt(L!After(l), m)
          /\ ReadsAt(L!After(l), m, labels') /\ WalkAt(L!After(l), m, labels'))
  <2>1. L!After(m) = L!After(l)
    BY <1>5 DEF L!After
  <2> HIDE DEF m, l
  <2> QED BY <1>2, <1>5, <2>1, AfterItem
<1>8. l.id \in read /\ l.id \notin l.stale => "unread" \notin l.got
  BY <1>1 DEF ReadsAt, LabelsIInv
<1>9. s # None /\ s \in LabelSets
  BY <1>4 DEF L!LabelsAssumption, LabelSets
<1> HIDE DEF l, s
<1> QED BY <1>1, <1>2, <1>4, <1>5, <1>6, <1>7, <1>8, <1>9, LabelsStoreKeeps

-----------------------------------------------------------------------------
(* The walks.                                                               *)

LEMMA EachHasAPosition ==
  ASSUME L!LabelsAssumption, NEW i \in Items
  PROVE  \E k \in L!Positions : Order[k] = i
  BY DEF L!LabelsAssumption, L!Positions

LEMMA StartOfPage ==
  ASSUME L!LabelsAssumption, NEW cursor \in Items \cup {None}, NEW k \in L!Positions,
         \A j \in L!Positions : Order[j] = cursor => j < k
  PROVE  k \in L!StartIndex(cursor)..Len(Order)
<1>1. k \in Nat /\ k >= 1 /\ k <= Len(Order) /\ Len(Order) \in Nat
  BY DEF L!Positions, L!LabelsAssumption
<1>2. CASE cursor \in L!Stored
  <2>1. cursor \in Items
    BY <1>2 DEF L!Stored
  <2>2. \E j \in L!Positions : Order[j] = cursor
    BY <2>1, EachHasAPosition
  <2> DEFINE found == CHOOSE j \in L!Positions : Order[j] = cursor
  <2>3. found \in L!Positions /\ Order[found] = cursor
    BY <2>2
  <2>4. L!StartIndex(cursor) = 1 + found
    BY <1>2 DEF L!StartIndex
  <2> HIDE DEF found
  <2>5. found < k /\ found \in Nat
    BY <2>3 DEF L!Positions
  <2> QED BY <1>1, <2>4, <2>5
<1>3. CASE cursor \notin L!Stored
  BY <1>1, <1>3 DEF L!StartIndex
<1> QED BY <1>2, <1>3

\* A walk that ends here owes nothing.
LEMMA OverStep ==
  ASSUME L!LabelsAssumption, LabelsIInv, NEW t \in Tasks, L!Over(t, lloc[t]), lloc[t].pending = {},
         UNCHANGED <<labels, read>>
  PROVE  LabelsIInv'
<1>1. labels' = labels /\ missed' = {} /\ read' = read /\ read \in SUBSET Items
  BY DEF LabelsIInv, L!Over
<1>2. L!Jump(t, "done", L!Fresh)
  BY DEF L!Over
<1> QED BY <1>1, <1>2, LabelsJumpKeeps, LabelsFreshIsLocal DEF L!Ended, L!Steps

LEMMA LabelsQueryStep ==
  ASSUME L!LabelsAssumption, LabelsIInv, NEW t \in Tasks, L!Query(t)
  PROVE  LabelsIInv'
<1> DEFINE l == lloc[t]
           found == {k \in L!StartIndex(l.cursor)..Len(Order) : L!Matches(l.op, Order[k])}
<1>1. l \in LabelsLocals /\ CallAt("query", l) /\ WalkAt("query", l, labels)
  BY DEF LabelsIInv, L!Query
<1>2. labels' = labels /\ read' = read /\ read \in SUBSET Items
  BY DEF LabelsIInv, L!Query
<1>3. \A k \in L!Positions : Order[k] \in l.pending => k \in found
  <2> SUFFICES ASSUME NEW k \in L!Positions, Order[k] \in l.pending PROVE k \in found
    OBVIOUS
  <2>1. AfterCursor(l, k) /\ Owes(l, Order[k], labels)
    BY <1>1 DEF WalkAt
  <2>2. k \in L!StartIndex(l.cursor)..Len(Order)
    BY <1>1, <2>1, StartOfPage DEF AfterCursor, LabelsLocals
  <2>3. L!Matches(l.op, Order[k])
    BY <1>1, <2>1 DEF Owes, L!Matches, L!Stored, LabelsLocals
  <2> QED BY <2>2, <2>3
<1>4. CASE found = {} /\ L!Over(t, l)
  <2>1. \A i \in l.pending : \E k \in L!Positions : Order[k] = i
    BY <1>1, EachHasAPosition DEF LabelsLocals
  <2>2. l.pending = {}
    BY <1>3, <1>4, <2>1
  <2> QED BY <1>2, <1>4, <2>2, OverStep
<1>5. ASSUME NEW page \in SUBSET found, NEW last \in page, L!Page(page, found),
             \A k \in page : k <= last,
             L!Jump(t, "hydrate", [l EXCEPT !.page = page, !.more = page # found,
                                            !.cursor = Order[last]]),
             missed' = missed
      PROVE  LabelsIInv'
  <2> DEFINE m == [l EXCEPT !.page = page, !.more = page # found, !.cursor = Order[last]]
  <2>1. found \in SUBSET L!Positions
    <3>1. L!StartIndex(l.cursor) \in Nat \ {0}
      <4>1. CASE l.cursor \in L!Stored
        <5>1. \E j \in L!Positions : Order[j] = l.cursor
          BY <4>1, EachHasAPosition DEF L!Stored
        <5>2. (CHOOSE n \in L!Positions : Order[n] = l.cursor) \in L!Positions
          BY <5>1
        <5> QED BY <4>1, <5>2 DEF L!StartIndex, L!Positions
      <4>2. CASE l.cursor \notin L!Stored
        BY <4>2 DEF L!StartIndex
      <4> QED BY <4>1, <4>2
    <3> QED BY <3>1 DEF L!Positions, L!LabelsAssumption
  <2>2. page \in SUBSET L!Positions /\ last \in L!Positions
    BY <2>1
  <2>3. Order[last] \in Items
    BY <2>2 DEF L!Positions, L!LabelsAssumption
  <2>4. /\ m \in LabelsLocals /\ m.op = l.op /\ m.ids = l.ids /\ m.pending = l.pending
        /\ m.page = page /\ m.more = (page # found) /\ m.cursor = Order[last] /\ m.stale = l.stale
    BY <1>1, <2>2, <2>3 DEF LabelsLocals
  <2> HIDE DEF found
  <2>5. L!Jump(t, "hydrate", m)
    BY <1>5
  <2> HIDE DEF m, l
  <2>6. CallAt("hydrate", m) /\ ReadsAt("hydrate", m, labels)
    BY <1>1, <1>5, <2>4, SameCount DEF CallAt, ReadsAt, L!Page
  <2>7. \A i \in m.pending : Owes(m, i, labels)
    BY <1>1, <2>4 DEF WalkAt, Owes
  <2>8. ASSUME NEW k \in L!Positions, Order[k] \in m.pending, k \notin page
        PROVE  page # found /\ AfterCursor(m, k)
    <3>1. k \in found \ page
      BY <1>3, <2>4, <2>8
    <3>2. last < k
      BY <1>5, <3>1 DEF L!Page
    <3>3. \A j \in L!Positions : Order[j] = Order[last] => j = last
      BY <2>2 DEF L!LabelsAssumption, L!Positions
    <3> QED BY <2>4, <3>1, <3>2, <3>3 DEF AfterCursor
  <2>9. WalkAt("hydrate", m, labels)
    BY <2>4, <2>7, <2>8 DEF WalkAt
  <2> QED BY <1>2, <1>5, <2>4, <2>5, <2>6, <2>9, LabelsJumpKeeps DEF L!Steps, LabelsIInv
<1> QED BY <1>4, <1>5 DEF L!Query

LEMMA HydrateStep ==
  ASSUME L!LabelsAssumption, LabelsIInv, NEW t \in Tasks, L!Hydrate(t)
  PROVE  LabelsIInv'
<1> DEFINE l == lloc[t]
           items == [k \in l.page |-> labels[Order[k]]]
           m == [l EXCEPT !.items = items, !.stale = {}]
<1>1. l \in LabelsLocals /\ CallAt("hydrate", l) /\ WalkAt("hydrate", l, labels)
  BY DEF LabelsIInv, L!Hydrate
<1>2. labels' = labels /\ missed' = {} /\ read' = read /\ read \in SUBSET Items
  BY DEF LabelsIInv, L!Hydrate
<1>3. items \in ItemsRead
  <2>1. l.page \in SUBSET L!Positions
    BY <1>1 DEF LabelsLocals
  <2>2. \A k \in l.page : labels[Order[k]] \in LabelSets
    BY <2>1 DEF LabelsIInv, L!LabelsAssumption, L!Positions
  <2>3. items \in [l.page -> LabelSets]
    BY <2>2
  <2> QED BY <2>1, <2>3, Zenon DEF ItemsRead
<1>4. DOMAIN items = l.page /\ \A k \in l.page : items[k] = labels[Order[k]]
  OBVIOUS
<1>5. L!Jump(t, "page", m)
  BY DEF L!Hydrate
<1> HIDE DEF items
<1>6. /\ m \in LabelsLocals /\ m.op = l.op /\ m.ids = l.ids /\ m.pending = l.pending
      /\ m.page = l.page /\ m.more = l.more /\ m.cursor = l.cursor
      /\ m.stale = {} /\ m.items = items
  BY <1>1, <1>3 DEF LabelsLocals
<1> HIDE DEF l, m
<1>7. CallAt("page", m) /\ ReadsAt("page", m, labels)
  BY <1>1, <1>4, <1>6 DEF CallAt, ReadsAt
<1>8. WalkAt("page", m, labels)
  <2>1. \A i \in m.pending : Owes(l, i, labels) => Owes(m, i, labels)
    BY <1>6 DEF Owes
  <2>2. \A k \in L!Positions : AfterCursor(l, k) => AfterCursor(m, k)
    BY <1>6 DEF AfterCursor
  <2> QED BY <1>1, <1>6, <2>1, <2>2 DEF WalkAt
<1> QED BY <1>2, <1>5, <1>6, <1>7, <1>8, LabelsJumpKeeps DEF L!Steps

\* A page that an item leaves holds no more than it did.
LEMMA PageShrinks ==
  ASSUME L!LabelsAssumption, NEW page \in SUBSET L!Positions,
         Cardinality(page) <= PageLimit, NEW k \in page
  PROVE  Cardinality(page \ {k}) <= PageLimit
<1>1. IsFiniteSet(L!Positions)
  <2>1. Len(Order) \in Int /\ L!Positions = 1..Len(Order)
    BY DEF L!Positions, L!LabelsAssumption
  <2> QED BY <2>1, FS_Interval
<1>2. IsFiniteSet(page)
  BY <1>1, FS_Subset
<1>3. Cardinality(page \ {k}) = Cardinality(page) - 1 /\ Cardinality(page) \in Nat
  BY <1>2, FS_RemoveElement, FS_CardinalityType
<1> QED BY <1>3 DEF L!LabelsAssumption

LEMMA HandleItemStep ==
  ASSUME L!LabelsAssumption, LabelsIInv, NEW t \in Tasks, L!HandleItem(t)
  PROVE  LabelsIInv'
<1> DEFINE l == lloc[t]
           Rest(k) == [l EXCEPT !.page = @ \ {k}, !.items = [j \in l.page \ {k} |-> l.items[j]],
                                !.matched = @ + 1]
<1>1. /\ l \in LabelsLocals /\ CallAt("page", l) /\ ReadsAt("page", l, labels)
      /\ WalkAt("page", l, labels)
  BY DEF LabelsIInv, L!HandleItem
<1>2. missed' = missed /\ missed = {} /\ read \in SUBSET Items /\ labels \in [Items -> LabelSets]
  BY DEF LabelsIInv, L!HandleItem
<1>3. PICK k \in l.page :
         /\ l.items[k] # None
         /\ IF L!Writes(l.op, l.items[k])
            THEN L!Store(t, Order[k], L!Edited(l.op, l.items[k]), "page", Rest(k))
            ELSE L!Jump(t, "page", Rest(k)) /\ UNCHANGED <<labels, read>>
  BY DEF L!HandleItem
<1> DEFINE rest == Rest(k)
           items == [j \in l.page \ {k} |-> l.items[j]]
           i == Order[k]
<1>4. /\ l.page \in SUBSET L!Positions /\ k \in L!Positions /\ i \in Items
      /\ l.items \in [l.page -> LabelSets]
  <2>1. /\ l.page \in SUBSET L!Positions
        /\ \E at \in SUBSET L!Positions : l.items \in [at -> LabelSets]
    BY <1>1 DEF LabelsLocals, ItemsRead
  <2>2. DOMAIN l.items = l.page
    BY <1>1 DEF CallAt
  <2> QED BY <2>1, <2>2 DEF L!Positions, L!LabelsAssumption
<1>5. items \in ItemsRead
  <2>1. items \in [l.page \ {k} -> LabelSets] /\ l.page \ {k} \in SUBSET L!Positions
    BY <1>4
  <2> QED BY <2>1, Zenon DEF ItemsRead
<1>6. DOMAIN items = l.page \ {k} /\ \A j \in l.page \ {k} : items[j] = l.items[j]
  OBVIOUS
<1>7. rest = [l EXCEPT !.page = @ \ {k}, !.items = items, !.matched = @ + 1]
  OBVIOUS
<1> HIDE DEF items, Rest
<1>8. /\ rest \in LabelsLocals /\ rest.op = l.op /\ rest.ids = l.ids /\ rest.pending = l.pending
      /\ rest.page = l.page \ {k} /\ rest.more = l.more /\ rest.cursor = l.cursor
      /\ rest.stale = l.stale /\ rest.items = items
  <2>1. l \in LabelsLocals /\ l.matched + 1 \in Nat /\ l.page \ {k} \in SUBSET L!Positions
    BY <1>1 DEF LabelsLocals
  <2> HIDE DEF l, rest
  <2> QED BY <1>5, <1>7, <2>1 DEF LabelsLocals
<1>9. l.op \in L!Walks /\ Cardinality(rest.page) <= PageLimit /\ CallAt("page", rest)
  <2>1. l.op \in L!Walks /\ Cardinality(l.page) <= PageLimit
    BY <1>1 DEF CallAt
  <2>2. Cardinality(rest.page) <= PageLimit
    BY <1>4, <1>8, <2>1, PageShrinks
  <2> QED BY <1>1, <1>6, <1>8, <2>1, <2>2 DEF CallAt
<1>10. \A j \in L!Positions \ {k} : Order[j] \in Items \ {i}
  BY <1>4 DEF L!LabelsAssumption, L!Positions
<1>11. l.items[k] \in SUBSET L!Marks
  BY <1>3, <1>4 DEF LabelSets
<1>12. i \notin l.stale => l.items[k] = labels[i]
  BY <1>1 DEF ReadsAt
<1>13. \A j \in Items : Owes(l, j, labels) => Owes(rest, j, labels)
  BY <1>8 DEF Owes
<1>14. \A j \in L!Positions : AfterCursor(l, j) => AfterCursor(rest, j)
  BY <1>8 DEF AfterCursor
<1> HIDE DEF rest, l, i
<1>15. CASE L!Writes(l.op, l.items[k])
  <2> DEFINE s == L!Edited(l.op, l.items[k])
             m == [rest EXCEPT !.pending = @ \ {i}]
  <2>1. L!Store(t, i, s, "page", rest)
    BY <1>3, <1>15 DEF rest, i
  <2>2. /\ s \in SUBSET L!Marks
        /\ l.op \in L!Readers => "unread" \notin s
        /\ l.op # "unread" /\ "unread" \notin l.items[k] => "unread" \notin s
    BY <1>9, <1>11, EditedLabels
  <2>3. s # None /\ s \in LabelSets
    BY <2>2 DEF L!LabelsAssumption, LabelSets
  <2>4. /\ m \in LabelsLocals /\ m.op = rest.op /\ m.ids = rest.ids /\ m.pending = l.pending \ {i}
        /\ m.page = rest.page /\ m.more = rest.more /\ m.cursor = rest.cursor
        /\ m.stale = rest.stale /\ m.items = rest.items
        /\ m = [rest EXCEPT !.pending = @ \ {i}]
    BY <1>8 DEF LabelsLocals
  <2> HIDE DEF m, s
  <2>5. \A j \in Items \ {i} : labels'[j] = labels[j]
    BY <1>2, <2>1 DEF L!Store
  <2>6. CallAt("page", m)
    BY <1>9, <2>4 DEF CallAt
  <2>7. ReadsAt("page", m, labels')
    <3>1. ASSUME NEW j \in m.page, Order[j] \notin m.stale
          PROVE  m.items[j] = labels'[Order[j]]
      <4>1. j \in l.page /\ j # k /\ j \in L!Positions /\ Order[j] \in Items \ {i}
        BY <1>4, <1>8, <1>10, <2>4, <3>1
      <4>2. l.items[j] = labels[Order[j]]
        BY <1>1, <1>8, <2>4, <3>1, <4>1 DEF ReadsAt
      <4> QED BY <1>6, <1>8, <2>4, <2>5, <4>1, <4>2
    <3> QED BY <3>1 DEF ReadsAt
  <2>8. WalkAt("page", m, labels')
    <3>1. \A j \in m.pending : j \in l.pending /\ j \in Items \ {i}
      BY <1>1, <2>4 DEF LabelsLocals
    <3>2. \A j \in m.pending : Owes(m, j, labels')
      <4>1. \A j \in m.pending : Owes(l, j, labels)
        BY <1>1, <3>1 DEF WalkAt
      <4> QED BY <1>8, <2>4, <2>5, <3>1, <4>1 DEF Owes
    <3>3. ASSUME NEW j \in L!Positions, Order[j] \in m.pending
          PROVE  j \in m.page \/ (m.more /\ AfterCursor(m, j))
      <4>1. j # k /\ (j \in l.page \/ (l.more /\ AfterCursor(l, j)))
        BY <1>1, <3>1, <3>3 DEF WalkAt, i
      <4> QED BY <1>8, <2>4, <4>1 DEF AfterCursor
    <3> QED BY <3>2, <3>3 DEF WalkAt
  <2>9. i \in read /\ i \notin l.stale => "unread" \notin l.items[k]
    BY <1>12 DEF LabelsIInv
  <2>10. l.op \notin {"unread", "delete"}
    BY <1>9 DEF L!Walks
  <2> QED BY <1>2, <1>4, <1>8, <2>1, <2>2, <2>3, <2>4, <2>6, <2>7, <2>8, <2>9, <2>10,
             LabelsStoreKeeps DEF L!Steps, i
<1>16. CASE ~L!Writes(l.op, l.items[k])
  <2>1. L!Jump(t, "page", rest) /\ labels' = labels /\ read' = read
    BY <1>3, <1>16 DEF rest
  <2>2. i \notin l.pending
    <3> SUFFICES ASSUME i \in l.pending PROVE FALSE
      OBVIOUS
    <3>1. i \notin l.stale /\ L!Writes(l.op, labels[i])
      BY <1>1 DEF WalkAt, Owes
    <3> QED BY <1>12, <1>16, <3>1
  <2>3. ReadsAt("page", rest, labels)
    BY <1>1, <1>6, <1>8 DEF ReadsAt
  <2>4. WalkAt("page", rest, labels)
    <3>1. \A j \in l.pending : Owes(rest, j, labels)
      BY <1>1, <1>13 DEF WalkAt, LabelsLocals
    <3>2. \A j \in L!Positions : Order[j] \in l.pending => j # k
      BY <2>2 DEF i
    <3> QED BY <1>1, <1>8, <1>14, <3>1, <3>2 DEF WalkAt
  <2> QED BY <1>2, <1>8, <1>9, <2>1, <2>3, <2>4, LabelsJumpKeeps DEF L!Steps
<1> QED BY <1>15, <1>16

LEMMA NullItemStep ==
  ASSUME L!LabelsAssumption, LabelsIInv, NEW t \in Tasks, L!NullItem(t) \/ L!Fail(t)
  PROVE  LabelsIInv'
<1>1. /\ L!Jump(t, "failed", L!Fresh) /\ labels' = labels /\ missed' = {}
      /\ read' = read /\ read \in SUBSET Items
  BY DEF L!NullItem, L!Fail, LabelsIInv
<1> QED BY <1>1, LabelsJumpKeeps, LabelsFreshIsLocal DEF L!Ended, L!Steps

LEMMA NextPageStep ==
  ASSUME L!LabelsAssumption, LabelsIInv, NEW t \in Tasks, L!NextPage(t)
  PROVE  LabelsIInv'
<1> DEFINE l == lloc[t]
<1>1. /\ l \in LabelsLocals /\ CallAt("page", l) /\ ReadsAt("page", l, labels)
      /\ WalkAt("page", l, labels)
  BY DEF LabelsIInv, L!NextPage
<1>2. labels' = labels /\ missed = {} /\ read' = read /\ read \in SUBSET Items
  BY DEF LabelsIInv, L!NextPage
<1>3. CASE L!Jump(t, "done", L!Fresh) /\ missed' = missed
  BY <1>2, <1>3, LabelsJumpKeeps, LabelsFreshIsLocal DEF L!Ended, L!Steps
<1>4. CASE l.page = {} /\ l.more /\ L!Jump(t, "query", l) /\ missed' = missed
  <2>1. CallAt("query", l) /\ ReadsAt("query", l, labels)
    BY <1>1 DEF CallAt, ReadsAt
  <2>2. WalkAt("query", l, labels)
    BY <1>1, <1>4 DEF WalkAt
  <2> HIDE DEF l
  <2> QED BY <1>1, <1>2, <1>4, <2>1, <2>2, LabelsJumpKeeps DEF L!Steps
<1>5. CASE l.page = {} /\ ~l.more /\ L!Over(t, l)
  <2>1. \A k \in L!Positions : Order[k] \notin l.pending
    BY <1>1, <1>5 DEF WalkAt
  <2>2. l.pending = {}
    BY <1>1, <2>1, EachHasAPosition DEF LabelsLocals
  <2> QED BY <1>2, <1>5, <2>2, OverStep
<1> QED BY <1>1, <1>3, <1>4, <1>5 DEF L!NextPage, LabelsLocals


-----------------------------------------------------------------------------
(* The theorems of the labels.                                              *)

LEMMA LabelsInitEstablishes == ASSUME L!LabelsAssumption, L!Init PROVE LabelsIInv
<1>1. "idle" \in L!Steps
  BY DEF L!Steps
<1>2. /\ CallAt("idle", L!Fresh)
      /\ ReadsAt("idle", L!Fresh, labels)
      /\ WalkAt("idle", L!Fresh, labels)
  BY LabelsFreshIsLocal DEF CallAt, ReadsAt, WalkAt
<1>3. \A t \in Tasks : lpc[t] = "idle" /\ lloc[t] = L!Fresh
  BY DEF L!Init
<1> QED BY <1>1, <1>2, <1>3, LabelsFreshIsLocal DEF L!Init, LabelsIInv, LabelSets

LEMMA LabelsNextPreserves ==
  ASSUME L!LabelsAssumption, LabelsIInv, [L!Next]_(L!vars) PROVE LabelsIInv'
<1>1. CASE UNCHANGED L!vars
  BY <1>1 DEF LabelsIInv, L!vars
<1>2. CASE L!Next
  <2>1. PICK t \in Tasks :
           \/ L!StartOne(t) \/ L!StartMany(t) \/ L!StartWalk(t)
           \/ L!Hooks(t) \/ L!Put(t) \/ L!Delete(t) \/ L!Look(t) \/ L!NextId(t) \/ L!Get(t)
           \/ L!Save(t) \/ L!Query(t) \/ L!Hydrate(t) \/ L!HandleItem(t) \/ L!NullItem(t)
           \/ L!NextPage(t) \/ L!Fail(t)
    BY <1>2, Zenon DEF L!Next
  <2> QED BY <2>1, StartOneStep, StartManyStep, StartWalkStep, HooksStep, PutStep,
             LabelsDeleteStep, LookStep, NextIdStep, LabelsGetStep, LabelsSaveStep,
             LabelsQueryStep, HydrateStep, HandleItemStep, NullItemStep, NextPageStep, Zenon
<1> QED BY <1>1, <1>2

LEMMA LabelsInductive == L!LabelsAssumption => (L!Spec => []LabelsIInv)
<1> SUFFICES ASSUME L!LabelsAssumption PROVE L!Spec => []LabelsIInv
  OBVIOUS
<1>1. L!Init => LabelsIInv
  BY LabelsInitEstablishes
<1>2. LabelsIInv /\ [L!Next]_(L!vars) => LabelsIInv'
  BY LabelsNextPreserves
<1> QED BY <1>1, <1>2, PTL DEF L!Spec

\* The labels of the items and the local variables of the calls keep their
\* types: a page of a walk holds no more items than the limit.
THEOREM LabelsTypeCorrect == L!LabelsAssumption => (L!Spec => []L!LabelsTypeOK)
<1>1. LabelsIInv => L!LabelsTypeOK
  <2> SUFFICES ASSUME LabelsIInv PROVE L!LabelsTypeOK
    OBVIOUS
  <2>1. ASSUME NEW t \in Tasks
        PROVE  /\ lloc[t] \in LabelsLocals /\ lloc[t].page \in SUBSET L!Positions
               /\ Cardinality(lloc[t].page) <= PageLimit
               /\ \E at \in SUBSET L!Positions : lloc[t].items \in [at -> LabelSets]
               /\ lpc[t] = "page" => DOMAIN lloc[t].items = lloc[t].page
    <3>1. lloc[t] \in LabelsLocals /\ CallAt(lpc[t], lloc[t])
      BY DEF LabelsIInv
    <3>2. lloc[t].items \in ItemsRead /\ lloc[t].page \in SUBSET L!Positions
      BY <3>1 DEF LabelsLocals
    <3>3. \E at \in SUBSET L!Positions : lloc[t].items \in [at -> LabelSets]
      BY <3>2, Zenon DEF ItemsRead
    <3> QED BY <3>1, <3>2, <3>3 DEF CallAt
  <2> QED BY <2>1, SameCount DEF LabelsIInv, L!LabelsTypeOK, LabelsLocals, LabelSets
<1> QED BY <1>1, LabelsInductive, PTL

\* runUnreadSweep, the read-all route and applyRetroactive: a walk that ends
\* well, below its cap, has handled every item that matched when it began and
\* that nobody else wrote meanwhile, whatever is delivered, edited or deleted.
THEOREM WalksAreComplete == L!LabelsAssumption => (L!Spec => []SweepsAreComplete)
<1>1. LabelsIInv => SweepsAreComplete
  BY DEF LabelsIInv, SweepsAreComplete
<1> QED BY <1>1, LabelsInductive, PTL

\* Deliveries, edits and walks: what was marked read becomes unread only when
\* it is asked for, when the item is deleted, or by a write of a stale read.
THEOREM ReadItemsStayRead == L!LabelsAssumption => (L!Spec => []ReadStaysRead)
<1>1. LabelsIInv => ReadStaysRead
  BY DEF LabelsIInv, ReadStaysRead
<1> QED BY <1>1, LabelsInductive, PTL
=============================================================================
