------------------------------ MODULE Episodic ------------------------------
(***************************************************************************)
(* EpisodicStore of src/episodic/store.ts: episodes and sequences in one   *)
(* Smallstore, and the lock per episode that boost takes.                  *)
(*                                                                         *)
(* A step is one read or write of a record; listing the episodes is one    *)
(* step.  Of an episode only the recall count and the sequence are kept:   *)
(* which episodes a query finds or have decayed, a matter of time and      *)
(* importance, is a free choice.  Each task makes one call.                *)
(***************************************************************************)
EXTENDS RecordCalls, Naturals

CONSTANTS
    Ids,             \* episodes
    Seqs,            \* sequences
    MaxRecalls       \* bound: boosts of an episode

EpisodicAssumption == MaxRecalls \in Nat /\ None \notin Tasks \cup Ids \cup Seqs

VARIABLES
    autoBoost,       \* autoBoostOnRecall
    episodes,        \* the stored episodes: [recalled, sequence], or None
    sequences,       \* the stored sequences
    keyLocks,        \* the task that holds the lock of an episode, or None
    epc, eloc,       \* where each call is, and its local variables
    boosted,         \* history: boosts of each episode since it was remembered
    mixed,           \* history: episodes with a write from a stale read
    torn             \* history: sequences deleted while in use or with their members
                     \* left, and names given to an episode that nothing had

stores == <<autoBoost, episodes, sequences, keyLocks>>
vars == <<stores, epc, eloc, boosted, mixed, torn>>

-----------------------------------------------------------------------------
Episode == [recalled : 0..MaxRecalls, sequence : Seqs \cup {None}]
Stored == {i \in Ids : episodes[i] # None}
Members(s) == {i \in Stored : episodes[i].sequence = s}

Ops == {"remember", "recall", "boost", "forget", "update", "regroup", "join", "create",
        "disband", "decay", "clearAll"}
Labels == {"idle", "put", "find", "next", "lock", "read", "write", "delete", "load", "save",
           "getEpisode", "getSequence", "setSequence", "create", "members", "deleteSequence",
           "judge", "clearEpisodes", "clearSequences", "done", "failed"}
Ended == {"done", "failed"}
Fresh == [op |-> "none", id |-> None, seq |-> None, todo |-> {}, keep |-> FALSE,
          read |-> None, stale |-> FALSE]

EpisodicTypeOK ==
    /\ autoBoost \in BOOLEAN
    /\ episodes \in [Ids -> Episode \cup {None}]
    /\ sequences \subseteq Seqs
    /\ keyLocks \in [Ids -> Tasks \cup {None}]
    /\ epc \in [Tasks -> Labels]
    /\ eloc \in [Tasks -> [op : Ops \cup {"none"}, id : Ids \cup {None},
                          seq : Seqs \cup {None}, todo : SUBSET Ids, keep : BOOLEAN,
                          read : Episode \cup {None}, stale : BOOLEAN]]
    /\ boosted \in [Ids -> 0..MaxRecalls]
    /\ mixed \subseteq Ids
    /\ torn \subseteq Seqs

Init ==
    /\ autoBoost \in BOOLEAN
    /\ sequences \in SUBSET Seqs
    /\ episodes \in [Ids -> [recalled : {0}, sequence : sequences \cup {None}] \cup {None}]
    /\ keyLocks = [i \in Ids |-> None]
    /\ epc = [t \in Tasks |-> "idle"]
    /\ eloc = [t \in Tasks |-> Fresh]
    /\ boosted = [i \in Ids |-> 0]
    /\ mixed = {} /\ torn = {}

-----------------------------------------------------------------------------
Jump(t, label, locals) ==
    /\ epc' = [epc EXCEPT ![t] = label]
    /\ eloc' = [eloc EXCEPT ![t] = IF label \in Ended THEN Fresh ELSE locals]
Goto(t, label) == Jump(t, label, eloc[t])

\* A call that goes on with the next of several episodes.
Then(t) == IF eloc[t].todo = {} THEN "done" ELSE "next"

\* A write that takes no lock: a boost that has read the episode does not see it.
Write(t, ids, new, label) ==
    /\ episodes' = [i \in Ids |-> IF i \in ids THEN new ELSE episodes[i]]
    /\ epc' = [epc EXCEPT ![t] = label]
    /\ eloc' = [u \in Tasks |->
                 IF u = t THEN IF label \in Ended THEN Fresh ELSE eloc[t]
                 ELSE IF eloc[u].id \in ids THEN [eloc[u] EXCEPT !.stale = TRUE]
                 ELSE eloc[u]]

First(op) ==
    CASE op = "remember" -> "put"
      [] op = "recall" -> "find"
      [] op = "boost" -> "lock"
      [] op = "forget" -> "delete"
      [] op \in {"update", "regroup"} -> "load"
      [] op = "join" -> "getEpisode"
      [] op = "create" -> "create"
      [] op = "disband" -> "members"
      [] op = "decay" -> "judge"
      [] op = "clearAll" -> "clearEpisodes"

Call(o, i, s) == [Fresh EXCEPT !.op = o, !.id = i, !.seq = s]
Disband(s, k) == [Call("disband", None, s) EXCEPT !.keep = k]

\* remember and updateEpisode take any name of a sequence, or none: regroup is
\* an update with a sequence, update one without.  A new sequence has a new id.
CallsOf(t) ==
    {Call(o, i, None) : o \in {"boost", "forget", "update"}, i \in Ids}
    \cup {Call(o, i, s) : o \in {"remember", "regroup"}, i \in Ids, s \in Seqs \cup {None}}
    \cup {Call("join", i, s) : i \in Ids, s \in Seqs}
    \cup {Call("create", None, s) : s \in Seqs \ (sequences \cup torn)}
    \cup {Disband(s, k) : s \in Seqs, k \in BOOLEAN}
    \cup {Call(o, None, None) : o \in {"recall", "decay", "clearAll"}}

Uses(call, s) == call.op \in {"remember", "regroup", "join"} /\ call.seq = s
Drops(call, s) == call.op = "clearAll" \/ (call.op = "disband" /\ call.seq = s)

Start(t, call) ==
    /\ epc[t] = "idle"
    /\ Jump(t, First(call.op), call)
    /\ torn' = torn \cup
          {s \in Seqs : \/ call.op = "disband" /\ call.seq = s /\ call.keep
                        \/ Uses(call, s) /\ call.op # "join" /\ s \notin sequences
                        \/ \E u \in Tasks : \/ Uses(call, s) /\ Drops(eloc[u], s)
                                            \/ Uses(eloc[u], s) /\ Drops(call, s)}
    /\ UNCHANGED <<stores, boosted, mixed>>

-----------------------------------------------------------------------------
Remember(t) ==
    LET l == eloc[t] IN
    /\ epc[t] = "put"
    /\ Write(t, {l.id}, [recalled |-> 0, sequence |-> l.seq], "done")
    /\ boosted' = [boosted EXCEPT ![l.id] = 0]
    /\ mixed' = mixed \ {l.id}
    /\ UNCHANGED <<autoBoost, sequences, keyLocks, torn>>

\* forget; deleting what is not there is harmless.
Forget(t) ==
    /\ epc[t] = "delete"
    /\ Write(t, {eloc[t].id}, None, Then(t))
    /\ UNCHANGED <<autoBoost, sequences, keyLocks, boosted, mixed, torn>>

\* recall: the episodes that match are boosted one after the other.
Recall(t) ==
    /\ epc[t] = "find"
    /\ \E found \in SUBSET Stored :
          IF autoBoost /\ found # {} THEN Jump(t, "next", [eloc[t] EXCEPT !.todo = found])
                                     ELSE Goto(t, "done")
    /\ UNCHANGED <<stores, boosted, mixed, torn>>

\* applyDecay judges all episodes and then deletes the decayed ones.
Judge(t) ==
    /\ epc[t] = "judge"
    /\ \E decayed \in SUBSET Stored :
          IF decayed # {} THEN Jump(t, "next", [eloc[t] EXCEPT !.todo = decayed])
                          ELSE Goto(t, "done")
    /\ UNCHANGED <<stores, boosted, mixed, torn>>

NextEpisode(t) ==
    LET l == eloc[t] IN
    /\ epc[t] = "next"
    /\ \E i \in l.todo :
          Jump(t, CASE l.op = "recall" -> "lock" [] l.op = "decay" -> "delete"
                    [] l.op = "disband" -> "load",
               [l EXCEPT !.id = i, !.todo = @ \ {i}, !.read = None, !.stale = FALSE])
    /\ UNCHANGED <<stores, boosted, mixed, torn>>

(* boost: the episode is read and written back under its lock.             *)

\* Mutant: nobody waits for the lock.
LockAnyway(t) ==
    /\ epc[t] = "lock"
    /\ keyLocks' = [keyLocks EXCEPT ![eloc[t].id] = t]
    /\ Goto(t, "read")
    /\ UNCHANGED <<autoBoost, episodes, sequences, boosted, mixed, torn>>

Lock(t) ==
    /\ epc[t] = "lock" /\ keyLocks[eloc[t].id] = None
    /\ keyLocks' = [keyLocks EXCEPT ![eloc[t].id] = t]
    /\ Goto(t, "read")
    /\ UNCHANGED <<autoBoost, episodes, sequences, boosted, mixed, torn>>

Release(t) == keyLocks' = [keyLocks EXCEPT ![eloc[t].id] = None]

BoostRead(t) ==
    LET l == eloc[t] IN
    /\ epc[t] = "read"
    /\ IF l.id \in Stored
       THEN /\ Jump(t, "write", [l EXCEPT !.read = episodes[l.id], !.stale = FALSE])
            /\ UNCHANGED keyLocks
       ELSE Goto(t, Then(t)) /\ Release(t)
    /\ UNCHANGED <<autoBoost, episodes, sequences, boosted, mixed, torn>>

BoostWrite(t) ==
    LET l == eloc[t] IN
    /\ epc[t] = "write"
    /\ l.read.recalled < MaxRecalls /\ boosted[l.id] < MaxRecalls
    /\ episodes' = [episodes EXCEPT ![l.id] = [l.read EXCEPT !.recalled = @ + 1]]
    /\ boosted' = [boosted EXCEPT ![l.id] = @ + 1]
    /\ mixed' = IF l.stale THEN mixed \cup {l.id} ELSE mixed
    /\ Goto(t, Then(t)) /\ Release(t)
    /\ UNCHANGED <<autoBoost, sequences, torn>>

(* updateEpisode, also inside addToSequence and deleteSequence: no lock.   *)

NewSequence(l) ==
    CASE l.op \in {"join", "regroup"} -> l.seq
      [] l.op = "disband" -> None
      [] OTHER -> l.read.sequence

AfterUpdate(t) ==
    CASE eloc[t].op = "join" -> "setSequence"
      [] eloc[t].op = "disband" /\ eloc[t].todo = {} -> "deleteSequence"
      [] eloc[t].op = "disband" /\ eloc[t].todo # {} -> "next"
      [] OTHER -> "done"

Load(t) ==
    LET l == eloc[t] IN
    /\ epc[t] = "load"
    /\ IF l.id \in Stored THEN Jump(t, "save", [l EXCEPT !.read = episodes[l.id]])
                          ELSE Goto(t, AfterUpdate(t))
    /\ UNCHANGED <<stores, boosted, mixed, torn>>

Save(t) ==
    LET l == eloc[t] IN
    /\ epc[t] = "save"
    /\ Write(t, {l.id}, [l.read EXCEPT !.sequence = NewSequence(l)], AfterUpdate(t))
    /\ mixed' = IF episodes[l.id] # l.read THEN mixed \cup {l.id} ELSE mixed
    /\ UNCHANGED <<autoBoost, sequences, keyLocks, boosted, torn>>

(* addToSequence: both must exist; the sequence record is written again.   *)

GetEpisode(t) ==
    /\ epc[t] = "getEpisode"
    /\ Goto(t, IF eloc[t].id \in Stored THEN "getSequence" ELSE "failed")
    /\ UNCHANGED <<stores, boosted, mixed, torn>>

GetSequence(t) ==
    /\ epc[t] = "getSequence"
    /\ Goto(t, IF eloc[t].seq \in sequences THEN "load" ELSE "failed")
    /\ UNCHANGED <<stores, boosted, mixed, torn>>

PutSequence(t) ==
    /\ epc[t] \in {"create", "setSequence"}
    /\ sequences' = sequences \cup {eloc[t].seq}
    /\ Goto(t, "done")
    /\ UNCHANGED <<autoBoost, episodes, keyLocks, boosted, mixed, torn>>

(* deleteSequence: first its members, unless they are to keep it.          *)

\* Mutant: the members keep the sequence.
MembersNone(t) ==
    /\ epc[t] = "members"
    /\ Goto(t, "deleteSequence")
    /\ UNCHANGED <<stores, boosted, mixed, torn>>

ListMembers(t) ==
    LET l == eloc[t] IN
    /\ epc[t] = "members"
    /\ IF l.keep \/ Members(l.seq) = {} THEN Goto(t, "deleteSequence")
       ELSE Jump(t, "next", [l EXCEPT !.todo = Members(l.seq)])
    /\ UNCHANGED <<stores, boosted, mixed, torn>>

DeleteSequence(t) ==
    /\ epc[t] = "deleteSequence"
    /\ sequences' = sequences \ {eloc[t].seq}
    /\ Goto(t, "done")
    /\ UNCHANGED <<autoBoost, episodes, keyLocks, boosted, mixed, torn>>

ClearAll(t) ==
    /\ \/ /\ epc[t] = "clearEpisodes"
          /\ Write(t, Ids, None, "clearSequences")
          /\ UNCHANGED sequences
       \/ /\ epc[t] = "clearSequences" /\ sequences' = {} /\ Goto(t, "done")
          /\ UNCHANGED episodes
    /\ UNCHANGED <<autoBoost, keyLocks, boosted, mixed, torn>>

\* Mutant: only a boost that succeeds releases the lock.
FailLocked(t) ==
    /\ epc[t] \notin Ended \cup {"idle", "next", "lock"}
    /\ Goto(t, "failed")
    /\ UNCHANGED <<stores, boosted, mixed, torn>>

\* A read or a write throws; withKeyLock releases the lock all the same.
Fail(t) ==
    /\ epc[t] \notin Ended \cup {"idle", "next", "lock"}
    /\ Goto(t, "failed")
    /\ IF epc[t] \in {"read", "write"} THEN Release(t) ELSE UNCHANGED keyLocks
    /\ UNCHANGED <<autoBoost, episodes, sequences, boosted, mixed, torn>>

Step(t) ==
    \/ Remember(t) \/ Forget(t) \/ Recall(t) \/ Judge(t) \/ NextEpisode(t)
    \/ Lock(t) \/ BoostRead(t) \/ BoostWrite(t)
    \/ Load(t) \/ Save(t) \/ GetEpisode(t) \/ GetSequence(t) \/ PutSequence(t)
    \/ ListMembers(t) \/ DeleteSequence(t) \/ ClearAll(t)

Next == \E t \in Tasks : (\E call \in CallsOf(t) : Start(t, call)) \/ Step(t) \/ Fail(t)

Spec == Init /\ [][Next]_vars

\* Reads and writes of the store end.
Fairness == \A t \in Tasks : WF_vars(Step(t))

-----------------------------------------------------------------------------
(* BoostsCounted: whatever boosts and recalls run at once, the recall count *)
(* of an episode is the number of boosts it had since it was remembered,    *)
(* unless a write that takes no lock came between the read and the write    *)
(* of another (withKeyLock, store.ts:82).                                   *)
BoostsCounted ==
    \A i \in Stored \ mixed : episodes[i].recalled = boosted[i]

(* SequencesStand: an episode names a sequence that exists, also while a    *)
(* deleteSequence runs, unless the sequence was given to episodes while it  *)
(* was deleted, was deleted without asking its members (store.ts:385), or   *)
(* did not exist when a caller named it: remember and updateEpisode look up *)
(* no name (store.ts:141, 264).                                             *)
SequencesStand ==
    \A i \in Stored \ mixed :
        episodes[i].sequence \in sequences \cup torn \cup {None}

(* NobodyWaits: no task waits for the lock of an episode.  It holds again   *)
(* and again, whatever the holders before did (store.ts:89): each task      *)
(* makes one call, so no boost waits for ever.                              *)
NobodyWaits == \A t \in Tasks : epc[t] # "lock"
=============================================================================
