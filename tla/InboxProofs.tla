---------------------------- MODULE InboxProofs ----------------------------
(* The inbox for any number of calls, ids and crashes: its safety          *)
(* invariants, from one inductive invariant.                               *)
EXTENDS Inbox, Naturals, TLAPS

\* Calls that clash and overlap have exposed what they may damage.
Exposure ==
    \A t, u \in LiveTasks :
        t # u /\ Clash(Op(t), Op(u)) => Damaged(Op(t), Id(t), u) \subseteq exposed

\* Each label belongs to the code of one operation, or of two.
OpOfLabel ==
    \A t \in LiveTasks :
        /\ pc[t] \in {"probe", "blobs", "mark", "put"} => Ingesting(t)
        /\ pc[t] \in {"queued", "indexSet", "unmark"} =>
               Ingesting(t) \/ Op(t) = "recover"
        /\ pc[t] \in {"readFields", "putFields"} => Op(t) = "fields"
        /\ pc[t] \in {"loadIndex", "readItem", "dropBlobs", "dropItem", "saveIndex"}
               => Op(t) = "delete"
        /\ pc[t] \in {"list", "marker", "lookItem", "lookIndex"}
               => Op(t) = "recover"

\* The chain holds the calls that wait or write, each once, the writer first.
ChainOrder ==
    /\ \A i, j \in 1..Len(chain) : chain[i] = chain[j] => i = j
    /\ \A t \in Tasks : pc[t] \in {"queued", "indexSet"} =>
           \E i \in 1..Len(chain) : chain[i] = t
    /\ \A i \in 1..Len(chain) :
           /\ pc[chain[i]] \in {"queued", "indexSet"}
           /\ pc[chain[i]] = "indexSet" => i = 1

\* A copy of the index that will be written back is up to date.
CopiesFresh ==
    \A t \in Tasks :
        pc[t] \in {"indexSet", "readItem", "dropBlobs", "dropItem", "saveIndex"} =>
            snap[t] \ exposed = index \ exposed

\* What an ingest has done when it comes to each step.
IngestProgress ==
    \A t \in LiveTasks : Ingesting(t) /\ Id(t) \notin exposed =>
        /\ pc[t] \in {"mark", "put", "queued", "indexSet", "unmark"} => Id(t) \in blobs
        /\ pc[t] = "put" => Id(t) \in pending \cup index
        /\ pc[t] \in {"queued", "indexSet", "unmark"} => Id(t) \in items
        /\ pc[t] = "unmark" => Id(t) \in index

RecoverProgress ==
    \A t \in LiveTasks : Op(t) = "recover" /\ Id(t) \notin exposed =>
        /\ pc[t] \in {"lookIndex", "queued", "indexSet"} => Id(t) \in items
        /\ pc[t] = "unmark" => Id(t) \in index \/ Id(t) \notin items

FieldsProgress ==
    \A t \in LiveTasks : pc[t] = "putFields" => Id(t) \in items \cup exposed

DeleteProgress ==
    \A t \in LiveTasks :
        pc[t] = "saveIndex" /\ Id(t) \notin exposed => Id(t) \notin items

Deleting(i) == \E t \in LiveTasks : Op(t) = "delete" /\ Id(t) = i

\* A stored item has its blobs, unless a delete is about to remove it.
BlobsStored ==
    \A i \in items \ exposed :
        i \in blobs \/ \E t \in LiveTasks : pc[t] = "dropItem" /\ Id(t) = i

AckedStored ==
    \A i \in acked \ exposed : i \in items /\ ~Deleting(i)

IInv ==
    /\ TypeOK
    /\ Exposure /\ OpOfLabel /\ ChainOrder /\ CopiesFresh
    /\ IngestProgress /\ RecoverProgress /\ FieldsProgress /\ DeleteProgress
    /\ Recoverable /\ ListedIsStored /\ BlobsStored /\ AckedStored

-----------------------------------------------------------------------------
(* What the steps have in common.                                          *)

LEMMA SomeIdIsId == SomeId \in Ids
  BY InboxAssumption DEF SomeId

\* A step of t leaves the other calls alone, and t its request until it ends.
Frame(t) ==
    /\ pc' \in [Tasks -> PCs]
    /\ req' \in [Tasks -> [op : AllOps, id : Ids]]
    /\ \A u \in Tasks : u # t => pc'[u] = pc[u] /\ req'[u] = req[u]
    /\ pc'[t] = "ended" \/ req'[t] = req[t]

LEMMA GotoFrame ==
  ASSUME TypeOK, NEW t \in Tasks, NEW label \in PCs, Goto(t, label)
  PROVE  Frame(t) /\ pc'[t] = label
<1>1. NoRequest \in [op : AllOps, id : Ids]
  BY SomeIdIsId DEF NoRequest, AllOps
<1> QED BY <1>1 DEF Goto, Frame, TypeOK

\* No step but Start makes calls overlap.
LEMMA ExposureKept ==
  ASSUME Exposure, exposed \subseteq exposed',
         \A u \in Tasks : Live(u)' =>
             Live(u) /\ Op(u)' = Op(u) /\ (Op(u) = "recover" \/ Id(u)' = Id(u))
  PROVE  Exposure'
<1> SUFFICES ASSUME NEW t \in LiveTasks', NEW u \in LiveTasks', t # u,
                    Clash(Op(t), Op(u))'
             PROVE  Damaged(Op(t), Id(t), u)' \subseteq exposed'
  BY DEF Exposure
<1>1. t \in LiveTasks /\ u \in LiveTasks /\ Op(t)' = Op(t) /\ Op(u)' = Op(u)
  BY DEF LiveTasks
<1>2. Damaged(Op(t), Id(t), u) \subseteq exposed
  BY <1>1 DEF Exposure, Clash
<1>3. Damaged(Op(t), Id(t), u)' = Damaged(Op(t), Id(t), u)
  BY <1>1 DEF Damaged, Named, LiveTasks
<1> QED BY <1>2, <1>3

LEMMA ExposureFramed ==
  ASSUME TypeOK, Exposure, exposed' = exposed, NEW t \in Tasks, Live(t), Frame(t)
  PROVE  Exposure'
<1>1. \A u \in Tasks : Live(u)' =>
          Live(u) /\ Op(u)' = Op(u) /\ Id(u)' = Id(u)
  BY DEF Frame, Live, Op, Id
<1> QED BY <1>1, ExposureKept

\* The chain: nobody joins or leaves, t joins, t leaves.
Waiting == {"queued", "indexSet"}

LEMMA ChainSame ==
  ASSUME TypeOK, ChainOrder, NEW t \in Tasks, Frame(t), chain' = chain,
         pc[t] \notin Waiting, pc'[t] \notin Waiting
  PROVE  ChainOrder'
<1>1. \A i \in 1..Len(chain) : chain[i] # t /\ chain[i] \in Tasks
  BY DEF ChainOrder, Waiting, TypeOK
<1>2. \A i \in 1..Len(chain) : pc'[chain[i]] = pc[chain[i]]
  BY <1>1 DEF Frame
<1>3. \A u \in Tasks : pc'[u] \in {"queued", "indexSet"} =>
          \E i \in 1..Len(chain) : chain[i] = u
  BY DEF ChainOrder, Frame, Waiting
<1> QED BY <1>2, <1>3 DEF ChainOrder

LEMMA ChainJoin ==
  ASSUME TypeOK, ChainOrder, NEW t \in Tasks, Frame(t), chain' = Append(chain, t),
         pc[t] \notin Waiting, pc'[t] = "queued"
  PROVE  ChainOrder' /\ chain' \in Seq(Tasks)
<1>1. /\ chain' \in Seq(Tasks) /\ Len(chain') = Len(chain) + 1
      /\ \A i \in 1..Len(chain) : chain'[i] = chain[i]
      /\ chain'[Len(chain) + 1] = t
  BY DEF TypeOK
<1>2. \A i \in 1..Len(chain) : chain[i] # t /\ chain[i] \in Tasks
  BY DEF ChainOrder, Waiting, TypeOK
<1>3. Len(chain) \in Nat
  BY DEF TypeOK
<1>4. \A i, j \in 1..Len(chain') : chain'[i] = chain'[j] => i = j
  BY <1>1, <1>2, <1>3 DEF ChainOrder
<1>5. \A u \in Tasks : pc'[u] \in {"queued", "indexSet"} =>
          \E i \in 1..Len(chain') : chain'[i] = u
  BY <1>1, <1>3 DEF ChainOrder, Frame
<1>6. \A i \in 1..Len(chain') :
          /\ pc'[chain'[i]] \in {"queued", "indexSet"}
          /\ pc'[chain'[i]] = "indexSet" => i = 1
  BY <1>1, <1>2, <1>3 DEF ChainOrder, Frame
<1> QED BY <1>1, <1>4, <1>5, <1>6 DEF ChainOrder

LEMMA ChainLeave ==
  ASSUME TypeOK, ChainOrder, NEW t \in Tasks, Frame(t), chain' = Tail(chain),
         pc[t] \in Waiting, Head(chain) = t, pc'[t] \notin Waiting
  PROVE  ChainOrder' /\ chain' \in Seq(Tasks)
<1>1. /\ Len(chain) \in Nat /\ Len(chain) >= 1 /\ chain[1] = t
      /\ \A i \in 1..Len(chain) : chain[i] \in Tasks
  BY DEF TypeOK, ChainOrder, Waiting
<1>2. /\ chain' \in Seq(Tasks) /\ Len(chain') = Len(chain) - 1
      /\ \A i \in 1..Len(chain') : chain'[i] = chain[i + 1]
  BY <1>1 DEF TypeOK
<1>3. \A i \in 1..Len(chain') : i + 1 \in 1..Len(chain) /\ chain'[i] # t
  BY <1>1, <1>2 DEF ChainOrder
<1>4. \A i, j \in 1..Len(chain') : chain'[i] = chain'[j] => i = j
  BY <1>1, <1>2, <1>3 DEF ChainOrder
<1>5. ASSUME NEW u \in Tasks, pc'[u] \in {"queued", "indexSet"}
      PROVE  \E i \in 1..Len(chain') : chain'[i] = u
  <2>1. u # t /\ pc[u] = pc'[u]
    BY <1>5 DEF Frame, Waiting
  <2>2. PICK j \in 1..Len(chain) : chain[j] = u
    BY <1>5, <2>1 DEF ChainOrder
  <2>3. j - 1 \in 1..Len(chain') /\ chain'[j - 1] = u
    BY <1>1, <1>2, <2>1, <2>2
  <2> QED BY <2>3
<1>6. \A i \in 1..Len(chain') :
          /\ pc'[chain'[i]] \in {"queued", "indexSet"}
          /\ pc'[chain'[i]] = "indexSet" => i = 1
  BY <1>1, <1>2, <1>3 DEF ChainOrder, Frame
<1> QED BY <1>2, <1>4, <1>5, <1>6 DEF ChainOrder

\* The head of the chain is the only one that can be writing.
LEMMA OneWriter ==
  ASSUME TypeOK, ChainOrder, NEW t \in Tasks, NEW u \in Tasks,
         pc[t] \in Waiting, Head(chain) = t, pc[u] = "indexSet"
  PROVE  u = t
<1>1. /\ Len(chain) \in Nat /\ Len(chain) >= 1 /\ chain[1] = t
  BY DEF TypeOK, ChainOrder, Waiting
<1> QED BY <1>1 DEF ChainOrder, Waiting

LEMMA WriterIsHead ==
  ASSUME TypeOK, ChainOrder, NEW t \in Tasks, pc[t] = "indexSet"
  PROVE  Head(chain) = t
  BY DEF TypeOK, ChainOrder

\* What the overlap of clashing calls has exposed.
LEMMA DeleteExposes ==
  ASSUME Exposure, NEW d \in LiveTasks, NEW u \in LiveTasks, d # u,
         Op(d) = "delete"
  PROVE  IF Op(u) = "recover" THEN Ids \subseteq exposed
         ELSE Id(d) \in exposed /\ Id(u) \in exposed
  BY DEF Exposure, Clash, Damaged, Named

LEMMA RecoverExposes ==
  ASSUME Exposure, NEW r \in LiveTasks, NEW u \in LiveTasks,
         Op(r) = "recover", Ingesting(u)
  PROVE  Id(u) \in exposed
  BY DEF Exposure, Clash, Damaged, Named, Ingesting

LEMMA DeletingKept ==
  ASSUME TypeOK, NEW t \in Tasks, Frame(t), Live(t), NEW i, Deleting(i)'
  PROVE  Deleting(i)
<1>1. PICK d \in LiveTasks' : Op(d)' = "delete" /\ Id(d)' = i
  BY DEF Deleting
<1>2. d \in LiveTasks /\ Op(d) = "delete" /\ Id(d) = i
  BY <1>1 DEF Frame, LiveTasks, Live, Op, Id
<1> QED BY <1>2 DEF Deleting

\* Nobody deletes an unexposed id that another call works on.
LEMMA NotDeleting ==
  ASSUME Exposure, NEW t \in LiveTasks, Ingesting(t), Id(t) \notin exposed
  PROVE  ~Deleting(Id(t))
<1>1. SUFFICES ASSUME NEW d \in LiveTasks, Op(d) = "delete", Id(d) = Id(t)
               PROVE  FALSE
  BY DEF Deleting
<1> QED BY <1>1, DeleteExposes DEF Ingesting

LEMMA ProbePres == ASSUME NEW t \in Tasks, IInv, Probe(t) PROVE IInv'
<1> USE DEF IInv, Probe, Goto, Proceed, disk, locals, history, Op, Id,
     Ingesting, Live, LiveTasks
<1>1. Frame(t) /\ pc'[t] \in {"ended", "blobs"}
  BY GotoFrame DEF PCs
<1> USE DEF Frame, TypeOK
<1>2. ChainOrder' /\ chain' \in Seq(Tasks)
  BY <1>1, ChainSame DEF Waiting
<1>3. TypeOK'
  BY <1>1, <1>2
<1>4. Exposure'
  BY <1>1, ExposureFramed
<1>5. OpOfLabel' /\ CopiesFresh'
  BY <1>1 DEF OpOfLabel, CopiesFresh
<1>6. FieldsProgress' /\ DeleteProgress'
  BY <1>1 DEF FieldsProgress, DeleteProgress
<1>7. Recoverable'
  BY <1>1 DEF Recoverable
<1>8. IngestProgress'
  BY <1>1 DEF IngestProgress
<1>9. RecoverProgress'
  BY <1>1 DEF RecoverProgress
<1>10. ListedIsStored'
  BY <1>1 DEF ListedIsStored, Deleting
<1>11. BlobsStored'
  BY <1>1, DeleteExposes, RecoverExposes DEF BlobsStored, OpOfLabel
<1>12. AckedStored'
  <2>1. ASSUME NEW i \in acked' \ exposed' PROVE i \in items' /\ ~Deleting(i)
    BY <1>1, <2>1, NotDeleting DEF AckedStored, OpOfLabel
  <2> QED BY <1>1, <2>1, DeletingKept DEF AckedStored
<1> QED BY <1>2, <1>3, <1>4, <1>5, <1>6, <1>7, <1>8, <1>9, <1>10, <1>11, <1>12

LEMMA PutBlobsPres == ASSUME NEW t \in Tasks, IInv, PutBlobs(t) PROVE IInv'
<1> USE DEF IInv, PutBlobs, Goto, Proceed, disk, locals, history, Op, Id,
     Ingesting, Live, LiveTasks
<1>1. Frame(t) /\ pc'[t] \in {"mark", "ended"}
  BY GotoFrame DEF PCs
<1> USE DEF Frame, TypeOK
<1>2. ChainOrder' /\ chain' \in Seq(Tasks)
  BY <1>1, ChainSame DEF Waiting
<1>3. TypeOK'
  BY <1>1, <1>2
<1>4. Exposure'
  BY <1>1, ExposureFramed
<1>5. OpOfLabel' /\ CopiesFresh'
  BY <1>1 DEF OpOfLabel, CopiesFresh
<1>6. FieldsProgress' /\ DeleteProgress'
  BY <1>1 DEF FieldsProgress, DeleteProgress
<1>7. Recoverable'
  BY <1>1 DEF Recoverable
<1>8. IngestProgress'
  BY <1>1 DEF IngestProgress
<1>9. RecoverProgress'
  BY <1>1 DEF RecoverProgress
<1>10. ListedIsStored'
  BY <1>1, DeleteExposes, RecoverExposes DEF ListedIsStored, Deleting,
       OpOfLabel
<1>11. BlobsStored'
  BY <1>1 DEF BlobsStored
<1>12. AckedStored'
  BY <1>1 DEF AckedStored, Deleting
<1> QED BY <1>2, <1>3, <1>4, <1>5, <1>6, <1>7, <1>8, <1>9, <1>10, <1>11, <1>12

LEMMA MarkPres == ASSUME NEW t \in Tasks, IInv, Mark(t) PROVE IInv'
<1> USE DEF IInv, Mark, Goto, Proceed, disk, locals, history, Op, Id,
     Ingesting, Live, LiveTasks
<1>1. Frame(t) /\ pc'[t] \in {"put", "ended"}
  BY GotoFrame DEF PCs
<1> USE DEF Frame, TypeOK
<1>2. ChainOrder' /\ chain' \in Seq(Tasks)
  BY <1>1, ChainSame DEF Waiting
<1>3. TypeOK'
  BY <1>1, <1>2
<1>4. Exposure'
  BY <1>1, ExposureFramed
<1>5. OpOfLabel' /\ CopiesFresh'
  BY <1>1 DEF OpOfLabel, CopiesFresh
<1>6. FieldsProgress' /\ DeleteProgress'
  BY <1>1 DEF FieldsProgress, DeleteProgress
<1>7. Recoverable'
  BY <1>1 DEF Recoverable
<1>8. IngestProgress'
  BY <1>1 DEF IngestProgress
<1>9. RecoverProgress'
  BY <1>1 DEF RecoverProgress
<1>10. ListedIsStored'
  BY <1>1, DeleteExposes, RecoverExposes DEF ListedIsStored, Deleting,
       OpOfLabel
<1>11. BlobsStored'
  BY <1>1, DeleteExposes, RecoverExposes DEF BlobsStored, OpOfLabel
<1>12. AckedStored'
  BY <1>1 DEF AckedStored, Deleting
<1> QED BY <1>2, <1>3, <1>4, <1>5, <1>6, <1>7, <1>8, <1>9, <1>10, <1>11, <1>12

LEMMA PutPres == ASSUME NEW t \in Tasks, IInv, Put(t) PROVE IInv'
<1> USE DEF IInv, Put, Goto, Proceed, disk, locals, history, Op, Id, Ingesting,
     Live, LiveTasks
<1>1. Frame(t) /\ pc'[t] \in {"queued", "ended"}
  BY GotoFrame DEF PCs
<1> USE DEF Frame, TypeOK
<1>2. ChainOrder' /\ chain' \in Seq(Tasks)
  BY <1>1, ChainJoin, ChainSame DEF Waiting
<1>3. TypeOK'
  BY <1>1, <1>2
<1>4. Exposure'
  BY <1>1, ExposureFramed
<1>5. OpOfLabel' /\ CopiesFresh'
  BY <1>1 DEF OpOfLabel, CopiesFresh
<1>6. FieldsProgress'
  BY <1>1 DEF FieldsProgress
<1>7. IngestProgress'
  BY <1>1 DEF IngestProgress
<1>8. RecoverProgress'
  BY <1>1, DeleteExposes, RecoverExposes DEF RecoverProgress, OpOfLabel
<1>9. DeleteProgress'
  BY <1>1, DeleteExposes, RecoverExposes DEF DeleteProgress, OpOfLabel
<1>10. Recoverable'
  BY <1>1, DeleteExposes, RecoverExposes DEF Recoverable, OpOfLabel,
       IngestProgress, RecoverProgress, FieldsProgress, DeleteProgress
<1>11. ListedIsStored'
  BY <1>1 DEF ListedIsStored, Deleting
<1>12. BlobsStored'
  BY <1>1, DeleteExposes, RecoverExposes DEF BlobsStored, OpOfLabel,
       IngestProgress, RecoverProgress, FieldsProgress, DeleteProgress
<1>13. AckedStored'
  BY <1>1 DEF AckedStored, Deleting
<1> QED BY <1>2, <1>3, <1>4, <1>5, <1>6, <1>7, <1>8, <1>9, <1>10, <1>11, <1>12,
     <1>13

LEMMA LoadForAppendPres == ASSUME NEW t \in Tasks, IInv, LoadForAppend(t) PROVE IInv'
<1> USE DEF IInv, LoadForAppend, Goto, Proceed, disk, locals, history, Op, Id,
     Ingesting, Live, LiveTasks
<1>1. Frame(t) /\ pc'[t] \in {"unmark", "indexSet"}
  BY GotoFrame DEF PCs
<1> USE DEF Frame, TypeOK
<1>2. ChainOrder' /\ chain' \in Seq(Tasks)
  <2>1. CASE chain' = Tail(chain) /\ pc'[t] = "unmark"
    BY <1>1, <2>1, ChainLeave DEF Waiting
  <2>2. CASE chain' = chain /\ pc'[t] = "indexSet"
    BY <1>1, <2>2 DEF ChainOrder
  <2> QED BY <2>1, <2>2
<1>3. TypeOK'
  BY <1>1, <1>2
<1>4. Exposure'
  BY <1>1, ExposureFramed
<1>5. OpOfLabel'
  BY <1>1 DEF OpOfLabel
<1>6. CopiesFresh'
  BY <1>1 DEF CopiesFresh
<1>7. FieldsProgress'
  BY <1>1 DEF FieldsProgress
<1>8. DeleteProgress'
  BY <1>1 DEF DeleteProgress
<1>9. Recoverable'
  BY <1>1 DEF Recoverable
<1>10. IngestProgress'
  BY <1>1 DEF IngestProgress
<1>11. RecoverProgress'
  <2>1. CASE Id(t) \in index
    BY <1>1, <2>1 DEF RecoverProgress
  <2>2. CASE Id(t) \notin index
    BY <1>1, <2>2 DEF RecoverProgress
  <2> QED BY <2>1, <2>2
<1>12. ListedIsStored'
  BY <1>1 DEF ListedIsStored, Deleting
<1>13. BlobsStored'
  BY <1>1 DEF BlobsStored
<1>14. AckedStored'
  BY <1>1 DEF AckedStored, Deleting
<1> QED BY <1>2, <1>3, <1>4, <1>5, <1>6, <1>7, <1>8, <1>9, <1>10, <1>11, <1>12,
     <1>13, <1>14

LEMMA IndexSetPres == ASSUME NEW t \in Tasks, IInv, IndexSet(t) PROVE IInv'
<1> USE DEF IInv, IndexSet, Goto, Proceed, disk, locals, history, Op, Id,
     Ingesting, Live, LiveTasks
<1>1. Frame(t) /\ pc'[t] \in {"unmark", "ended"}
  BY GotoFrame DEF PCs
<1> USE DEF Frame, TypeOK
<1>2. ChainOrder' /\ chain' \in Seq(Tasks)
  BY <1>1, ChainLeave, OneWriter, WriterIsHead, ChainSame DEF Waiting
<1>3. TypeOK'
  BY <1>1, <1>2
<1>4. Exposure'
  BY <1>1, ExposureFramed
<1>5. OpOfLabel' /\ FieldsProgress'
  BY <1>1 DEF OpOfLabel, FieldsProgress
<1>6. DeleteProgress'
  BY <1>1 DEF DeleteProgress
<1>7. CopiesFresh'
  BY <1>1, DeleteExposes, RecoverExposes, OneWriter, WriterIsHead DEF
       CopiesFresh, OpOfLabel, IngestProgress, RecoverProgress, FieldsProgress,
       DeleteProgress, Recoverable, ListedIsStored, BlobsStored, AckedStored,
       Waiting, Deleting
<1>8. IngestProgress'
  BY <1>1 DEF IngestProgress, RecoverProgress, FieldsProgress, DeleteProgress,
       Recoverable, ListedIsStored, BlobsStored, AckedStored, CopiesFresh
<1>9. RecoverProgress'
  BY <1>1 DEF RecoverProgress, IngestProgress, FieldsProgress, DeleteProgress,
       Recoverable, ListedIsStored, BlobsStored, AckedStored, CopiesFresh
<1>10. Recoverable'
  BY <1>1 DEF Recoverable, IngestProgress, RecoverProgress, FieldsProgress,
       DeleteProgress, ListedIsStored, BlobsStored, AckedStored, CopiesFresh
<1>11. ListedIsStored'
  BY <1>1, DeleteExposes, RecoverExposes DEF ListedIsStored, Deleting,
       OpOfLabel, IngestProgress, RecoverProgress, FieldsProgress,
       DeleteProgress, Recoverable, BlobsStored, AckedStored, CopiesFresh
<1>12. BlobsStored'
  BY <1>1, DeleteExposes, RecoverExposes DEF BlobsStored, OpOfLabel
<1>13. AckedStored'
  BY <1>1 DEF AckedStored, Deleting
<1> QED BY <1>2, <1>3, <1>4, <1>5, <1>6, <1>7, <1>8, <1>9, <1>10, <1>11, <1>12,
     <1>13

LEMMA UnmarkPres == ASSUME NEW t \in Tasks, IInv, Unmark(t) PROVE IInv'
<1> USE DEF IInv, Unmark, Goto, Proceed, disk, locals, history, Op, Id,
     Ingesting, Live, LiveTasks
<1>1. Frame(t) /\ pc'[t] \in {"marker", "ended"}
  BY GotoFrame DEF PCs
<1> USE DEF Frame, TypeOK
<1>2. ChainOrder' /\ chain' \in Seq(Tasks)
  BY <1>1, ChainSame DEF Waiting
<1>3. TypeOK'
  BY <1>1, <1>2
<1>4. Exposure'
  BY <1>1, ExposureFramed
<1>5. OpOfLabel' /\ CopiesFresh'
  BY <1>1 DEF OpOfLabel, CopiesFresh
<1>6. FieldsProgress' /\ DeleteProgress'
  BY <1>1 DEF FieldsProgress, DeleteProgress
<1>7. IngestProgress'
  BY <1>1, DeleteExposes, RecoverExposes DEF IngestProgress, OpOfLabel
<1>8. RecoverProgress'
  BY <1>1 DEF RecoverProgress
<1>9. Recoverable'
  BY <1>1, DeleteExposes, RecoverExposes DEF Recoverable, OpOfLabel,
       IngestProgress, RecoverProgress, FieldsProgress, DeleteProgress
<1>10. ListedIsStored'
  BY <1>1, DeleteExposes, RecoverExposes DEF ListedIsStored, Deleting,
       OpOfLabel
<1>11. BlobsStored'
  BY <1>1, DeleteExposes, RecoverExposes DEF BlobsStored, OpOfLabel
<1>12. AckedStored'
  <2>1. ASSUME NEW i \in acked' \ exposed' PROVE i \in items' /\ ~Deleting(i)
    BY <1>1, <2>1, NotDeleting DEF AckedStored, OpOfLabel, IngestProgress
  <2> QED BY <1>1, <2>1, DeletingKept DEF AckedStored
<1> QED BY <1>2, <1>3, <1>4, <1>5, <1>6, <1>7, <1>8, <1>9, <1>10, <1>11, <1>12

LEMMA ReadFieldsPres == ASSUME NEW t \in Tasks, IInv, ReadFields(t) PROVE IInv'
<1> USE DEF IInv, ReadFields, Goto, Proceed, disk, locals, history, Op, Id,
     Ingesting, Live, LiveTasks
<1>1. Frame(t) /\ pc'[t] \in {"putFields", "ended"}
  BY GotoFrame DEF PCs
<1> USE DEF Frame, TypeOK
<1>2. ChainOrder' /\ chain' \in Seq(Tasks)
  BY <1>1, ChainSame DEF Waiting
<1>3. TypeOK'
  BY <1>1, <1>2
<1>4. Exposure'
  BY <1>1, ExposureFramed
<1>5. OpOfLabel' /\ CopiesFresh'
  BY <1>1 DEF OpOfLabel, CopiesFresh
<1>6. FieldsProgress' /\ DeleteProgress'
  BY <1>1 DEF FieldsProgress, DeleteProgress
<1>7. Recoverable'
  BY <1>1 DEF Recoverable
<1>8. IngestProgress'
  BY <1>1 DEF IngestProgress
<1>9. RecoverProgress'
  BY <1>1 DEF RecoverProgress
<1>10. ListedIsStored'
  BY <1>1, DeleteExposes, RecoverExposes DEF ListedIsStored, Deleting,
       OpOfLabel
<1>11. BlobsStored'
  BY <1>1 DEF BlobsStored
<1>12. AckedStored'
  BY <1>1 DEF AckedStored, Deleting
<1> QED BY <1>2, <1>3, <1>4, <1>5, <1>6, <1>7, <1>8, <1>9, <1>10, <1>11, <1>12

LEMMA PutFieldsPres == ASSUME NEW t \in Tasks, IInv, PutFields(t) PROVE IInv'
<1> USE DEF IInv, PutFields, Goto, Proceed, disk, locals, history, Op, Id,
     Ingesting, Live, LiveTasks
<1>1. Frame(t) /\ pc'[t] \in {"ended"}
  BY GotoFrame DEF PCs
<1> USE DEF Frame, TypeOK
<1>2. ChainOrder' /\ chain' \in Seq(Tasks)
  BY <1>1, ChainSame DEF Waiting
<1>3. TypeOK'
  BY <1>1, <1>2
<1>4. Exposure'
  BY <1>1, ExposureFramed
<1>5. OpOfLabel' /\ CopiesFresh'
  BY <1>1 DEF OpOfLabel, CopiesFresh
<1>6. FieldsProgress'
  BY <1>1 DEF FieldsProgress
<1>7. IngestProgress'
  BY <1>1 DEF IngestProgress
<1>8. RecoverProgress'
  BY <1>1 DEF RecoverProgress, IngestProgress, FieldsProgress, DeleteProgress
<1>9. DeleteProgress'
  BY <1>1, DeleteExposes, RecoverExposes DEF DeleteProgress, OpOfLabel
<1>10. Recoverable'
  BY <1>1 DEF Recoverable, IngestProgress, RecoverProgress, FieldsProgress,
       DeleteProgress
<1>11. ListedIsStored'
  BY <1>1 DEF ListedIsStored, Deleting
<1>12. BlobsStored'
  BY <1>1 DEF BlobsStored, IngestProgress, RecoverProgress, FieldsProgress,
       DeleteProgress
<1>13. AckedStored'
  BY <1>1 DEF AckedStored, Deleting
<1> QED BY <1>2, <1>3, <1>4, <1>5, <1>6, <1>7, <1>8, <1>9, <1>10, <1>11, <1>12,
     <1>13

LEMMA LoadForDeletePres == ASSUME NEW t \in Tasks, IInv, LoadForDelete(t) PROVE IInv'
<1> USE DEF IInv, LoadForDelete, Goto, Proceed, disk, locals, history, Op, Id,
     Ingesting, Live, LiveTasks
<1>1. Frame(t) /\ pc'[t] \in {"readItem", "ended"}
  BY GotoFrame DEF PCs
<1> USE DEF Frame, TypeOK
<1>2. ChainOrder' /\ chain' \in Seq(Tasks)
  BY <1>1, ChainSame DEF Waiting
<1>3. TypeOK'
  BY <1>1, <1>2
<1>4. Exposure'
  BY <1>1, ExposureFramed
<1>5. OpOfLabel'
  BY <1>1 DEF OpOfLabel
<1>6. CopiesFresh'
  BY <1>1 DEF CopiesFresh
<1>7. FieldsProgress'
  BY <1>1 DEF FieldsProgress
<1>8. DeleteProgress'
  BY <1>1 DEF DeleteProgress
<1>9. Recoverable'
  BY <1>1 DEF Recoverable
<1>10. IngestProgress'
  BY <1>1 DEF IngestProgress
<1>11. RecoverProgress'
  BY <1>1 DEF RecoverProgress
<1>12. ListedIsStored'
  BY <1>1 DEF ListedIsStored, Deleting
<1>13. BlobsStored'
  BY <1>1, DeleteExposes, RecoverExposes DEF BlobsStored, OpOfLabel
<1>14. AckedStored'
  BY <1>1 DEF AckedStored, Deleting
<1> QED BY <1>2, <1>3, <1>4, <1>5, <1>6, <1>7, <1>8, <1>9, <1>10, <1>11, <1>12,
     <1>13, <1>14

LEMMA ReadItemPres == ASSUME NEW t \in Tasks, IInv, ReadItem(t) PROVE IInv'
<1> USE DEF IInv, ReadItem, Goto, Proceed, disk, locals, history, Op, Id,
     Ingesting, Live, LiveTasks
<1>1. Frame(t) /\ pc'[t] \in {"dropBlobs", "dropItem"}
  BY GotoFrame DEF PCs
<1> USE DEF Frame, TypeOK
<1>2. ChainOrder' /\ chain' \in Seq(Tasks)
  BY <1>1, ChainSame DEF Waiting
<1>3. TypeOK'
  BY <1>1, <1>2
<1>4. Exposure'
  BY <1>1, ExposureFramed
<1>5. OpOfLabel' /\ CopiesFresh'
  BY <1>1 DEF OpOfLabel, CopiesFresh
<1>6. FieldsProgress' /\ DeleteProgress'
  BY <1>1 DEF FieldsProgress, DeleteProgress
<1>7. Recoverable'
  BY <1>1 DEF Recoverable
<1>8. IngestProgress'
  BY <1>1 DEF IngestProgress
<1>9. RecoverProgress'
  BY <1>1 DEF RecoverProgress
<1>10. ListedIsStored'
  BY <1>1 DEF ListedIsStored, Deleting
<1>11. BlobsStored'
  BY <1>1 DEF BlobsStored
<1>12. AckedStored'
  BY <1>1 DEF AckedStored, Deleting
<1> QED BY <1>2, <1>3, <1>4, <1>5, <1>6, <1>7, <1>8, <1>9, <1>10, <1>11, <1>12

LEMMA DropBlobsPres == ASSUME NEW t \in Tasks, IInv, DropBlobs(t) PROVE IInv'
<1> USE DEF IInv, DropBlobs, Goto, Proceed, disk, locals, history, Op, Id,
     Ingesting, Live, LiveTasks
<1>1. Frame(t) /\ pc'[t] \in {"dropItem"}
  BY GotoFrame DEF PCs
<1> USE DEF Frame, TypeOK
<1>2. ChainOrder' /\ chain' \in Seq(Tasks)
  BY <1>1, ChainSame DEF Waiting
<1>3. TypeOK'
  BY <1>1, <1>2
<1>4. Exposure'
  BY <1>1, ExposureFramed
<1>5. OpOfLabel' /\ CopiesFresh'
  BY <1>1 DEF OpOfLabel, CopiesFresh
<1>6. FieldsProgress' /\ DeleteProgress'
  BY <1>1 DEF FieldsProgress, DeleteProgress
<1>7. Recoverable'
  BY <1>1 DEF Recoverable
<1>8. IngestProgress'
  BY <1>1, DeleteExposes, RecoverExposes DEF IngestProgress, OpOfLabel
<1>9. RecoverProgress'
  BY <1>1 DEF RecoverProgress
<1>10. ListedIsStored'
  BY <1>1 DEF ListedIsStored, Deleting
<1>11. BlobsStored'
  BY <1>1, DeleteExposes, RecoverExposes DEF BlobsStored, OpOfLabel
<1>12. AckedStored'
  BY <1>1 DEF AckedStored, Deleting
<1> QED BY <1>2, <1>3, <1>4, <1>5, <1>6, <1>7, <1>8, <1>9, <1>10, <1>11, <1>12

LEMMA DropItemPres == ASSUME NEW t \in Tasks, IInv, DropItem(t) PROVE IInv'
<1> USE DEF IInv, DropItem, Goto, Proceed, disk, locals, history, Op, Id,
     Ingesting, Live, LiveTasks
<1>1. Frame(t) /\ pc'[t] \in {"saveIndex"}
  BY GotoFrame DEF PCs
<1> USE DEF Frame, TypeOK
<1>2. ChainOrder' /\ chain' \in Seq(Tasks)
  BY <1>1, ChainSame DEF Waiting
<1>3. TypeOK'
  BY <1>1, <1>2
<1>4. Exposure'
  BY <1>1, ExposureFramed
<1>5. OpOfLabel' /\ CopiesFresh'
  BY <1>1 DEF OpOfLabel, CopiesFresh
<1>6. DeleteProgress' /\ Recoverable'
  BY <1>1 DEF DeleteProgress, Recoverable
<1>7. IngestProgress'
  BY <1>1, DeleteExposes, RecoverExposes DEF IngestProgress, OpOfLabel
<1>8. RecoverProgress'
  BY <1>1, DeleteExposes, RecoverExposes DEF RecoverProgress, OpOfLabel
<1>9. FieldsProgress'
  BY <1>1, DeleteExposes, RecoverExposes DEF FieldsProgress, OpOfLabel
<1>10. ListedIsStored'
  BY <1>1, DeleteExposes, RecoverExposes DEF ListedIsStored, Deleting,
       OpOfLabel
<1>11. BlobsStored'
  BY <1>1 DEF BlobsStored
<1>12. AckedStored'
  BY <1>1, DeleteExposes, RecoverExposes DEF AckedStored, Deleting, OpOfLabel
<1> QED BY <1>2, <1>3, <1>4, <1>5, <1>6, <1>7, <1>8, <1>9, <1>10, <1>11, <1>12

LEMMA SaveIndexPres == ASSUME NEW t \in Tasks, IInv, SaveIndex(t) PROVE IInv'
<1> USE DEF IInv, SaveIndex, Goto, Proceed, disk, locals, history, Op, Id,
     Ingesting, Live, LiveTasks
<1>1. Frame(t) /\ pc'[t] \in {"ended"}
  BY GotoFrame DEF PCs
<1> USE DEF Frame, TypeOK
<1>2. ChainOrder' /\ chain' \in Seq(Tasks)
  BY <1>1, ChainSame DEF Waiting
<1>3. TypeOK'
  BY <1>1, <1>2
<1>4. Exposure'
  BY <1>1, ExposureFramed
<1>5. OpOfLabel' /\ FieldsProgress'
  BY <1>1 DEF OpOfLabel, FieldsProgress
<1>6. DeleteProgress'
  BY <1>1 DEF DeleteProgress
<1>7. CopiesFresh'
  BY <1>1, DeleteExposes, RecoverExposes DEF CopiesFresh, OpOfLabel
<1>8. IngestProgress'
  BY <1>1, DeleteExposes, RecoverExposes DEF IngestProgress, OpOfLabel
<1>9. RecoverProgress'
  BY <1>1, DeleteExposes, RecoverExposes DEF RecoverProgress, OpOfLabel
<1>10. Recoverable'
  BY <1>1 DEF Recoverable, IngestProgress, RecoverProgress, FieldsProgress,
       DeleteProgress, ListedIsStored, BlobsStored, AckedStored, CopiesFresh
<1>11. ListedIsStored'
  BY <1>1 DEF ListedIsStored, Deleting, IngestProgress, RecoverProgress,
       FieldsProgress, DeleteProgress, Recoverable, BlobsStored, AckedStored,
       CopiesFresh
<1>12. BlobsStored'
  BY <1>1, DeleteExposes, RecoverExposes DEF BlobsStored, OpOfLabel
<1>13. AckedStored'
  BY <1>1 DEF AckedStored, Deleting
<1> QED BY <1>2, <1>3, <1>4, <1>5, <1>6, <1>7, <1>8, <1>9, <1>10, <1>11, <1>12,
     <1>13

LEMMA ListMarkersPres == ASSUME NEW t \in Tasks, IInv, ListMarkers(t) PROVE IInv'
<1> USE DEF IInv, ListMarkers, Goto, Proceed, disk, locals, history, Op, Id,
     Ingesting, Live, LiveTasks
<1>1. Frame(t) /\ pc'[t] \in {"marker"}
  BY GotoFrame DEF PCs
<1> USE DEF Frame, TypeOK
<1>2. ChainOrder' /\ chain' \in Seq(Tasks)
  BY <1>1, ChainSame DEF Waiting
<1>3. TypeOK'
  BY <1>1, <1>2
<1>4. Exposure'
  BY <1>1, ExposureFramed
<1>5. OpOfLabel' /\ CopiesFresh'
  BY <1>1 DEF OpOfLabel, CopiesFresh
<1>6. FieldsProgress' /\ DeleteProgress'
  BY <1>1 DEF FieldsProgress, DeleteProgress
<1>7. Recoverable'
  BY <1>1 DEF Recoverable
<1>8. IngestProgress'
  BY <1>1 DEF IngestProgress
<1>9. RecoverProgress'
  BY <1>1 DEF RecoverProgress
<1>10. ListedIsStored'
  BY <1>1 DEF ListedIsStored, Deleting
<1>11. BlobsStored'
  BY <1>1 DEF BlobsStored
<1>12. AckedStored'
  BY <1>1 DEF AckedStored, Deleting
<1> QED BY <1>2, <1>3, <1>4, <1>5, <1>6, <1>7, <1>8, <1>9, <1>10, <1>11, <1>12

LEMMA LookItemPres == ASSUME NEW t \in Tasks, IInv, LookItem(t) PROVE IInv'
<1> USE DEF IInv, LookItem, Goto, Proceed, disk, locals, history, Op, Id,
     Ingesting, Live, LiveTasks
<1>1. Frame(t) /\ pc'[t] \in {"lookIndex", "unmark"}
  BY GotoFrame DEF PCs
<1> USE DEF Frame, TypeOK
<1>2. ChainOrder' /\ chain' \in Seq(Tasks)
  BY <1>1, ChainSame DEF Waiting
<1>3. TypeOK'
  BY <1>1, <1>2
<1>4. Exposure'
  BY <1>1, ExposureFramed
<1>5. OpOfLabel' /\ CopiesFresh'
  BY <1>1 DEF OpOfLabel, CopiesFresh
<1>6. FieldsProgress' /\ DeleteProgress'
  BY <1>1 DEF FieldsProgress, DeleteProgress
<1>7. Recoverable'
  BY <1>1 DEF Recoverable
<1>8. IngestProgress'
  BY <1>1, DeleteExposes, RecoverExposes DEF IngestProgress, OpOfLabel
<1>9. RecoverProgress'
  BY <1>1 DEF RecoverProgress
<1>10. ListedIsStored'
  BY <1>1 DEF ListedIsStored, Deleting
<1>11. BlobsStored'
  BY <1>1 DEF BlobsStored
<1>12. AckedStored'
  BY <1>1 DEF AckedStored, Deleting
<1> QED BY <1>2, <1>3, <1>4, <1>5, <1>6, <1>7, <1>8, <1>9, <1>10, <1>11, <1>12

LEMMA LookIndexPres == ASSUME NEW t \in Tasks, IInv, LookIndex(t) PROVE IInv'
<1> USE DEF IInv, LookIndex, Goto, Proceed, disk, locals, history, Op, Id,
     Ingesting, Live, LiveTasks
<1>1. Frame(t) /\ pc'[t] \in {"unmark", "queued"}
  BY GotoFrame DEF PCs
<1> USE DEF Frame, TypeOK
<1>2. ChainOrder' /\ chain' \in Seq(Tasks)
  BY <1>1, ChainJoin, ChainSame DEF Waiting
<1>3. TypeOK'
  BY <1>1, <1>2
<1>4. Exposure'
  BY <1>1, ExposureFramed
<1>5. OpOfLabel'
  BY <1>1 DEF OpOfLabel
<1>6. CopiesFresh'
  BY <1>1 DEF CopiesFresh
<1>7. FieldsProgress'
  BY <1>1 DEF FieldsProgress
<1>8. DeleteProgress'
  BY <1>1 DEF DeleteProgress
<1>9. Recoverable'
  BY <1>1 DEF Recoverable
<1>10. IngestProgress'
  BY <1>1, DeleteExposes, RecoverExposes DEF IngestProgress, OpOfLabel
<1>11. RecoverProgress'
  BY <1>1 DEF RecoverProgress
<1>12. ListedIsStored'
  BY <1>1 DEF ListedIsStored, Deleting
<1>13. BlobsStored'
  BY <1>1 DEF BlobsStored
<1>14. AckedStored'
  BY <1>1 DEF AckedStored, Deleting
<1> QED BY <1>2, <1>3, <1>4, <1>5, <1>6, <1>7, <1>8, <1>9, <1>10, <1>11, <1>12,
     <1>13, <1>14

LEMMA ReadMarkerPres == ASSUME NEW t \in Tasks, IInv, ReadMarker(t) PROVE IInv'
<1> USE DEF IInv, disk, locals, history, Op, Id, Ingesting, Live, LiveTasks
<1>1. /\ pc' \in [Tasks -> PCs]
      /\ req' \in [Tasks -> [op : AllOps, id : Ids]]
      /\ todo' \in [Tasks -> SUBSET Ids]
      /\ \A u \in Tasks : u # t => pc'[u] = pc[u] /\ req'[u] = req[u]
      /\ UNCHANGED <<disk, chain, snap, history>>
  <2>1. CASE Goto(t, "ended")
    BY <2>1, GotoFrame DEF ReadMarker, Frame, PCs, TypeOK
  <2>2. CASE \E i \in todo[t] :
            /\ req' = [req EXCEPT ![t].id = i]
            /\ todo' = [todo EXCEPT ![t] = @ \ {i}]
            /\ pc' = [pc EXCEPT ![t] = IF i \in pending
                                       THEN "lookItem" ELSE "unmark"]
    BY <2>2 DEF ReadMarker, PCs, TypeOK
  <2>3. todo' \in [Tasks -> SUBSET Ids]
    BY DEF ReadMarker, TypeOK
  <2> QED BY <2>1, <2>2, <2>3 DEF ReadMarker
<1>2. /\ pc[t] = "marker" /\ Op(t) = "recover"
      /\ \/ pc'[t] = "ended"
         \/ pc'[t] = "lookItem" /\ Op(t)' = "recover"
         \/ pc'[t] = "unmark" /\ Op(t)' = "recover" /\ Id(t)' \notin pending
  BY DEF ReadMarker, Goto, OpOfLabel, TypeOK
<1> USE DEF TypeOK
<1>3. TypeOK'
  BY <1>1
<1>4. Exposure'
  <2>1. \A u \in Tasks : Live(u)' =>
            Live(u) /\ Op(u)' = Op(u) /\ (Op(u) = "recover" \/ Id(u)' = Id(u))
    BY <1>1, <1>2
  <2> QED BY <1>1, <2>1, ExposureKept
<1>5. ChainOrder'
  <2>1. \A i \in 1..Len(chain) : chain[i] # t /\ chain[i] \in Tasks
    BY <1>2 DEF ChainOrder
  <2> QED BY <1>1, <1>2, <2>1 DEF ChainOrder
<1>6. OpOfLabel'
  BY <1>1, <1>2 DEF OpOfLabel
<1>7. CopiesFresh'
  BY <1>1, <1>2 DEF CopiesFresh
<1>8. IngestProgress'
  BY <1>1, <1>2 DEF IngestProgress
<1>9. RecoverProgress'
  BY <1>1, <1>2 DEF RecoverProgress, Recoverable
<1>10. FieldsProgress'
  BY <1>1, <1>2 DEF FieldsProgress
<1>11. DeleteProgress'
  BY <1>1, <1>2 DEF DeleteProgress
<1>12. Recoverable'
  BY <1>1 DEF Recoverable
<1>13. ListedIsStored'
  BY <1>1, <1>2 DEF ListedIsStored
<1>14. BlobsStored'
  BY <1>1, <1>2 DEF BlobsStored
<1>15. AckedStored'
  BY <1>1, <1>2 DEF AckedStored, Deleting
<1> QED BY <1>3, <1>4, <1>5, <1>6, <1>7, <1>8, <1>9, <1>10, <1>11, <1>12,
           <1>13, <1>14, <1>15

LEMMA FailPres == ASSUME NEW t \in Tasks, IInv, Fail(t) PROVE IInv'
<1> USE DEF IInv, Op, Id, Ingesting, Live, LiveTasks
<1>1. /\ Frame(t) /\ pc'[t] = "ended" /\ Live(t)
      /\ UNCHANGED <<items, blobs, pending, index, acked>>
      /\ \A u \in Tasks : u # t => snap'[u] = snap[u]
  BY GotoFrame DEF Fail, PCs, disk, TypeOK
<1>2. /\ exposed \subseteq exposed' /\ exposed' \subseteq Ids
      /\ Op(t) = "delete" => Id(t) \in exposed'
  BY DEF Fail, TypeOK
<1>3. ChainOrder' /\ chain' \in Seq(Tasks)
  <2>1. CASE pc[t] \in Waiting
    <3>1. Head(chain) = t /\ chain' = Tail(chain)
      BY <2>1, WriterIsHead DEF Fail, Waiting
    <3> QED BY <1>1, <2>1, <3>1, ChainLeave DEF Waiting
  <2>2. CASE pc[t] \notin Waiting
    <3>1. chain' = chain
      BY <2>2 DEF Fail, Waiting
    <3> QED BY <1>1, <2>2, <3>1, ChainSame DEF Waiting, TypeOK
  <2> QED BY <2>1, <2>2
<1> USE DEF TypeOK, Frame
<1>4. TypeOK'
  BY <1>1, <1>2, <1>3 DEF Fail
<1>5. Exposure'
  <2>1. \A u \in Tasks : Live(u)' =>
            Live(u) /\ Op(u)' = Op(u) /\ (Op(u) = "recover" \/ Id(u)' = Id(u))
    BY <1>1
  <2> QED BY <1>2, <2>1, ExposureKept
<1>6. OpOfLabel'
  BY <1>1 DEF OpOfLabel
<1>7. CopiesFresh'
  BY <1>1, <1>2 DEF CopiesFresh
<1>8. IngestProgress'
  BY <1>1, <1>2 DEF IngestProgress
<1>9. RecoverProgress'
  BY <1>1, <1>2 DEF RecoverProgress
<1>10. FieldsProgress'
  BY <1>1, <1>2 DEF FieldsProgress
<1>11. DeleteProgress'
  BY <1>1, <1>2 DEF DeleteProgress
<1>12. Recoverable'
  BY <1>1, <1>2 DEF Recoverable
<1>13. ListedIsStored'
  BY <1>1, <1>2 DEF ListedIsStored
<1>14. BlobsStored'
  <2>1. \A u \in LiveTasks : u # t =>
            u \in LiveTasks' /\ pc'[u] = pc[u] /\ Id(u)' = Id(u)
    BY <1>1
  <2>2. pc[t] = "dropItem" => Id(t) \in exposed'
    BY <1>1, <1>2 DEF OpOfLabel
  <2> QED BY <1>1, <1>2, <2>1, <2>2 DEF BlobsStored
<1>15. AckedStored'
  BY <1>1, <1>2, DeletingKept DEF AckedStored
<1> QED BY <1>3, <1>4, <1>5, <1>6, <1>7, <1>8, <1>9, <1>10, <1>11, <1>12,
           <1>13, <1>14, <1>15

LEMMA CrashPres == ASSUME IInv, Crash PROVE IInv'
<1> USE DEF IInv, Op, Id, Ingesting, Live, LiveTasks
<1>1. /\ pc' \in [Tasks -> PCs]
      /\ \A u \in Tasks : pc'[u] \in {"idle", "ended"}
      /\ chain' = <<>>
      /\ UNCHANGED <<items, blobs, pending, index, acked>>
  BY DEF Crash, disk, PCs, TypeOK
<1>2. /\ exposed \subseteq exposed' /\ exposed' \subseteq Ids
      /\ \A u \in LiveTasks : Op(u) = "delete" => Id(u) \in exposed'
  BY DEF Crash, TypeOK
<1>3. TypeOK'
  <2>1. NoRequest \in [op : AllOps, id : Ids]
    BY SomeIdIsId DEF NoRequest, AllOps
  <2> QED BY <1>1, <1>2, <2>1 DEF TypeOK, Crash
<1>4. LiveTasks' = {}
  BY <1>1
<1>5. Exposure' /\ OpOfLabel'
  BY <1>4 DEF Exposure, OpOfLabel
<1>6. IngestProgress' /\ RecoverProgress' /\ FieldsProgress' /\ DeleteProgress'
  BY <1>4 DEF IngestProgress, RecoverProgress, FieldsProgress, DeleteProgress
<1>7. ChainOrder' /\ CopiesFresh'
  BY <1>1 DEF ChainOrder, CopiesFresh
<1>8. Recoverable'
  BY <1>1, <1>2 DEF Recoverable
<1>9. ListedIsStored'
  BY <1>1, <1>2 DEF ListedIsStored
<1>10. BlobsStored'
  BY <1>1, <1>2 DEF BlobsStored, OpOfLabel
<1>11. AckedStored'
  BY <1>1, <1>2, <1>4 DEF AckedStored, Deleting
<1> QED BY <1>3, <1>5, <1>6, <1>7, <1>8, <1>9, <1>10, <1>11

LEMMA StartPres ==
  ASSUME NEW t \in Tasks, NEW op \in Ops, NEW id \in Ids, IInv, Start(t, op, id)
  PROVE  IInv'
<1> USE DEF IInv, Op, Id, Ingesting, Live, LiveTasks
<1>1. /\ op \in AllOps /\ First(op) \in PCs \ {"idle", "ended"}
      /\ op \in {"ingest", "force"} => First(op) \in {"probe", "blobs"}
      /\ op = "fields" => First(op) = "readFields"
      /\ op = "delete" => First(op) = "loadIndex"
      /\ op = "recover" => First(op) = "list"
  BY InboxAssumption DEF AllOps, First, PCs
<1>2. /\ pc' \in [Tasks -> PCs]
      /\ req' \in [Tasks -> [op : AllOps, id : Ids]]
      /\ \A u \in Tasks : u # t => pc'[u] = pc[u] /\ req'[u] = req[u]
      /\ pc[t] = "idle" /\ pc'[t] = First(op)
      /\ Op(t)' = op /\ Id(t)' = id
      /\ UNCHANGED <<items, blobs, pending, index, chain, snap, todo>>
      /\ acked' \subseteq acked
      /\ op = "delete" => id \notin acked'
  BY <1>1 DEF Start, TypeOK, disk
<1>3. /\ exposed \subseteq exposed' /\ exposed' \subseteq Ids
      /\ \A u \in LiveTasks : Clash(op, Op(u)) => Damaged(op, id, u) \subseteq exposed'
  <2>1. \A u \in LiveTasks : Damaged(op, id, u) \subseteq Ids
    BY DEF Damaged, Named, TypeOK
  <2> QED BY <2>1 DEF Start, TypeOK
<1>4. TypeOK'
  BY <1>2, <1>3 DEF TypeOK
<1>5. Exposure'
  <2> SUFFICES ASSUME NEW u \in LiveTasks', NEW v \in LiveTasks', u # v,
                      Clash(Op(u), Op(v))'
               PROVE  Damaged(Op(u), Id(u), v)' \subseteq exposed'
    BY DEF Exposure
  <2>1. CASE u # t /\ v # t
    <3>1. u \in LiveTasks /\ v \in LiveTasks /\ Clash(Op(u), Op(v))
      BY <1>2, <2>1 DEF Clash
    <3>2. Damaged(Op(u), Id(u), v)' = Damaged(Op(u), Id(u), v)
      BY <1>2, <2>1 DEF Damaged, Named
    <3> QED BY <1>3, <2>1, <3>1, <3>2 DEF Exposure
  <2>2. CASE u = t
    <3>1. /\ v \in LiveTasks /\ Clash(op, Op(v))
          /\ Op(v)' = Op(v) /\ Id(v)' = Id(v)
      BY <1>2, <2>2 DEF Clash
    <3>2. Damaged(Op(u), Id(u), v)' = Damaged(op, id, v)
      BY <1>2, <2>2, <3>1 DEF Damaged, Named
    <3> QED BY <1>3, <3>1, <3>2
  <2>3. CASE v = t
    <3>1. /\ u \in LiveTasks /\ Clash(op, Op(u))
          /\ Op(u)' = Op(u) /\ Id(u)' = Id(u)
      BY <1>2, <2>3 DEF Clash
    <3>2. {op, Op(u)} = {Op(u), op}
      OBVIOUS
    <3>3. Named(Op(u), Id(u))' \cup Named(Op(v), Id(v))'
             = Named(op, id) \cup Named(Op(u), Id(u))
      BY <1>2, <2>3, <3>1 DEF Named
    <3>4. Damaged(Op(u), Id(u), v)' = Damaged(op, id, u)
      BY <1>2, <2>3, <3>1, <3>2, <3>3 DEF Damaged
    <3> QED BY <1>3, <3>1, <3>4
  <2> QED BY <2>1, <2>2, <2>3
<1>6. ChainOrder'
  <2>1. \A i \in 1..Len(chain) : chain[i] # t /\ chain[i] \in Tasks
    BY <1>2 DEF ChainOrder, TypeOK
  <2> QED BY <1>1, <1>2, <2>1 DEF ChainOrder, PCs, AllOps
<1> USE DEF TypeOK, AllOps
<1>7. OpOfLabel'
  BY <1>1, <1>2 DEF OpOfLabel
<1>8. CopiesFresh'
  BY <1>1, <1>2, <1>3 DEF CopiesFresh
<1>9. IngestProgress'
  BY <1>1, <1>2, <1>3 DEF IngestProgress
<1>10. RecoverProgress'
  BY <1>1, <1>2, <1>3 DEF RecoverProgress
<1>11. FieldsProgress'
  BY <1>1, <1>2, <1>3 DEF FieldsProgress
<1>12. DeleteProgress'
  BY <1>1, <1>2, <1>3 DEF DeleteProgress
<1>13. Recoverable'
  BY <1>2, <1>3 DEF Recoverable
<1>14. ListedIsStored'
  <2>1. \A u \in LiveTasks : u \in LiveTasks' /\ Op(u)' = Op(u) /\ Id(u)' =
       Id(u)
    BY <1>2
  <2> QED BY <1>2, <1>3, <2>1 DEF ListedIsStored
<1>15. BlobsStored'
  <2>1. \A u \in LiveTasks : u \in LiveTasks' /\ pc'[u] = pc[u] /\ Id(u)' =
       Id(u)
    BY <1>2
  <2> QED BY <1>2, <1>3, <2>1 DEF BlobsStored
<1>16. AckedStored'
  <2> SUFFICES ASSUME NEW i \in acked' \ exposed', NEW d \in LiveTasks',
                      Op(d)' = "delete", Id(d)' = i
               PROVE  FALSE
    BY <1>2, <1>3 DEF AckedStored, Deleting
  <2>1. d # t
    BY <1>2
  <2>2. d \in LiveTasks /\ Op(d) = "delete" /\ Id(d) = i /\ i \in acked \ exposed
    BY <1>2, <1>3, <2>1
  <2> QED BY <2>2 DEF AckedStored, Deleting
<1> QED BY <1>4, <1>5, <1>6, <1>7, <1>8, <1>9, <1>10, <1>11, <1>12, <1>13,
           <1>14, <1>15, <1>16

-----------------------------------------------------------------------------
LEMMA InitEstablishes == Init => IInv
<1> SUFFICES ASSUME Init PROVE IInv
  OBVIOUS
<1>1. TypeOK
  <2>1. NoRequest \in [op : AllOps, id : Ids]
    BY SomeIdIsId DEF NoRequest, AllOps
  <2> QED BY <2>1 DEF Init, TypeOK, PCs
<1>2. LiveTasks = {} /\ chain = <<>> /\ items = {} /\ index = {} /\ acked = {}
  BY DEF Init, LiveTasks, Live
<1>3. Exposure /\ OpOfLabel /\ IngestProgress /\ RecoverProgress
      /\ FieldsProgress /\ DeleteProgress
  BY <1>2 DEF Exposure, OpOfLabel, IngestProgress, RecoverProgress,
              FieldsProgress, DeleteProgress
<1>4. ChainOrder /\ CopiesFresh
  BY <1>2 DEF Init, ChainOrder, CopiesFresh
<1>5. Recoverable /\ ListedIsStored /\ BlobsStored /\ AckedStored
  BY <1>2 DEF Recoverable, ListedIsStored, BlobsStored, AckedStored
<1> QED BY <1>1, <1>3, <1>4, <1>5 DEF IInv

LEMMA NextPreserves == IInv /\ [Next]_vars => IInv'
<1> SUFFICES ASSUME IInv, [Next]_vars PROVE IInv'
  OBVIOUS
<1>1. ASSUME NEW t \in Tasks, NEW op \in Ops, NEW id \in Ids, Start(t, op, id)
      PROVE  IInv'
  BY <1>1, StartPres
<1>2. ASSUME NEW t \in Tasks, Step(t) PROVE IInv'
  BY <1>2, ProbePres, PutBlobsPres, MarkPres, PutPres, LoadForAppendPres,
     IndexSetPres, UnmarkPres, ReadFieldsPres, PutFieldsPres, LoadForDeletePres,
     ReadItemPres, DropBlobsPres, DropItemPres, SaveIndexPres, ListMarkersPres,
     ReadMarkerPres, LookItemPres, LookIndexPres DEF Step
<1>3. ASSUME NEW t \in Tasks, Fail(t) PROVE IInv'
  BY <1>3, FailPres
<1>4. CASE Crash
  BY <1>4, CrashPres
<1>5. CASE UNCHANGED vars
  <2> USE <1>5 DEF vars, disk, locals, history, IInv, LiveTasks, Live, Op, Id,
                   Ingesting
  <2>1. TypeOK' /\ ChainOrder' /\ CopiesFresh'
    BY DEF TypeOK, ChainOrder, CopiesFresh
  <2>2. Exposure' /\ OpOfLabel'
    BY ExposureKept DEF OpOfLabel
  <2>3. IngestProgress' /\ RecoverProgress' /\ FieldsProgress' /\
       DeleteProgress'
    BY DEF IngestProgress, RecoverProgress, FieldsProgress, DeleteProgress
  <2>4. Recoverable' /\ ListedIsStored' /\ BlobsStored' /\ AckedStored'
    BY DEF Recoverable, ListedIsStored, BlobsStored, AckedStored, Deleting
  <2> QED BY <2>1, <2>2, <2>3, <2>4
<1> QED BY <1>1, <1>2, <1>3, <1>4, <1>5 DEF Next, Finished

LEMMA Inductive == Spec => []IInv
  BY InitEstablishes, NextPreserves, PTL DEF Spec

\* The records, the index, the markers and the chain keep their types.
THEOREM TypeCorrect == Spec => []TypeOK
  BY Inductive, PTL DEF IInv

\* appendIndex: index updates through the chain are serialized.
THEOREM ChainIsSerial == Spec => []ChainSerializes
<1>1. IInv => ChainSerializes
  BY WriterIsHead DEF IInv, CopiesFresh, ChainSerializes
<1> QED BY <1>1, Inductive, PTL

\* _ingest and recoverOrphans: no crash and no failed write leaves an item
\* that nothing knows of.
THEOREM NothingIsLost == Spec => []Recoverable
  BY Inductive, PTL DEF IInv

\* _ingest: what was acknowledged is stored with its blobs, and findable.
THEOREM AcknowledgedIsKept == Spec => []AckedKept
<1>1. IInv => AckedKept
  BY DEF IInv, AckedKept, AckedStored, BlobsStored, Recoverable, OpOfLabel,
       Deleting
<1> QED BY <1>1, Inductive, PTL

\* The index never lists what is not stored.
THEOREM NothingIsListedInVain == Spec => []ListedIsStored
  BY Inductive, PTL DEF IInv
=============================================================================
