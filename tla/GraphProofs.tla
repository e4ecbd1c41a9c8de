----------------------------- MODULE GraphProofs -----------------------------
(* The graph store for any number of calls, nodes and edges: types, that    *)
(* the lists of a node name the edges that touch it, and that no edge is    *)
(* left without a node of its own.                                          *)
EXTENDS Graph, TLAPS

Locals == [op : Ops \cup {"none"}, node : Nodes \cup {None},
           edge : Edges \cup {None}, source : Nodes \cup {None},
           target : Nodes \cup {None}, missing : SUBSET Nodes,
           side : {"out", "in"}, read : SUBSET Edges, todo : SUBSET Edges,
           again : BOOLEAN, unseen : SUBSET Edges]

\* The labels of addEdge and import, of removeEdge, of removeNode.
AddPcs == {"hasSource", "hasTarget", "createSource", "createTarget", "setEdge",
           "getList", "setList", "recheckSource", "recheckTarget"}
CutPcs == {"getEdge", "unlist", "saveList", "deleteEdge"}
SweepPcs == {"getNode", "list", "relist", "nextEdge", "deleteNode"}

\* What a call at a label holds in its local variables.
Fits(t, label, l) ==
    /\ label \in {"idle", "done", "failed"} => l = Fresh
    /\ label \in AddPcs => l.op \in {"addEdge", "import"}
    /\ label \in {"hasSource", "hasTarget", "createSource", "createTarget", "setEdge"} =>
          l.side = "out"
    /\ label \in {"createSource", "createTarget", "recheckSource", "recheckTarget"} => l.op = "addEdge"
    /\ label \in CutPcs => l.op \in {"addEdge", "removeEdge", "removeNode"} /\ l.edge \in Edges
    /\ label \in SweepPcs => l.op = "removeNode"
    /\ label \in {"readNode", "writeNode"} => l.op = "updateNode"
    /\ label \in {"readEdge", "writeEdge"} => l.op = "updateEdge"
    /\ label \in {"clearNodes", "clearEdges", "clearOut", "clearIn"} => l.op = "clear"
    /\ l.op = "addEdge" => l.edge = NewEdge(t)
    /\ l.op \in {"addEdge", "import"} =>
          l.edge \in Edges /\ l.source \in Nodes /\ l.target \in Nodes
    /\ l.op \in {"removeEdge", "updateEdge"} => l.edge \in Edges
    /\ l.op \in {"removeNode", "updateNode"} => l.node \in Nodes
    /\ label \in {"unlist", "saveList", "deleteEdge", "writeEdge"} =>
          l.source \in Nodes /\ l.target \in Nodes

Places == \A t \in Tasks : Fits(t, gpc[t], gloc[t])

Base == GraphTypeOK /\ Places

-----------------------------------------------------------------------------
(* The inductive invariant: the lists.  Between the write of an edge and    *)
(* those of its two lists, some call has still to file it; between the      *)
(* writes of the lists and the delete of the edge, some call has still to   *)
(* delete it.                                                               *)

\* The node in whose list of a side an edge belongs.
End(r, side) == IF side = "out" THEN r.source ELSE r.target
Ends(t) == [source |-> gloc[t].source, target |-> gloc[t].target]

\* A call has not stored its edge yet.
NotYet(t) == gpc[t] \in {"idle", "hasSource", "hasTarget", "createSource", "createTarget", "setEdge"}

\* A removal holds the ends of e, as an update may; or is about to read them.
Removes(t, e) == gloc[t].edge = e /\ gpc[t] \in {"unlist", "saveList", "deleteEdge"}
Holds(t, e) == gloc[t].edge = e /\ gpc[t] \in {"unlist", "saveList", "deleteEdge", "writeEdge"}
Doom(t, e) == gloc[t].edge = e /\ gpc[t] \in CutPcs
Doomed(e) == \E t \in Tasks : Doom(t, e)

\* A removal has taken e off its list of that side.
Unlisted(t, e, side) ==
    /\ gloc[t].edge = e
    /\ \/ gpc[t] = "deleteEdge"
       \/ side = "out" /\ gloc[t].side = "in" /\ gpc[t] \in {"unlist", "saveList"}

\* A call has stored e and not yet listed it on that side.
Unfiled(t, e, side) ==
    /\ gloc[t].edge = e /\ gpc[t] \in {"getList", "setList"}
    /\ side = "in" \/ gloc[t].side = "out"

\* clear has emptied the edges and not yet the lists of that side.
Clearing(side) == \E t \in Tasks : \/ gpc[t] = "clearOut"
                                   \/ side = "in" /\ gpc[t] = "clearIn"

Unused(e) == e \notin StoredEdges /\ \A u \in Tasks : ~Holds(u, e)

\* Nobody else has the id that addEdge generates before it stores its edge, and
\* no call has read an edge of the id that an import brings, if none is stored.
FreshEdges ==
    \A t \in Tasks :
        /\ NotYet(t) /\ gloc[t].op # "import" /\ NewEdge(t) \notin loose => Unused(NewEdge(t))
        /\ /\ NotYet(t) /\ gloc[t].op = "import"
           /\ gloc[t].edge \notin loose \cup StoredEdges
           => Unused(gloc[t].edge)
        /\ gpc[t] = "idle" => \A u \in Adding : gloc[u].edge # NewEdge(t)

\* An edge that two calls add at a time is loose.
AddsApart ==
    \A t \in Adding, u \in Adding :
        t # u /\ gloc[t].edge = gloc[u].edge => gloc[t].edge \in loose

\* What a call has stored is stored as long as the call runs.
AddedStored ==
    \A t \in Adding : gloc[t].edge \notin loose /\ ~NotYet(t) => edges[gloc[t].edge] = Ends(t)

\* The ends that a call has read of an edge are still its ends.
HeldTrue ==
    \A t \in Tasks, e \in StoredEdges \ loose : Holds(t, e) => edges[e] = Ends(t)

\* An edge that is removed while its own call still adds it is loose.
AddedAlone ==
    \A t \in Adding, u \in Tasks :
        u # t /\ Removes(u, gloc[t].edge) => gloc[t].edge \in loose

\* A list from which a removal has taken its edge does not get it back.
CutDone ==
    \A t \in Tasks, e \in Edges \ loose, side \in {"out", "in"} :
        /\ Unlisted(t, e, side)
        /\ <<side, End(gloc[t], side)>> \notin clashed
        => e \notin index[<<side, End(gloc[t], side)>>]

\* A stored edge is listed on each side, or a call is between the edge and the list.
ListsComplete ==
    \A e \in StoredEdges \ loose, side \in {"out", "in"} :
        <<side, End(edges[e], side)>> \notin clashed =>
            \/ e \in index[<<side, End(edges[e], side)>>]
            \/ \E t \in Tasks : Unfiled(t, e, side) \/ Unlisted(t, e, side)

\* What a list names is stored and has its end there, but for a clear that is half done.
ListsTrue ==
    \A side \in {"out", "in"}, n \in Nodes :
        <<side, n>> \notin clashed /\ ~Clearing(side) =>
            \A e \in index[<<side, n>>] \ loose : e \in StoredEdges /\ End(edges[e], side) = n

EdgesInv == FreshEdges /\ AddsApart /\ AddedStored /\ HeldTrue /\ AddedAlone
ListsInv == EdgesInv /\ CutDone /\ ListsComplete /\ ListsTrue

-----------------------------------------------------------------------------
(* The inductive invariant: the nodes.  An edge whose node is gone is about *)
(* to be removed: by the second look of its addEdge, or by the removal of   *)
(* the node, whose second look finds the edge in the lists or counts it     *)
(* among those still being added.                                           *)

\* addEdge has still to look at n for the second time, or has missed it.
WillCheck(t, e, n) ==
    /\ gloc[t].op = "addEdge" /\ gloc[t].edge = e
    /\ gpc[t] = "recheckTarget" => n = gloc[t].target \/ n \in gloc[t].missing

\* The node n of e is there, or e will go.
Safe(e, n) ==
    \/ n \in nodes \/ Doomed(e)
    \/ \E t \in Tasks : WillCheck(t, e, n) \/ gpc[t] = "clearEdges"

\* A stored edge that no failure, overlap or lost update of a list concerns.
Exact(e) == e \in StoredEdges /\ Sound(e, edges[e].source, edges[e].target)

Anchored ==
    \A e \in Edges : Exact(e) => \A n \in {edges[e].source, edges[e].target} : Safe(e, n)

\* import has seen the nodes of its edge, and nobody has removed them.
Knows(t) ==
    gloc[t].edge \notin loose =>
        /\ gpc[t] # "hasSource" => gloc[t].source \in nodes \cup gloc[t].missing
        /\ gpc[t] \in {"setEdge", "getList", "setList"} =>
              gloc[t].source \in nodes /\ gloc[t].target \in nodes

ImportsKnow == \A t \in Running("import") : Knows(t)

\* A removal of a node that has begun its second look.
Late(t) == gloc[t].op = "removeNode" /\ gloc[t].again /\ gpc[t] # "list"

\* It knows of every edge that is being added to its node.
NoticedBy(t) ==
    \A u \in Adding :
        Late(t) /\ Touches(u, gloc[t].node) /\ gloc[u].edge \notin loose
            => gloc[u].edge \in gloc[t].unseen

Noticed == \A t \in Tasks : NoticedBy(t)

\* It has found the stored edges of its node, knows of them, or they are about to go.
SweptBy(t, e) ==
    /\ Late(t)
    /\ \/ edges[e].target = gloc[t].node
       \/ edges[e].source = gloc[t].node /\ gpc[t] # "relist"
    => e \in gloc[t].todo \cup gloc[t].unseen \/ Doomed(e)

Swept == \A t \in Tasks, e \in Edges : Exact(e) => SweptBy(t, e)

\* The node goes last.
SweepEnded(t) == gpc[t] = "deleteNode" => gloc[t].again /\ gloc[t].todo = {}
SweepEnds == \A t \in Tasks : SweepEnded(t)

NodesInv == ImportsKnow /\ Noticed /\ (options.cascade => Anchored /\ Swept /\ SweepEnds)

-----------------------------------------------------------------------------
(* What a jump does.                                                        *)

LEMMA FreshIsLocal == Fresh \in Locals
  BY DEF Fresh, Locals, Ops

LEMMA BaseOf ==
  ASSUME Base, NEW t \in Tasks
  PROVE  gpc[t] \in Labels /\ gloc[t] \in Locals /\ Fits(t, gpc[t], gloc[t])
  BY DEF Base, Places, GraphTypeOK, Locals

\* Task t is now at label, with l; the others are where they were.
Moved(t, label, l) ==
    /\ gpc'[t] = label
    /\ gloc'[t] = l
    /\ \A u \in Tasks \ {t} : gpc'[u] = gpc[u] /\ gloc'[u] = gloc[u]

LEMMA JumpEffect ==
  ASSUME Base, NEW t \in Tasks, NEW label \in Labels, NEW l \in Locals,
         Jump(t, label, l), label \in Ended \/ Fits(t, label, l)
  PROVE  /\ Moved(t, label, IF label \in Ended THEN Fresh ELSE l)
         /\ gpc' \in [Tasks -> Labels]
         /\ gloc' \in [Tasks -> Locals]
         /\ Places'
<1>1. gloc \in [Tasks -> Locals] /\ gpc \in [Tasks -> Labels]
  BY DEF Base, GraphTypeOK, Locals
<1>2. (IF label \in Ended THEN Fresh ELSE l) \in Locals
  BY FreshIsLocal
<1>3. /\ Moved(t, label, IF label \in Ended THEN Fresh ELSE l)
      /\ gpc' \in [Tasks -> Labels]
      /\ gloc' \in [Tasks -> Locals]
  BY <1>1, <1>2, Zenon DEF Jump, Moved
<1>4. Fits(t, label, IF label \in Ended THEN Fresh ELSE l)
  BY DEF Ended, Fits, Fresh, AddPcs, CutPcs, SweepPcs
<1>5. \A u \in Tasks : Fits(u, gpc[u], gloc[u])
  BY DEF Base, Places
<1>6. Places'
  BY <1>3, <1>4, <1>5, Zenon DEF Places, Moved
<1> QED BY <1>3, <1>6

LEMMA AddingEdges ==
  ASSUME GraphAssumption, Base, NEW u \in Adding
  PROVE  /\ u \in Tasks /\ gloc[u].edge \in Edges
         /\ gloc[u].source \in Nodes /\ gloc[u].target \in Nodes
  BY BaseOf DEF GraphAssumption, Adding, Running, Fits

-----------------------------------------------------------------------------
(* Where each step leaves its task, and that types and places are kept.     *)

Typed == gpc' \in [Tasks -> Labels] /\ gloc' \in [Tasks -> Locals] /\ Places'

\* A jump to an end.
LEMMA EndEffect ==
  ASSUME Base, NEW t \in Tasks, NEW label \in Ended, Goto(t, label)
  PROVE  Moved(t, label, Fresh) /\ Typed
<1>1. label \in Labels
  BY DEF Labels, Ended
<1> QED BY <1>1, BaseOf, JumpEffect DEF Goto, Typed

\* A jump to a label that is not an end.
LEMMA GoEffect ==
  ASSUME Base, NEW t \in Tasks, NEW label \in Labels \ Ended, NEW l \in Locals,
         Jump(t, label, l), Fits(t, label, l)
  PROVE  Moved(t, label, l) /\ Typed
  BY JumpEffect DEF Typed

\* Steps of the local variables keep the type of the records.
LEMMA LocalKept ==
  ASSUME Base, UNCHANGED <<options, records, clashed, loose>>, Typed
  PROVE  Base'
  BY DEF Base, GraphTypeOK, Locals, records, Typed

LEMMA HasSourceEffect ==
  ASSUME Base, NEW t \in Tasks, HasSource(t)
  PROVE  /\ Base'
         /\ Moved(t, "hasTarget", [gloc[t] EXCEPT !.missing = @ \cup ({gloc[t].source} \ nodes)])
<1> DEFINE l == [gloc[t] EXCEPT !.missing = @ \cup ({gloc[t].source} \ nodes)]
<1>1. gpc[t] = "hasSource" /\ Jump(t, "hasTarget", l) /\ UNCHANGED <<options, records, clashed, loose>>
  BY DEF HasSource, Has
<1>2. l \in Locals /\ Fits(t, "hasTarget", l)
  BY <1>1, BaseOf DEF Locals, Fits, AddPcs, CutPcs, SweepPcs
<1> HIDE DEF l
<1>3. Moved(t, "hasTarget", l) /\ Typed
  BY <1>1, <1>2, GoEffect DEF Labels, Ended
<1> QED BY <1>1, <1>3, LocalKept DEF l

LEMMA HasTargetEffect ==
  ASSUME Base, NEW t \in Tasks, HasTarget(t)
  PROVE  /\ Base'
         /\ \/ Moved(t, "done", Fresh)
            \/ \E label \in {"setEdge", "createSource", "createTarget"} :
                  /\ Moved(t, label, [gloc[t] EXCEPT !.missing = @ \cup ({gloc[t].target} \ nodes)])
                  /\ label = "setEdge" => gloc[t].missing \cup ({gloc[t].target} \ nodes) = {}
                  /\ label # "setEdge" => gloc[t].op = "addEdge"
<1> DEFINE l == [gloc[t] EXCEPT !.missing = @ \cup ({gloc[t].target} \ nodes)]
           absent == gloc[t].missing \cup ({gloc[t].target} \ nodes)
<1>1. gpc[t] = "hasTarget" /\ UNCHANGED <<options, records, clashed, loose>>
  BY DEF HasTarget, Has
<1>2. \/ Jump(t, "done", l)
      \/ \E label \in {"setEdge", "createSource", "createTarget"} :
            /\ Jump(t, label, l)
            /\ label = "setEdge" => absent = {}
            /\ label # "setEdge" => gloc[t].op # "import"
  BY DEF HasTarget, Has
<1>3. l \in Locals /\ gloc[t].op \in {"addEdge", "import"}
  BY <1>1, BaseOf DEF Locals, Fits, AddPcs
<1>4. CASE Jump(t, "done", l)
  <2>1. Moved(t, "done", Fresh) /\ Typed
    BY <1>3, <1>4, JumpEffect DEF Labels, Ended, Typed
  <2> QED BY <1>1, <2>1, LocalKept
<1>5. ASSUME NEW label \in {"setEdge", "createSource", "createTarget"}, Jump(t, label, l),
             label # "setEdge" => gloc[t].op # "import"
      PROVE  Base' /\ Moved(t, label, l)
  <2>1. Fits(t, label, l)
    BY <1>1, <1>3, <1>5, BaseOf DEF Locals, Fits, AddPcs, CutPcs, SweepPcs
  <2> HIDE DEF l
  <2>2. Moved(t, label, l) /\ Typed
    BY <1>3, <1>5, <2>1, GoEffect DEF Labels, Ended
  <2> QED BY <1>1, <2>2, LocalKept
<1> QED BY <1>2, <1>3, <1>4, <1>5

LEMMA CreateEffect ==
  ASSUME Base, NEW t \in Tasks, Create(t)
  PROVE  /\ Base' /\ nodes \subseteq nodes'
         /\ \E label \in {"createTarget", "setEdge"} : Moved(t, label, gloc[t])
<1>1. /\ gpc[t] \in {"createSource", "createTarget"}
      /\ UNCHANGED <<options, edges, index, clashed, loose>>
      /\ nodes' = nodes \cup {IF gpc[t] = "createSource" THEN gloc[t].source ELSE gloc[t].target}
  BY DEF Create
<1>2. \E label \in {"createTarget", "setEdge"} : Jump(t, label, gloc[t])
  BY DEF Create, Goto
<1>3. gloc[t] \in Locals /\ nodes' \subseteq Nodes
  BY <1>1, BaseOf DEF Fits, AddPcs, Base, GraphTypeOK
<1>4. ASSUME NEW label \in {"createTarget", "setEdge"}, Jump(t, label, gloc[t])
      PROVE  Moved(t, label, gloc[t]) /\ Typed
  <2>1. Fits(t, label, gloc[t])
    BY <1>1, BaseOf DEF Fits, AddPcs, CutPcs, SweepPcs
  <2> QED BY <1>3, <1>4, <2>1, GoEffect DEF Labels, Ended
<1> QED BY <1>1, <1>2, <1>3, <1>4 DEF Base, GraphTypeOK, Locals, Typed

LEMMA SetEdgeEffect ==
  ASSUME Base, NEW t \in Tasks, SetEdge(t)
  PROVE  Base' /\ Moved(t, "getList", gloc[t])
<1>1. /\ gpc[t] = "setEdge" /\ Jump(t, "getList", gloc[t])
      /\ UNCHANGED <<options, nodes, index, clashed>>
      /\ edges' = [edges EXCEPT ![gloc[t].edge] = Ends(t)]
      /\ loose' \subseteq loose \cup Edges
  BY DEF SetEdge, Goto, Ends, StoredEdges
<1>2. gloc[t] \in Locals /\ Fits(t, "getList", gloc[t]) /\ Ends(t) \in EdgeRecords
  BY <1>1, BaseOf DEF Fits, AddPcs, CutPcs, SweepPcs, Ends, EdgeRecords
<1>3. Moved(t, "getList", gloc[t]) /\ Typed
  BY <1>1, <1>2, GoEffect DEF Labels, Ended
<1>4. edges' \in [Edges -> EdgeRecords \cup {None}]
  BY <1>1, <1>2 DEF Base, GraphTypeOK
<1> QED BY <1>1, <1>3, <1>4 DEF Base, GraphTypeOK, Locals, Typed

LEMMA ListOfIsList ==
  ASSUME Base, NEW t \in Tasks, gpc[t] \in {"getList", "setList", "unlist", "saveList"}
  PROVE  ListOf(t) \in Lists /\ ListOf(t) = <<gloc[t].side, End(gloc[t], gloc[t].side)>>
  BY BaseOf DEF Fits, AddPcs, Locals, ListOf, Lists, End

LEMMA GetListEffect ==
  ASSUME Base, NEW t \in Tasks, GetList(t) \/ Unlist(t)
  PROVE  /\ Base'
         /\ Moved(t, IF gpc[t] = "getList" THEN "setList" ELSE "saveList",
                  [gloc[t] EXCEPT !.read = index[ListOf(t)]])
<1> DEFINE l == [gloc[t] EXCEPT !.read = index[ListOf(t)]]
           label == IF gpc[t] = "getList" THEN "setList" ELSE "saveList"
<1>1. /\ gpc[t] \in {"getList", "unlist"} /\ Jump(t, label, l)
      /\ UNCHANGED <<options, records, clashed, loose>>
  BY DEF GetList, Unlist
<1>2. index[ListOf(t)] \subseteq Edges
  BY <1>1, ListOfIsList DEF Base, GraphTypeOK
<1>3. l \in Locals /\ Fits(t, label, l)
  BY <1>1, <1>2, BaseOf DEF Locals, Fits, AddPcs, CutPcs, SweepPcs
<1>4. label \in Labels \ Ended
  BY DEF Labels, Ended
<1> HIDE DEF l, label
<1>5. Moved(t, label, l) /\ Typed
  BY <1>1, <1>3, <1>4, GoEffect
<1> QED BY <1>1, <1>5, LocalKept DEF l, label

LEMMA WriteListKept ==
  ASSUME Base, NEW t \in Tasks, gpc[t] \in {"getList", "setList", "unlist", "saveList"},
         NEW list \in SUBSET Edges, WriteList(t, list)
  PROVE  /\ index' \in [Lists -> SUBSET Edges] /\ clashed' \subseteq Lists
         /\ clashed \subseteq clashed'
         /\ ListOf(t) \notin clashed' => index[ListOf(t)] = gloc[t].read
         /\ index'[ListOf(t)] = list
         /\ \A k \in Lists : k # ListOf(t) => index'[k] = index[k]
<1>1. ListOf(t) \in Lists
  BY ListOfIsList
<1> QED BY <1>1 DEF Base, GraphTypeOK, WriteList

LEMMA SetListEffect ==
  ASSUME GraphAssumption, Base, NEW t \in Tasks, SetList(t)
  PROVE  /\ Base'
         /\ IF gloc[t].side = "out" THEN Moved(t, "getList", [gloc[t] EXCEPT !.side = "in"])
            ELSE IF gloc[t].op = "import" THEN Moved(t, "done", Fresh)
            ELSE Moved(t, "recheckSource", [gloc[t] EXCEPT !.missing = {}])
<1> DEFINE l == [gloc[t] EXCEPT !.side = "in"]
           m == [gloc[t] EXCEPT !.missing = {}]
<1>1. /\ gpc[t] = "setList" /\ WriteList(t, gloc[t].read \cup {gloc[t].edge})
      /\ UNCHANGED <<options, nodes, edges, loose>>
      /\ IF gloc[t].side = "out" THEN Jump(t, "getList", l)
         ELSE Jump(t, IF gloc[t].op = "import" THEN "done" ELSE "recheckSource", m)
  BY DEF SetList
<1>2. gloc[t] \in Locals /\ Fits(t, "setList", gloc[t])
  BY <1>1, BaseOf
<1>3. l \in Locals /\ m \in Locals /\ gloc[t].op \in {"addEdge", "import"}
  BY <1>2 DEF Locals, Fits, AddPcs
<1>4. Fits(t, "getList", l)
  BY <1>2 DEF Locals, Fits, AddPcs, CutPcs, SweepPcs
<1>5. gloc[t].op # "import" => Fits(t, "recheckSource", m)
  BY <1>2, <1>3 DEF Locals, Fits, AddPcs, CutPcs, SweepPcs
<1>6. gloc[t].read \cup {gloc[t].edge} \in SUBSET Edges
  BY <1>2, <1>3, AddingEdges DEF Adding, Running, Locals
<1>7. index' \in [Lists -> SUBSET Edges] /\ clashed' \subseteq Lists
  BY <1>1, <1>6, WriteListKept
<1>8. Typed => Base'
  BY <1>1, <1>7 DEF Base, GraphTypeOK, Locals, Typed
<1> HIDE DEF l, m
<1>9. CASE gloc[t].side = "out"
  BY <1>1, <1>3, <1>4, <1>8, <1>9, GoEffect DEF Labels, Ended, l
<1>10. CASE gloc[t].side # "out" /\ gloc[t].op = "import"
  BY <1>1, <1>3, <1>8, <1>10, JumpEffect DEF Labels, Ended, Typed
<1>11. CASE gloc[t].side # "out" /\ gloc[t].op # "import"
  BY <1>1, <1>3, <1>5, <1>8, <1>11, GoEffect DEF Labels, Ended, m
<1> QED BY <1>9, <1>10, <1>11

LEMMA RecheckSourceEffect ==
  ASSUME Base, NEW t \in Tasks, RecheckSource(t)
  PROVE  /\ Base'
         /\ Moved(t, "recheckTarget",
                  [gloc[t] EXCEPT !.missing = @ \cup ({gloc[t].source} \ nodes)])
<1> DEFINE l == [gloc[t] EXCEPT !.missing = @ \cup ({gloc[t].source} \ nodes)]
<1>1. /\ gpc[t] = "recheckSource" /\ Jump(t, "recheckTarget", l)
      /\ UNCHANGED <<options, records, clashed, loose>>
  BY DEF RecheckSource, Has
<1>2. l \in Locals /\ Fits(t, "recheckTarget", l)
  BY <1>1, BaseOf DEF Locals, Fits, AddPcs, CutPcs, SweepPcs
<1> HIDE DEF l
<1>3. Moved(t, "recheckTarget", l) /\ Typed
  BY <1>1, <1>2, GoEffect DEF Labels, Ended
<1> QED BY <1>1, <1>3, LocalKept DEF l

LEMMA RecheckTargetEffect ==
  ASSUME GraphAssumption, Base, NEW t \in Tasks, RecheckTarget(t)
  PROVE  /\ Base'
         /\ IF gloc[t].missing \cup ({gloc[t].target} \ nodes) = {} THEN Moved(t, "done", Fresh)
            ELSE Moved(t, "getEdge",
                       [gloc[t] EXCEPT !.missing = @ \cup ({gloc[t].target} \ nodes)])
<1> DEFINE l == [gloc[t] EXCEPT !.missing = @ \cup ({gloc[t].target} \ nodes)]
           gone == gloc[t].missing \cup ({gloc[t].target} \ nodes)
<1>1. /\ gpc[t] = "recheckTarget" /\ Jump(t, IF gone = {} THEN "done" ELSE "getEdge", l)
      /\ UNCHANGED <<options, records, clashed, loose>>
  BY DEF RecheckTarget, Has
<1>2. gloc[t] \in Locals /\ Fits(t, "recheckTarget", gloc[t]) /\ gloc[t].edge \in Edges
  BY <1>1, BaseOf, AddingEdges DEF Adding, Running, Fits, AddPcs
<1>3. l \in Locals /\ Fits(t, "getEdge", l)
  BY <1>2 DEF Locals, Fits, AddPcs, CutPcs, SweepPcs
<1>4. l = [gloc[t] EXCEPT !.missing = @ \cup ({gloc[t].target} \ nodes)]
  OBVIOUS
<1> HIDE DEF l, gone
<1>5. CASE gone = {}
  BY <1>1, <1>3, <1>5, JumpEffect, LocalKept DEF Labels, Ended, Typed, gone
<1>6. CASE gone # {}
  BY <1>1, <1>3, <1>4, <1>6, GoEffect, LocalKept DEF Labels, Ended, gone
<1> QED BY <1>5, <1>6

\* What removeEdge goes on with.
LEMMA AfterEffect ==
  ASSUME Base, NEW t \in Tasks, gpc[t] \in {"getEdge", "deleteEdge"}, Goto(t, After(t))
  PROVE  /\ Typed
         /\ IF gloc[t].op = "removeNode" THEN Moved(t, "nextEdge", gloc[t])
            ELSE Moved(t, "done", Fresh)
<1>1. CASE gloc[t].op = "removeNode"
  <2>1. Jump(t, "nextEdge", gloc[t])
    BY <1>1 DEF After, Goto
  <2>2. gloc[t] \in Locals /\ Fits(t, "nextEdge", gloc[t])
    BY <1>1, BaseOf DEF Fits, AddPcs, CutPcs, SweepPcs
  <2> QED BY <1>1, <2>1, <2>2, GoEffect DEF Labels, Ended
<1>2. CASE gloc[t].op # "removeNode"
  BY <1>2, EndEffect DEF After, Ended
<1> QED BY <1>1, <1>2

LEMMA StoredEdge ==
  ASSUME GraphAssumption, Base, NEW e \in Edges
  PROVE  e \in StoredEdges <=> edges[e] \in EdgeRecords
  BY DEF GraphAssumption, Base, GraphTypeOK, StoredEdges, EdgeRecords

LEMMA GetEdgeEffect ==
  ASSUME GraphAssumption, Base, NEW t \in Tasks, GetEdge(t)
  PROVE  /\ Base' /\ gloc[t].edge \in Edges
         /\ \/ /\ gloc[t].edge \in StoredEdges
               /\ Moved(t, "unlist", [gloc[t] EXCEPT !.source = edges[gloc[t].edge].source,
                                         !.target = edges[gloc[t].edge].target, !.side = "out"])
            \/ /\ gloc[t].edge \notin StoredEdges
               /\ IF gloc[t].op = "removeNode" THEN Moved(t, "nextEdge", gloc[t])
                  ELSE Moved(t, "done", Fresh)
<1> DEFINE l == [gloc[t] EXCEPT !.source = edges[gloc[t].edge].source,
                                !.target = edges[gloc[t].edge].target, !.side = "out"]
<1>1. /\ gpc[t] = "getEdge" /\ UNCHANGED <<options, records, clashed>>
      /\ loose' = loose \cup ({gloc[t].edge} \cap StoredEdges \cap HalfAdded(t))
      /\ IF gloc[t].edge \in StoredEdges THEN Jump(t, "unlist", l) ELSE Goto(t, After(t))
  BY DEF GetEdge
<1>2. gloc[t] \in Locals /\ Fits(t, "getEdge", gloc[t]) /\ gloc[t].edge \in Edges
  BY <1>1, BaseOf DEF Fits, CutPcs
<1>3. Typed => Base'
  BY <1>1, <1>2 DEF Typed, Base, GraphTypeOK, Locals, records
<1>4. CASE gloc[t].edge \in StoredEdges
  <2>1. edges[gloc[t].edge].source \in Nodes /\ edges[gloc[t].edge].target \in Nodes
    BY <1>2, <1>4, StoredEdge DEF EdgeRecords
  <2>2. l \in Locals
    BY <1>2, <2>1 DEF Locals
  <2>3. Fits(t, "unlist", l)
    BY <1>2, <2>1 DEF Locals, Fits, AddPcs, CutPcs, SweepPcs
  <2>4. l = [gloc[t] EXCEPT !.source = edges[gloc[t].edge].source,
                            !.target = edges[gloc[t].edge].target, !.side = "out"]
    OBVIOUS
  <2> HIDE DEF l
  <2>5. Moved(t, "unlist", l) /\ Typed
    BY <1>1, <1>4, <2>2, <2>3, GoEffect DEF Labels, Ended
  <2> QED BY <1>2, <1>3, <1>4, <2>4, <2>5
<1>5. CASE gloc[t].edge \notin StoredEdges
  BY <1>1, <1>2, <1>3, <1>5, AfterEffect
<1> QED BY <1>4, <1>5

LEMMA SaveListEffect ==
  ASSUME Base, NEW t \in Tasks, SaveList(t)
  PROVE  /\ Base'
         /\ IF gloc[t].side = "out" THEN Moved(t, "unlist", [gloc[t] EXCEPT !.side = "in"])
            ELSE Moved(t, "deleteEdge", gloc[t])
<1> DEFINE l == [gloc[t] EXCEPT !.side = "in"]
<1>1. /\ gpc[t] = "saveList" /\ WriteList(t, gloc[t].read \ {gloc[t].edge})
      /\ UNCHANGED <<options, nodes, edges, loose>>
      /\ IF gloc[t].side = "out" THEN Jump(t, "unlist", l) ELSE Jump(t, "deleteEdge", gloc[t])
  BY DEF SaveList, Goto
<1>2. gloc[t] \in Locals /\ Fits(t, "saveList", gloc[t])
  BY <1>1, BaseOf
<1>3. l \in Locals /\ Fits(t, "unlist", l) /\ Fits(t, "deleteEdge", gloc[t])
  BY <1>2 DEF Locals, Fits, AddPcs, CutPcs, SweepPcs
<1>4. index' \in [Lists -> SUBSET Edges] /\ clashed' \subseteq Lists
  <2>1. gloc[t].read \ {gloc[t].edge} \in SUBSET Edges
    BY <1>2 DEF Locals
  <2> QED BY <1>1, <2>1, WriteListKept
<1>5. Typed => Base'
  BY <1>1, <1>4 DEF Base, GraphTypeOK, Locals, Typed
<1>6. CASE gloc[t].side = "out"
  <2> HIDE DEF l
  <2>1. Moved(t, "unlist", l) /\ Typed
    BY <1>1, <1>3, <1>6, GoEffect DEF Labels, Ended
  <2> QED BY <1>5, <1>6, <2>1 DEF l
<1>7. CASE gloc[t].side # "out"
  BY <1>1, <1>2, <1>3, <1>5, <1>7, GoEffect DEF Labels, Ended
<1> QED BY <1>6, <1>7

LEMMA DeleteEdgeEffect ==
  ASSUME Base, NEW t \in Tasks, DeleteEdge(t)
  PROVE  /\ Base' /\ gloc[t].edge \in Edges
         /\ IF gloc[t].op = "removeNode" THEN Moved(t, "nextEdge", gloc[t])
            ELSE Moved(t, "done", Fresh)
<1>1. /\ gpc[t] = "deleteEdge" /\ Goto(t, After(t))
      /\ edges' = [edges EXCEPT ![gloc[t].edge] = None]
      /\ UNCHANGED <<options, nodes, index, clashed, loose>>
  BY DEF DeleteEdge
<1>2. gloc[t].edge \in Edges
  BY <1>1, BaseOf DEF Fits, CutPcs
<1>3. edges' \in [Edges -> EdgeRecords \cup {None}]
  BY <1>1 DEF Base, GraphTypeOK
<1>4. Typed => Base'
  BY <1>1, <1>3 DEF Base, GraphTypeOK, Locals, Typed
<1> QED BY <1>1, <1>2, <1>4, AfterEffect

LEMMA GetNodeEffect ==
  ASSUME Base, NEW t \in Tasks, GetNode(t)
  PROVE  /\ Base'
         /\ \/ Moved(t, "done", Fresh)
            \/ Moved(t, "list", gloc[t])
            \/ ~options.cascade /\ Moved(t, "deleteNode", gloc[t])
<1>1. gpc[t] = "getNode" /\ UNCHANGED <<options, records, clashed, loose>>
  BY DEF GetNode
<1>2. \/ Goto(t, "done") \/ Goto(t, "list")
      \/ ~options.cascade /\ Goto(t, "deleteNode")
  BY DEF GetNode
<1>3. ASSUME NEW label \in {"list", "deleteNode"}, Goto(t, label)
      PROVE  Moved(t, label, gloc[t]) /\ Typed
  <2>1. Jump(t, label, gloc[t])
    BY <1>3 DEF Goto
  <2>2. Fits(t, label, gloc[t])
    BY <1>1, BaseOf DEF Fits, AddPcs, CutPcs, SweepPcs
  <2> QED BY <2>1, <2>2, BaseOf, GoEffect DEF Labels, Ended
<1> QED BY <1>1, <1>2, <1>3, EndEffect, LocalKept DEF Ended

LEMMA ListEffect ==
  ASSUME GraphAssumption, Base, NEW t \in Tasks, List(t)
  PROVE  /\ Base'
         /\ Moved(t, "relist", [gloc[t] EXCEPT !.todo = Listed("in", gloc[t].node),
                    !.unseen = IF gloc[t].again THEN BeingAdded(gloc[t].node) ELSE {}])
<1> DEFINE l == [gloc[t] EXCEPT !.todo = Listed("in", gloc[t].node),
                    !.unseen = IF gloc[t].again THEN BeingAdded(gloc[t].node) ELSE {}]
<1>1. /\ gpc[t] = "list" /\ Jump(t, "relist", l) /\ UNCHANGED <<options, records, clashed, loose>>
  BY DEF List
<1>2. Listed("in", gloc[t].node) \subseteq Edges
  BY DEF Listed, StoredEdges
<1>3. BeingAdded(gloc[t].node) \subseteq Edges
  BY AddingEdges DEF BeingAdded
<1>4. l \in Locals /\ Fits(t, "relist", l)
  BY <1>1, <1>2, <1>3, BaseOf DEF Locals, Fits, AddPcs, CutPcs, SweepPcs
<1> HIDE DEF l
<1>5. Moved(t, "relist", l) /\ Typed
  BY <1>1, <1>4, GoEffect DEF Labels, Ended
<1> QED BY <1>1, <1>5, LocalKept DEF l

LEMMA ListOutEffect ==
  ASSUME Base, NEW t \in Tasks, ListOut(t)
  PROVE  /\ Base'
         /\ Moved(t, "nextEdge",
                  [gloc[t] EXCEPT !.todo = @ \cup Listed("out", gloc[t].node)])
<1> DEFINE l == [gloc[t] EXCEPT !.todo = @ \cup Listed("out", gloc[t].node)]
<1>1. /\ gpc[t] = "relist" /\ Jump(t, "nextEdge", l)
      /\ UNCHANGED <<options, records, clashed, loose>>
  BY DEF ListOut
<1>2. Listed("out", gloc[t].node) \subseteq Edges
  BY DEF Listed, StoredEdges
<1>3. l \in Locals /\ Fits(t, "nextEdge", l)
  BY <1>1, <1>2, BaseOf DEF Locals, Fits, AddPcs, CutPcs, SweepPcs
<1> HIDE DEF l
<1>4. Moved(t, "nextEdge", l) /\ Typed
  BY <1>1, <1>3, GoEffect DEF Labels, Ended
<1> QED BY <1>1, <1>4, LocalKept DEF l

LEMMA NextEdgeEffect ==
  ASSUME Base, NEW t \in Tasks, NextEdge(t)
  PROVE  /\ Base'
         /\ \/ \E e \in gloc[t].todo :
                  Moved(t, "getEdge", [gloc[t] EXCEPT !.edge = e, !.todo = @ \ {e}])
            \/ /\ gloc[t].todo = {}
               /\ Moved(t, IF gloc[t].again THEN "deleteNode" ELSE "list",
                        [gloc[t] EXCEPT !.again = TRUE])
<1>1. gpc[t] = "nextEdge" /\ UNCHANGED <<options, records, clashed, loose>>
  BY DEF NextEdge
<1>2. gloc[t] \in Locals /\ Fits(t, "nextEdge", gloc[t])
  BY <1>1, BaseOf
<1>3. CASE gloc[t].todo # {}
  <2>1. PICK e \in gloc[t].todo : Jump(t, "getEdge", [gloc[t] EXCEPT !.edge = e, !.todo = @ \ {e}])
    BY <1>3 DEF NextEdge
  <2> DEFINE l == [gloc[t] EXCEPT !.edge = e, !.todo = @ \ {e}]
  <2>2. l \in Locals /\ Fits(t, "getEdge", l)
    BY <1>2 DEF Locals, Fits, AddPcs, CutPcs, SweepPcs
  <2> HIDE DEF l
  <2>3. Moved(t, "getEdge", l) /\ Typed
    BY <2>1, <2>2, GoEffect DEF Labels, Ended, l
  <2> QED BY <1>1, <2>3, LocalKept DEF l
<1>4. CASE gloc[t].todo = {}
  <2> DEFINE l == [gloc[t] EXCEPT !.again = TRUE]
             label == IF gloc[t].again THEN "deleteNode" ELSE "list"
  <2>1. Jump(t, label, l)
    BY <1>4 DEF NextEdge
  <2>2. l \in Locals /\ Fits(t, label, l) /\ label \in Labels \ Ended
    BY <1>2 DEF Locals, Fits, AddPcs, CutPcs, SweepPcs, Labels, Ended
  <2> HIDE DEF l, label
  <2>3. Moved(t, label, l) /\ Typed
    BY <2>1, <2>2, GoEffect
  <2> QED BY <1>1, <1>4, <2>3, LocalKept DEF l, label
<1> QED BY <1>3, <1>4

LEMMA DeleteNodeEffect ==
  ASSUME GraphAssumption, Base, NEW t \in Tasks, DeleteNode(t)
  PROVE  Base' /\ Moved(t, "done", Fresh)
<1>1. /\ gpc[t] = "deleteNode" /\ Goto(t, "done") /\ nodes' \subseteq nodes
      /\ loose' = loose \cup (gloc[t].unseen \ ToBeChecked(gloc[t].node)) \cup Unchecked(gloc[t].node)
      /\ UNCHANGED <<options, edges, index, clashed>>
  BY DEF DeleteNode
<1>2. Moved(t, "done", Fresh) /\ Typed
  BY <1>1, EndEffect DEF Ended
<1>3. Unchecked(gloc[t].node) \subseteq Edges
  BY AddingEdges DEF Unchecked, Adding
<1>4. gloc[t].unseen \subseteq Edges
  BY BaseOf DEF Locals
<1> QED BY <1>1, <1>2, <1>3, <1>4 DEF Base, GraphTypeOK, Locals, Typed

\* updateNode, addNode.
LEMMA NodeStepsEffect ==
  ASSUME Base, NEW t \in Tasks,
         ReadNode(t) \/ WriteNode(t) \/ (\E n \in Nodes : PutNode(t, n))
  PROVE  /\ Base' /\ nodes \subseteq nodes'
         /\ UNCHANGED <<options, edges, index, clashed, loose>>
         /\ gpc[t] \in {"idle", "readNode", "writeNode"}
         /\ Moved(t, "done", Fresh) \/ Moved(t, "writeNode", gloc[t])
<1>1. /\ UNCHANGED <<options, edges, index, clashed, loose>>
      /\ gpc[t] \in {"idle", "readNode", "writeNode"}
      /\ nodes \subseteq nodes' /\ nodes' \subseteq Nodes
      /\ Goto(t, "done") \/ (gpc[t] = "readNode" /\ Goto(t, "writeNode"))
  BY BaseOf DEF ReadNode, WriteNode, PutNode, records, Fits, Base, GraphTypeOK
<1>2. Typed => Base'
  BY <1>1 DEF Base, GraphTypeOK, Locals, Typed
<1>3. CASE Goto(t, "done")
  BY <1>1, <1>2, <1>3, EndEffect DEF Ended
<1>4. CASE gpc[t] = "readNode" /\ Goto(t, "writeNode")
  <2>1. Jump(t, "writeNode", gloc[t]) /\ Fits(t, "writeNode", gloc[t])
    BY <1>4, BaseOf DEF Goto, Fits, AddPcs, CutPcs, SweepPcs
  <2> QED BY <1>1, <1>2, <2>1, BaseOf, GoEffect DEF Labels, Ended
<1> QED BY <1>1, <1>3, <1>4

LEMMA ReadEdgeEffect ==
  ASSUME GraphAssumption, Base, NEW t \in Tasks, ReadEdge(t)
  PROVE  /\ Base' /\ gloc[t].edge \in Edges
         /\ \/ Moved(t, "done", Fresh)
            \/ /\ gloc[t].edge \in StoredEdges
               /\ Moved(t, "writeEdge", [gloc[t] EXCEPT !.source = edges[gloc[t].edge].source,
                                            !.target = edges[gloc[t].edge].target])
<1> DEFINE l == [gloc[t] EXCEPT !.source = edges[gloc[t].edge].source,
                                !.target = edges[gloc[t].edge].target]
<1>1. /\ gpc[t] = "readEdge" /\ UNCHANGED <<options, records, clashed, loose>>
      /\ IF gloc[t].edge \in StoredEdges THEN Jump(t, "writeEdge", l) ELSE Goto(t, "done")
  BY DEF ReadEdge
<1>2. gloc[t] \in Locals /\ Fits(t, "readEdge", gloc[t]) /\ gloc[t].edge \in Edges
  BY <1>1, BaseOf DEF Fits
<1>3. CASE gloc[t].edge \in StoredEdges
  <2>1. edges[gloc[t].edge].source \in Nodes /\ edges[gloc[t].edge].target \in Nodes
    BY <1>2, <1>3, StoredEdge DEF EdgeRecords
  <2>2. l \in Locals
    BY <1>2, <2>1 DEF Locals
  <2>3. Fits(t, "writeEdge", l)
    BY <1>2, <2>1 DEF Locals, Fits, AddPcs, CutPcs, SweepPcs
  <2> HIDE DEF l
  <2>4. Moved(t, "writeEdge", l) /\ Typed
    BY <1>1, <1>3, <2>2, <2>3, GoEffect DEF Labels, Ended
  <2> QED BY <1>1, <1>2, <1>3, <2>4, LocalKept DEF l
<1>4. CASE gloc[t].edge \notin StoredEdges
  BY <1>1, <1>2, <1>4, EndEffect, LocalKept DEF Ended
<1> QED BY <1>3, <1>4

LEMMA WriteEdgeEffect ==
  ASSUME Base, NEW t \in Tasks, WriteEdge(t)
  PROVE  /\ Base' /\ gloc[t].edge \in Edges
         /\ edges' = [edges EXCEPT ![gloc[t].edge] = Ends(t)]
         /\ Moved(t, "done", Fresh)
<1>1. /\ gpc[t] = "writeEdge" /\ Goto(t, "done")
      /\ edges' = [edges EXCEPT ![gloc[t].edge] = Ends(t)]
      /\ loose' = IF gloc[t].edge \in StoredEdges THEN loose ELSE loose \cup {gloc[t].edge}
      /\ UNCHANGED <<options, nodes, index, clashed>>
  BY DEF WriteEdge, Ends
<1>2. gloc[t].edge \in Edges /\ Ends(t) \in EdgeRecords
  BY <1>1, BaseOf DEF Fits, Ends, EdgeRecords
<1>3. edges' \in [Edges -> EdgeRecords \cup {None}]
  BY <1>1, <1>2 DEF Base, GraphTypeOK
<1>4. Typed => Base'
  BY <1>1, <1>2, <1>3 DEF Base, GraphTypeOK, Locals, Typed
<1> QED BY <1>1, <1>2, <1>4, EndEffect DEF Ended

ClearPcs == {"clearNodes", "clearEdges", "clearOut", "clearIn"}

LEMMA HalfAddedEdges ==
  ASSUME GraphAssumption, Base, NEW t \in Tasks
  PROVE  HalfAdded(t) \subseteq Edges
  BY AddingEdges DEF HalfAdded

LEMMA ClearEffect ==
  ASSUME GraphAssumption, Base, NEW t \in Tasks, Clear(t)
  PROVE  /\ Base' /\ gpc[t] \in ClearPcs /\ UNCHANGED clashed
         /\ loose \cup HalfAdded(t) \subseteq loose'
         /\ \/ gpc[t] = "clearNodes" /\ Moved(t, "clearEdges", gloc[t])
            \/ gpc[t] = "clearEdges" /\ Moved(t, "clearOut", gloc[t])
            \/ gpc[t] = "clearOut" /\ Moved(t, "clearIn", gloc[t])
            \/ gpc[t] = "clearIn" /\ Moved(t, "done", Fresh)
<1>1. /\ gpc[t] \in ClearPcs /\ UNCHANGED <<options, clashed>>
      /\ loose \cup HalfAdded(t) \subseteq loose' /\ loose' \subseteq loose \cup HalfAdded(t) \cup StoredEdges
      /\ nodes' \subseteq nodes
      /\ edges' = edges \/ edges' = [e \in Edges |-> None]
      /\ index' = index \/ index' = [l \in Lists |->
                         IF l[1] = (IF gpc[t] = "clearOut" THEN "out" ELSE "in") THEN {}
                         ELSE index[l]]
      /\ \/ gpc[t] = "clearNodes" /\ Goto(t, "clearEdges")
         \/ gpc[t] = "clearEdges" /\ Goto(t, "clearOut")
         \/ gpc[t] = "clearOut" /\ Goto(t, "clearIn")
         \/ gpc[t] = "clearIn" /\ Goto(t, "done")
  BY DEF Clear, ClearPcs
<1>2. ASSUME NEW label \in ClearPcs, Goto(t, label)
      PROVE  Moved(t, label, gloc[t]) /\ Typed
  <2>1. Jump(t, label, gloc[t]) /\ Fits(t, label, gloc[t])
    BY <1>1, <1>2, BaseOf DEF Goto, Fits, AddPcs, CutPcs, SweepPcs, ClearPcs
  <2> QED BY <2>1, BaseOf, GoEffect DEF Labels, Ended, ClearPcs
<1>3. /\ Typed
      /\ \/ gpc[t] = "clearNodes" /\ Moved(t, "clearEdges", gloc[t])
         \/ gpc[t] = "clearEdges" /\ Moved(t, "clearOut", gloc[t])
         \/ gpc[t] = "clearOut" /\ Moved(t, "clearIn", gloc[t])
         \/ gpc[t] = "clearIn" /\ Moved(t, "done", Fresh)
  BY <1>1, <1>2, EndEffect DEF Ended, ClearPcs
<1>4. loose' \subseteq Edges
  BY <1>1, HalfAddedEdges DEF StoredEdges, Base, GraphTypeOK
<1>5. edges' \in [Edges -> EdgeRecords \cup {None}]
  BY <1>1 DEF Base, GraphTypeOK
<1>6. index' \in [Lists -> SUBSET Edges]
  BY <1>1 DEF Base, GraphTypeOK
<1> QED BY <1>1, <1>3, <1>4, <1>5, <1>6 DEF Base, GraphTypeOK, Locals, Typed

LEMMA FailEffect ==
  ASSUME Base, NEW t \in Tasks, Fail(t)
  PROVE  /\ Base' /\ Moved(t, "failed", Fresh)
         /\ UNCHANGED <<options, nodes, edges, index, clashed>> /\ loose \subseteq loose'
         /\ gloc[t].edge \in Edges => gloc[t].edge \in loose' \/ gloc[t].edge = None
         /\ gloc[t].op = "clear" => loose' = Edges
<1>1. /\ Goto(t, "failed") /\ UNCHANGED <<options, nodes, edges, index, clashed>>
      /\ loose' = loose \cup IF gloc[t].op = "clear" THEN Edges ELSE {gloc[t].edge} \ {None}
  BY DEF Fail, records
<1>2. gloc[t].edge \in Edges \cup {None}
  BY BaseOf DEF Locals
<1>3. Moved(t, "failed", Fresh) /\ Typed
  BY <1>1, EndEffect DEF Ended
<1> QED BY <1>1, <1>2, <1>3 DEF Base, GraphTypeOK, Locals, Typed

\* What each call starts with.
LEMMA CallIs ==
  ASSUME GraphAssumption, NEW t \in Tasks, NEW call \in CallsOf(t)
  PROVE  /\ call \in Locals /\ Fits(t, First(call.op), call) /\ First(call.op) \in Labels \ Ended
         /\ call.again = FALSE /\ call.op \in Ops
         /\ call.op \in {"addEdge", "import"} => First(call.op) = "hasSource"
         /\ call.op = "import" => call.edge \in EdgeIds(t)
         /\ call.source # None => call.op \in {"addEdge", "import"}
         /\ First(call.op) \in {"hasSource", "getEdge", "getNode", "readEdge", "readNode", "clearNodes"}
<1>1. NewEdge(t) \in Edges /\ None \notin Nodes \cup Edges
  BY DEF GraphAssumption
<1>2. ASSUME NEW o \in Ops, NEW n \in Nodes \cup {None}, NEW e \in Edges \cup {None},
             NEW s \in Nodes \cup {None}, NEW d \in Nodes \cup {None}, call = Call(o, n, e, s, d)
      PROVE  /\ call \in Locals /\ call.op = o /\ call.node = n /\ call.edge = e
             /\ call.source = s /\ call.target = d /\ call.again = FALSE
             /\ call.side = "out"
  BY <1>2 DEF Call, Fresh, Locals
<1>3. CASE call \in Additions(t)
  <2>1. PICK o \in {"addEdge", "import"}, e \in Edges, s \in Nodes, d \in Nodes :
              /\ call = Call(o, None, e, s, d)
              /\ o = "addEdge" => e = NewEdge(t)
              /\ o = "import" => e \in EdgeIds(t)
    <3>1. EdgeIds(t) \subseteq Edges
      BY DEF EdgeIds
    <3> QED BY <1>1, <1>3, <3>1 DEF Additions
  <2>2. /\ call \in Locals /\ call.op = o /\ call.edge = e
        /\ call.source = s /\ call.target = d /\ call.again = FALSE /\ call.side = "out"
    <3>1. o \in Ops
      BY DEF Ops
    <3> QED BY <1>1, <1>2, <2>1, <3>1
  <2>3. First(call.op) = "hasSource"
    BY <2>2 DEF First
  <2> QED BY <1>1, <2>1, <2>2, <2>3 DEF Fits, Ops, Labels, Ended, AddPcs, CutPcs, SweepPcs
<1>4. CASE call \in OfEdges
  <2>1. PICK o \in {"removeEdge", "updateEdge"}, e \in Edges : call = Call(o, None, e, None, None)
    BY <1>4 DEF OfEdges
  <2>2. call \in Locals /\ call.op = o /\ call.edge = e /\ call.source = None /\ call.again = FALSE
    BY <1>2, <2>1 DEF Ops
  <2>3. First(call.op) = IF o = "removeEdge" THEN "getEdge" ELSE "readEdge"
    BY <2>2 DEF First
  <2> QED BY <1>1, <2>2, <2>3 DEF Fits, Ops, Labels, Ended, AddPcs, CutPcs, SweepPcs
<1>5. CASE call \in OfNodes
  <2>1. PICK o \in {"removeNode", "updateNode"}, n \in Nodes : call = Call(o, n, None, None, None)
    BY <1>5 DEF OfNodes
  <2>2. call \in Locals /\ call.op = o /\ call.node = n /\ call.source = None /\ call.again = FALSE
    BY <1>2, <2>1 DEF Ops
  <2>3. First(call.op) = IF o = "removeNode" THEN "getNode" ELSE "readNode"
    BY <2>2 DEF First
  <2> QED BY <1>1, <2>2, <2>3 DEF Fits, Ops, Labels, Ended, AddPcs, CutPcs, SweepPcs
<1>6. CASE call = Call("clear", None, None, None, None)
  <2>1. call \in Locals /\ call.op = "clear" /\ call.source = None /\ call.again = FALSE
    BY <1>2, <1>6 DEF Ops
  <2>2. First(call.op) = "clearNodes"
    BY <2>1 DEF First
  <2> QED BY <1>1, <2>1, <2>2 DEF Fits, Ops, Labels, Ended, AddPcs, CutPcs, SweepPcs
<1> QED BY <1>3, <1>4, <1>5, <1>6 DEF CallsOf

\* What the other tasks see of a call that starts.
Alike(l, k) ==
    /\ l.op = k.op /\ l.node = k.node /\ l.edge = k.edge /\ l.source = k.source
    /\ l.target = k.target /\ l.missing = k.missing /\ l.side = k.side /\ l.read = k.read
    /\ l.todo = k.todo /\ l.again = k.again /\ k.unseen \subseteq l.unseen

LEMMA UnseenGrows ==
  ASSUME NEW l \in Locals, NEW e \in Edges
  PROVE  LET k == [l EXCEPT !.unseen = @ \cup {e}] IN
         k \in Locals /\ Alike(k, l) /\ e \in k.unseen
<1> DEFINE k == [l EXCEPT !.unseen = @ \cup {e}]
<1>1. k \in Locals /\ k.unseen = l.unseen \cup {e}
  BY DEF Locals
<1>2. Alike(k, l)
  BY DEF Locals, Alike
<1> QED BY <1>1, <1>2

LEMMA StartEffect ==
  ASSUME GraphAssumption, Base, NEW t \in Tasks, NEW call \in CallsOf(t), Start(t, call)
  PROVE  /\ Base' /\ UNCHANGED <<options, nodes, edges, index, clashed>>
         /\ loose \subseteq loose'
         /\ call.op = "import" /\ (\E u \in Tasks : gloc[u].edge = call.edge) => call.edge \in loose'
         /\ gpc[t] = "idle" /\ gpc'[t] = First(call.op) /\ gloc'[t] = call
         /\ \A u \in Tasks \ {t} :
               /\ gpc'[u] = gpc[u] /\ Alike(gloc'[u], gloc[u])
               /\ call.source # None /\ gloc[u].again /\ gloc[u].node \in {call.source, call.target}
                     => call.edge \in gloc'[u].unseen
<1>1. /\ gpc[t] = "idle" /\ UNCHANGED <<options, nodes, edges, index, clashed>>
      /\ loose' = loose \cup {e \in Edges : /\ call.op = "import" /\ call.edge = e
                                            /\ \E u \in Tasks : gloc[u].edge = e}
      /\ gpc' = [gpc EXCEPT ![t] = First(call.op)]
      /\ gloc' = [u \in Tasks |->
                   IF u = t THEN call
                   ELSE IF call.source # None /\ gloc[u].again
                           /\ gloc[u].node \in {call.source, call.target}
                        THEN [gloc[u] EXCEPT !.unseen = @ \cup {call.edge}]
                   ELSE gloc[u]]
  BY DEF Start, records
<1>2. call \in Locals /\ Fits(t, First(call.op), call) /\ First(call.op) \in Labels
  BY CallIs
<1>3. call.source # None \/ call.op = "import" => call.edge \in Edges
  BY CallIs DEF Fits
<1>4. ASSUME NEW u \in Tasks \ {t}
      PROVE  /\ gpc'[u] = gpc[u] /\ gloc'[u] \in Locals /\ Alike(gloc'[u], gloc[u])
             /\ call.source # None /\ gloc[u].again /\ gloc[u].node \in {call.source, call.target}
                   => call.edge \in gloc'[u].unseen
  <2>1. gloc[u] \in Locals /\ gpc'[u] = gpc[u]
    BY <1>1, BaseOf DEF Base, GraphTypeOK
  <2>2. CASE call.source # None /\ gloc[u].again /\ gloc[u].node \in {call.source, call.target}
    <3>1. gloc'[u] = [gloc[u] EXCEPT !.unseen = @ \cup {call.edge}]
      BY <1>1, <2>2
    <3> QED BY <1>3, <2>1, <2>2, <3>1, UnseenGrows
  <2>3. CASE ~(call.source # None /\ gloc[u].again /\ gloc[u].node \in {call.source, call.target})
    <3>1. gloc'[u] = gloc[u]
      BY <1>1, <2>3
    <3> QED BY <2>1, <2>3, <3>1 DEF Alike
  <2> QED BY <2>2, <2>3
<1>5. gpc' \in [Tasks -> Labels] /\ gpc'[t] = First(call.op)
  BY <1>1, <1>2 DEF Base, GraphTypeOK
<1>6. gloc'[t] = call
  BY <1>1
<1>7. gloc' \in [Tasks -> Locals]
  <2>1. \A u \in Tasks : gloc'[u] \in Locals
    BY <1>2, <1>4, <1>6
  <2>2. gloc' = [u \in Tasks |-> gloc'[u]]
    BY <1>1
  <2> QED BY <2>1, <2>2
<1>8. ASSUME NEW u \in Tasks \ {t} PROVE Fits(u, gpc[u], gloc[u])'
  <2>1. CASE gloc'[u] = gloc[u]
    BY <1>4, <2>1, BaseOf
  <2>2. CASE gloc'[u] # gloc[u]
    <3>1. gloc[u].again /\ gloc[u] # Fresh
      BY <1>1, <2>2 DEF Fresh
    <3>2. gpc[u] \notin {"idle", "done", "failed"}
      BY <3>1, BaseOf DEF Fits
    <3> QED BY <1>4, <3>2, BaseOf DEF Fits, Alike
  <2> QED BY <2>1, <2>2
<1>9. Places'
  <2>1. Fits(t, gpc[t], gloc[t])'
    BY <1>2, <1>5, <1>6
  <2> QED BY <1>8, <2>1 DEF Places
<1>10. loose' \subseteq loose \cup Edges
  BY <1>1
<1>11. Base'
  BY <1>1, <1>5, <1>7, <1>9, <1>10 DEF Base, GraphTypeOK, Locals
<1> QED BY <1>1, <1>3, <1>4, <1>5, <1>6, <1>11

LEMMA BaseInit == ASSUME GraphAssumption, Init PROVE Base
<1>1. /\ nodes \subseteq Nodes /\ edges \in [Edges -> EdgeRecords \cup {None}]
      /\ options \in [autoCreate : BOOLEAN, cascade : BOOLEAN]
      /\ gpc = [t \in Tasks |-> "idle"] /\ gloc = [t \in Tasks |-> Fresh]
      /\ clashed = {} /\ loose = {}
  BY DEF Init
<1>2. index \in [Lists -> SUBSET Edges]
  BY DEF Init, StoredEdges
<1>3. gloc \in [Tasks -> Locals]
  BY <1>1, FreshIsLocal
<1>4. GraphTypeOK
  BY <1>1, <1>2, <1>3 DEF GraphTypeOK, Locals, Labels
<1>5. \A t \in Tasks : Fits(t, "idle", Fresh)
  BY DEF Fits, Fresh, AddPcs, CutPcs, SweepPcs
<1> QED BY <1>1, <1>4, <1>5 DEF Base, Places

-----------------------------------------------------------------------------
(* The lists: steps that write no record.                                   *)

\* The other tasks are where they were.
OthersStay(t) == \A u \in Tasks \ {t} : gpc'[u] = gpc[u] /\ Alike(gloc'[u], gloc[u])

LEMMA MovedStays ==
  ASSUME NEW t \in Tasks, NEW label, NEW l, Moved(t, label, l)
  PROVE  OthersStay(t)
  BY DEF Moved, OthersStay, Alike

\* Task t starts to add an edge: nobody else has its id, or it is loose.
Brings(t) ==
    LET e == gloc'[t].edge IN
    /\ gpc[t] = "idle"
    /\ \/ gloc'[t].op = "addEdge" /\ e = NewEdge(t)
       \/ /\ gloc'[t].op = "import"
          /\ \A u \in Tasks \ {t} : e = NewEdge(u) => gpc[u] # "idle"
          /\ e \in loose' \/ \A u \in Tasks : gloc[u].edge # e

\* What task t may come to do to an edge without touching the lists.
EdgesCalm(t) ==
    /\ gpc'[t] # "idle" /\ (NotYet(t)' => NotYet(t))
    /\ (t \in Adding)' =>
          \/ t \in Adding /\ gloc'[t].op = gloc[t].op /\ gloc'[t].edge = gloc[t].edge
          \/ Brings(t)
    /\ (t \in Adding /\ ~NotYet(t))' /\ gloc'[t].edge \notin loose' =>
          t \in Adding /\ ~NotYet(t) /\ Ends(t)' = Ends(t)
    /\ \A e \in Edges \ loose' :
          Holds(t, e)' =>
             \/ /\ Holds(t, e) /\ Ends(t)' = Ends(t)
                /\ Removes(t, e)' => Removes(t, e)
             \/ /\ e \in StoredEdges /\ edges[e] = Ends(t)'
                /\ Removes(t, e)' => e \notin HalfAdded(t)

ListsCalm(t) ==
    /\ EdgesCalm(t)
    /\ \A e \in Edges \ loose', side \in {"out", "in"} :
          /\ Unlisted(t, e, side)' => Unlisted(t, e, side) /\ Ends(t)' = Ends(t)
          /\ e \in StoredEdges /\ Unlisted(t, e, side) => Unlisted(t, e, side)'
          /\ e \in StoredEdges /\ Unfiled(t, e, side) => Unfiled(t, e, side)'
    /\ \/ Edges \subseteq loose'
       \/ \A label \in {"clearOut", "clearIn"} : gpc'[t] = label <=> gpc[t] = label

LEMMA OthersSame ==
  ASSUME NEW t \in Tasks, OthersStay(t), NEW u \in Tasks \ {t}
  PROVE  /\ NotYet(u)' <=> NotYet(u)
         /\ (u \in Adding)' <=> u \in Adding
         /\ Ends(u)' = Ends(u) /\ gloc'[u].edge = gloc[u].edge
         /\ gloc'[u].op = gloc[u].op /\ gpc'[u] = gpc[u]
         /\ \A e \in Edges :
               /\ Holds(u, e)' <=> Holds(u, e)
               /\ Removes(u, e)' <=> Removes(u, e)
               /\ \A side \in {"out", "in"} :
                     /\ Unlisted(u, e, side)' <=> Unlisted(u, e, side)
                     /\ Unfiled(u, e, side)' <=> Unfiled(u, e, side)
<1>1. gpc'[u] = gpc[u] /\ Alike(gloc'[u], gloc[u])
  BY DEF OthersStay
<1> QED BY <1>1 DEF Alike, NotYet, Adding, Running, Ends, Holds, Removes, Unlisted, Unfiled

LEMMA AddingIn ==
  ASSUME Base'
  PROVE  \A u \in Adding' : u \in Tasks /\ gloc'[u].edge \in Edges
  BY DEF Base, Places, Fits, Adding, Running

LEMMA EdgesQuiet ==
  ASSUME GraphAssumption, Base, Base', ListsInv, NEW t \in Tasks, OthersStay(t), EdgesCalm(t),
         loose \subseteq loose',
         \A e \in Edges \ loose' :
             \/ edges'[e] = edges[e]
             \/ edges'[e] = None /\ \A v \in Adding' : gloc'[v].edge # e
  PROVE  EdgesInv'
<1> USE OthersSame
<1>a. ASSUME NEW e \in Edges \ loose', Unused(e)
      PROVE  Unused(e)'
  BY <1>a DEF Unused, EdgesCalm, StoredEdges
<1>b. \A u \in Adding' : u \in Tasks /\ gloc'[u].edge \in Edges
  BY AddingIn
<1>c. ASSUME NEW u \in Tasks \ {t}, (u \in Adding)'
      PROVE  u \in Adding /\ gloc'[u].edge = gloc[u].edge
  BY <1>c
<1>d. ASSUME (t \in Adding)', ~Brings(t)
      PROVE  t \in Adding /\ gloc'[t].edge = gloc[t].edge /\ gloc'[t].op = gloc[t].op
  BY <1>d DEF EdgesCalm
<1>e. ASSUME Brings(t), (t \in Adding)', gloc'[t].edge \notin loose', NEW u \in Tasks \ {t}
      PROVE  /\ u \in Adding => gloc[u].edge # gloc'[t].edge
             /\ \A e : e = gloc'[t].edge => ~Holds(u, e) /\ ~Removes(u, e)
  <2>1. gpc[t] = "idle" /\ NotYet(t) /\ gloc[t].op # "import"
    BY <1>e, BaseOf DEF Brings, NotYet, Fits, Fresh
  <2>2. CASE gloc'[t].edge = NewEdge(t)
    BY <1>e, <2>1, <2>2 DEF ListsInv, EdgesInv, FreshEdges, Unused, Holds, Removes
  <2>3. CASE \A w \in Tasks : gloc[w].edge # gloc'[t].edge
    BY <2>3 DEF Holds, Removes
  <2> QED BY <1>e, <2>2, <2>3 DEF Brings
<1>1. FreshEdges'
  <2>1. ASSUME NEW v \in Tasks, NotYet(v)', gloc'[v].op # "import", NewEdge(v) \notin loose'
        PROVE  Unused(NewEdge(v))'
    <3>1. NotYet(v) /\ gloc[v].op # "import"
      <4>1. CASE v = t
        <5>1. (t \in Adding)' /\ NotYet(t)
          BY <2>1, <4>1 DEF EdgesCalm, NotYet, Base, Places, Fits, AddPcs, Adding, Running
        <5>2. CASE Brings(t)
          BY <4>1, <5>1, <5>2, BaseOf DEF Brings, Fits, Fresh
        <5>3. CASE ~Brings(t)
          BY <1>d, <2>1, <4>1, <5>1, <5>3
        <5> QED BY <5>2, <5>3
      <4> QED BY <2>1, <4>1
    <3>2. NewEdge(v) \in Edges \ loose'
      BY <2>1 DEF GraphAssumption
    <3>3. Unused(NewEdge(v))
      BY <3>1, <3>2 DEF ListsInv, EdgesInv, FreshEdges
    <3> QED BY <1>a, <3>2, <3>3
  <2>2. ASSUME NEW v \in Tasks, NotYet(v)', gloc'[v].op = "import", NEW e, e = gloc'[v].edge,
               e \notin loose' \cup StoredEdges'
        PROVE  Unused(e)'
    <3>1. (v \in Adding)' /\ e \in Edges \ loose'
      BY <1>b, <2>2 DEF Adding, Running
    <3>2. e \notin StoredEdges
      BY <2>2, <3>1 DEF StoredEdges
    <3>3. CASE v = t /\ Brings(t)
      <4>1. ASSUME NEW u \in Tasks \ {t} PROVE ~Holds(u, e)'
        <5>1. ~Holds(u, e)
          BY <1>e, <2>2, <3>1, <3>3
        <5> QED BY <3>1, <5>1
      <4>2. ~Holds(t, e)'
        BY <2>2, <3>3 DEF NotYet, Holds
      <4> QED BY <2>2, <4>1, <4>2 DEF Unused
    <3>4. CASE v # t \/ ~Brings(t)
      <4>1. v \in Adding /\ e = gloc[v].edge /\ gloc[v].op = "import" /\ NotYet(v)
        BY <1>c, <1>d, <2>2, <3>1, <3>4 DEF EdgesCalm
      <4>2. Unused(e)
        BY <3>1, <3>2, <4>1 DEF ListsInv, EdgesInv, FreshEdges
      <4> QED BY <1>a, <3>1, <4>2
    <3> QED BY <3>3, <3>4
  <2>3. ASSUME NEW v \in Tasks, gpc'[v] = "idle", NEW u \in Tasks, (u \in Adding)',
               gloc'[u].edge = NewEdge(v)
        PROVE  FALSE
    <3>1. v # t /\ gpc[v] = "idle"
      BY <2>3 DEF EdgesCalm
    <3>2. \A w \in Adding : gloc[w].edge # NewEdge(v)
      BY <3>1 DEF ListsInv, EdgesInv, FreshEdges
    <3>3. CASE u = t /\ Brings(t)
      BY <2>3, <3>1, <3>3 DEF Brings, GraphAssumption
    <3> QED BY <1>c, <1>d, <2>3, <3>2, <3>3
  <2>a. ASSUME NEW v \in Tasks, NotYet(v)', gloc'[v].op = "import",
               gloc'[v].edge \notin loose' \cup StoredEdges'
        PROVE  Unused(gloc[v].edge)'
    <3>1. \A e : e = gloc'[v].edge => Unused(e)'
      BY <2>2, <2>a
    <3> QED BY <3>1 DEF Unused, Holds
  <2>4. \A v \in Tasks : gpc'[v] = "idle" => \A u \in Adding' : gloc'[u].edge # NewEdge(v)
    BY <1>b, <2>3
  <2> QED BY <2>1, <2>a, <2>4 DEF FreshEdges
<1>2. AddsApart'
  <2>1. ASSUME NEW v \in Tasks \ {t}, (v \in Adding)', (t \in Adding)',
               gloc'[v].edge = gloc'[t].edge, gloc'[t].edge \notin loose'
        PROVE  FALSE
    <3>1. v \in Adding /\ gloc'[v].edge = gloc[v].edge
      BY <1>c, <2>1
    <3>2. CASE Brings(t)
      BY <1>e, <2>1, <3>1, <3>2
    <3>3. CASE ~Brings(t)
      BY <1>d, <2>1, <3>1, <3>3 DEF ListsInv, EdgesInv, AddsApart
    <3> QED BY <3>2, <3>3
  <2>2. ASSUME NEW v \in Tasks \ {t}, NEW u \in Tasks \ {t}, (v \in Adding)', (u \in Adding)',
               u # v, gloc'[v].edge = gloc'[u].edge
        PROVE  gloc'[v].edge \in loose'
    BY <1>c, <2>2 DEF ListsInv, EdgesInv, AddsApart
  <2>3. ASSUME NEW v \in Adding', NEW u \in Adding', v # u, gloc'[v].edge = gloc'[u].edge
        PROVE  gloc'[v].edge \in loose'
    BY <1>b, <2>1, <2>2, <2>3
  <2> QED BY <2>3 DEF AddsApart
<1>3. AddedStored'
  <2> SUFFICES ASSUME NEW v \in Adding', gloc'[v].edge \notin loose', ~NotYet(v)'
               PROVE  edges'[gloc'[v].edge] = Ends(v)'
    BY DEF AddedStored
  <2>1. v \in Tasks /\ v \in Adding /\ ~NotYet(v) /\ Ends(v)' = Ends(v)
    BY DEF EdgesCalm, Adding, Running
  <2>2. gloc'[v].edge = gloc[v].edge
    <3>1. v = t => ~Brings(t)
      BY <2>1 DEF Brings, NotYet
    <3> QED BY <1>c, <1>d, <2>1, <3>1
  <2>3. gloc[v].edge \in Edges \ loose' /\ gloc[v].edge \notin loose
    BY <2>1, <2>2, AddingEdges
  <2>4. edges'[gloc[v].edge] = edges[gloc[v].edge]
    BY <2>2, <2>3
  <2> QED BY <2>1, <2>2, <2>3, <2>4 DEF ListsInv, EdgesInv, AddedStored
<1>4. HeldTrue'
  BY DEF ListsInv, EdgesInv, HeldTrue, EdgesCalm, StoredEdges
<1>5. AddedAlone'
  <2> SUFFICES ASSUME NEW v \in Tasks, (v \in Adding)', NEW u \in Tasks, u # v,
                      NEW e, e = gloc'[v].edge, Removes(u, e)', e \notin loose'
               PROVE  FALSE
    BY <1>b DEF AddedAlone, Removes
  <2>1. e \in Edges \ loose'
    BY <1>b
  <2>2. CASE v = t /\ Brings(t)
    BY <1>e, <2>1, <2>2
  <2>3. CASE v # t \/ ~Brings(t)
    <3>1. v \in Adding /\ gloc[v].edge = e
      BY <1>c, <1>d, <2>3
    <3>2. CASE Removes(u, e)
      BY <2>1, <3>1, <3>2 DEF ListsInv, EdgesInv, AddedAlone
    <3>3. CASE ~Removes(u, e)
      <4>1. u = t /\ Holds(t, e)' /\ ~Removes(t, e)
        BY <2>1, <3>3 DEF Holds, Removes
      <4>2. e \notin HalfAdded(t)
        BY <2>1, <4>1 DEF EdgesCalm
      <4> QED BY <3>1, <4>1, <4>2 DEF HalfAdded
    <3> QED BY <3>2, <3>3
  <2> QED BY <2>2, <2>3
<1> QED BY <1>1, <1>2, <1>3, <1>4, <1>5 DEF EdgesInv

LEMMA ListsQuiet ==
  ASSUME GraphAssumption, Base, Base', ListsInv, NEW t \in Tasks, OthersStay(t), ListsCalm(t),
         UNCHANGED <<index, clashed>>, loose \subseteq loose',
         \A e \in Edges \ loose' : edges'[e] = edges[e]
  PROVE  ListsInv'
<1> USE OthersSame
<1>1. EdgesInv'
  BY EdgesQuiet DEF ListsCalm
<1>5. CutDone'
  <2> SUFFICES ASSUME NEW u \in Tasks, NEW e \in Edges \ loose', NEW side \in {"out", "in"},
                      Unlisted(u, e, side)', <<side, End(gloc'[u], side)>> \notin clashed
               PROVE  e \notin index[<<side, End(gloc'[u], side)>>]
    BY DEF CutDone
  <2>1. Unlisted(u, e, side) /\ Ends(u)' = Ends(u)
    BY DEF ListsCalm
  <2>2. End(gloc'[u], side) = End(gloc[u], side)
    BY <2>1 DEF Ends, End
  <2> QED BY <2>1, <2>2 DEF ListsInv, CutDone
<1>6. ListsComplete'
  <2> SUFFICES ASSUME NEW e \in StoredEdges \ loose', NEW side \in {"out", "in"},
                      <<side, End(edges[e], side)>> \notin clashed,
                      e \notin index[<<side, End(edges[e], side)>>]
               PROVE  \E u \in Tasks : Unfiled(u, e, side)' \/ Unlisted(u, e, side)'
    BY DEF ListsComplete, StoredEdges
  <2>1. PICK u \in Tasks : Unfiled(u, e, side) \/ Unlisted(u, e, side)
    BY DEF ListsInv, ListsComplete
  <2>2. e \in Edges \ loose'
    BY DEF StoredEdges
  <2> QED BY <2>1, <2>2 DEF ListsCalm
<1>7. ListsTrue'
  <2>1. CASE Edges \subseteq loose'
    BY <2>1 DEF ListsTrue, Base, GraphTypeOK, Lists
  <2>2. CASE \A label \in {"clearOut", "clearIn"} : gpc'[t] = label <=> gpc[t] = label
    <3>1. \A side \in {"out", "in"} : Clearing(side)' <=> Clearing(side)
      BY <2>2 DEF Clearing, OthersStay
    <3> QED BY <3>1 DEF ListsInv, ListsTrue, StoredEdges
  <2> QED BY <2>1, <2>2 DEF ListsCalm
<1> QED BY <1>1, <1>5, <1>6, <1>7 DEF ListsInv, EdgesInv

\* A step that goes on with the same edge.
LEMMA CalmMove ==
  ASSUME Base, NEW t \in Tasks, NEW label, NEW l, Moved(t, label, l),
         l.op = gloc[t].op, l.side = gloc[t].side, l.source = gloc[t].source,
         l.target = gloc[t].target,
         \/ /\ gpc[t] \in {"hasSource", "hasTarget", "createSource", "createTarget"}
            /\ label \in {"hasTarget", "createSource", "createTarget", "setEdge"}
            /\ l.edge = gloc[t].edge
         \/ gpc[t] = "getList" /\ label = "setList" /\ l.edge = gloc[t].edge
         \/ gpc[t] = "unlist" /\ label = "saveList" /\ l.edge = gloc[t].edge
         \/ /\ gpc[t] \in {"recheckSource", "recheckTarget", "getEdge", "getNode", "list", "relist",
                           "nextEdge", "readNode"}
            /\ label \in {"recheckTarget", "getEdge", "list", "relist", "nextEdge", "deleteNode",
                          "writeNode"}
            /\ gpc[t] = "nextEdge" \/ l.edge = gloc[t].edge
         \/ gpc[t] = "clearNodes" /\ label = "clearEdges"
  PROVE  ListsCalm(t)
<1>1. gpc'[t] = label /\ gloc'[t] = l /\ gloc[t] \in Locals
  BY BaseOf DEF Moved
<1>2. Ends(t)' = Ends(t)
  BY <1>1 DEF Ends
<1>3. NotYet(t)' <=> NotYet(t)
  BY <1>1 DEF NotYet
<1>4. (t \in Adding)' <=> t \in Adding
  BY <1>1 DEF Adding, Running
<1>a. gpc[t] = "nextEdge" => t \notin Adding
  BY BaseOf DEF Fits, SweepPcs, Adding, Running
<1>b. gpc'[t] # "idle" /\ (t \in Adding => gloc'[t].op = gloc[t].op /\ gloc'[t].edge = gloc[t].edge)
  BY <1>1, <1>a, BaseOf DEF Fits, Adding, Running
<1>5. \A label2 \in {"clearOut", "clearIn"} : gpc'[t] = label2 <=> gpc[t] = label2
  BY <1>1
<1>6. ASSUME NEW e \in Edges
      PROVE  /\ Holds(t, e)' <=> Holds(t, e)
             /\ Removes(t, e)' <=> Removes(t, e)
             /\ \A side \in {"out", "in"} :
                   /\ Unlisted(t, e, side)' <=> Unlisted(t, e, side)
                   /\ Unfiled(t, e, side)' <=> Unfiled(t, e, side)
  BY <1>1 DEF Holds, Removes, Unlisted, Unfiled
<1> QED BY <1>2, <1>3, <1>4, <1>b, <1>5, <1>6 DEF ListsCalm, EdgesCalm

\* A call that ends: it holds no edge, or leaves a loose one.
LEMMA CalmEnd ==
  ASSUME GraphAssumption, Base, NEW t \in Tasks, NEW label \in Ended, Moved(t, label, Fresh),
         gpc[t] \in {"clearOut", "clearIn"} => Edges \subseteq loose',
         gpc[t] \in {"getList", "setList", "unlist", "saveList", "deleteEdge"} =>
            gloc[t].edge \notin StoredEdges \ loose'
  PROVE  ListsCalm(t)
<1>1. gpc'[t] = label /\ gloc'[t] = Fresh
  BY DEF Moved
<1>2. gpc'[t] # "idle" /\ ~NotYet(t)' /\ ~(t \in Adding)'
  BY <1>1 DEF NotYet, Adding, Running, Fresh, Ended
<1>3. \A e \in Edges : ~Holds(t, e)' /\ \A side \in {"out", "in"} : ~Unlisted(t, e, side)'
  BY <1>1 DEF Holds, Unlisted, Ended
<1>4. ASSUME NEW e \in Edges \ loose', e \in StoredEdges, NEW side \in {"out", "in"}
      PROVE  ~Unlisted(t, e, side) /\ ~Unfiled(t, e, side)
  BY <1>4 DEF Unlisted, Unfiled
<1>5. \/ Edges \subseteq loose'
      \/ \A label2 \in {"clearOut", "clearIn"} : gpc'[t] = label2 <=> gpc[t] = label2
  BY <1>1 DEF Ended
<1> QED BY <1>2, <1>3, <1>4, <1>5 DEF ListsCalm, EdgesCalm

LEMMA StartCalm ==
  ASSUME GraphAssumption, Base, NEW t \in Tasks, NEW call \in CallsOf(t), Start(t, call)
  PROVE  ListsCalm(t)
<1>1. /\ gpc[t] = "idle" /\ gpc'[t] = First(call.op) /\ gloc'[t] = call
      /\ call.op \in {"addEdge", "import"} => First(call.op) = "hasSource"
      /\ First(call.op) \in {"hasSource", "getEdge", "getNode", "readEdge", "readNode", "clearNodes"}
  BY StartEffect, CallIs
<1>2. NotYet(t) /\ gpc'[t] # "idle" /\ ((t \in Adding)' => NotYet(t)')
  BY <1>1 DEF NotYet, Adding, Running
<1>a. ASSUME (t \in Adding)'
      PROVE  Brings(t)
  <2>1. call.op \in {"addEdge", "import"} /\ call \in Locals /\ Fits(t, First(call.op), call)
    BY <1>1, <1>a, CallIs DEF Adding, Running
  <2>2. CASE call.op = "addEdge"
    BY <1>1, <2>1, <2>2 DEF Brings, Fits
  <2>3. CASE call.op = "import"
    <3>1. \A u \in Tasks \ {t} : call.edge = NewEdge(u) => gpc[u] # "idle"
      BY <2>3, CallIs DEF EdgeIds
    <3>2. call.edge \in loose' \/ \A u \in Tasks : gloc[u].edge # call.edge
      BY <2>3, StartEffect
    <3> QED BY <1>1, <2>3, <3>1, <3>2 DEF Brings
  <2> QED BY <2>1, <2>2, <2>3
<1>3. \A e \in Edges : /\ ~Holds(t, e)'
                       /\ \A side \in {"out", "in"} :
                            ~Unlisted(t, e, side)' /\ ~Unlisted(t, e, side) /\ ~Unfiled(t, e, side)
  BY <1>1 DEF Holds, Unlisted, Unfiled
<1> QED BY <1>1, <1>2, <1>a, <1>3 DEF ListsCalm, EdgesCalm

\* Steps that find an edge.
LEMMA GetEdgeCalm ==
  ASSUME GraphAssumption, Base, NEW t \in Tasks, GetEdge(t) \/ ReadEdge(t), ListsInv
  PROVE  ListsCalm(t)
<1>1. CASE Moved(t, "done", Fresh)
  <2>1. gpc[t] \in {"getEdge", "readEdge"}
    BY DEF GetEdge, ReadEdge
  <2> QED BY <1>1, <2>1, CalmEnd DEF Ended
<1>2. CASE GetEdge(t) /\ Moved(t, "nextEdge", gloc[t])
  BY <1>2, CalmMove, BaseOf DEF GetEdge, Labels
<1>3. CASE /\ gloc[t].edge \in StoredEdges /\ GetEdge(t)
           /\ Moved(t, "unlist", [gloc[t] EXCEPT !.source = edges[gloc[t].edge].source,
                                     !.target = edges[gloc[t].edge].target, !.side = "out"])
  <2> DEFINE f == gloc[t].edge
             l == [gloc[t] EXCEPT !.source = edges[f].source, !.target = edges[f].target,
                                  !.side = "out"]
  <2>1. /\ gpc[t] = "getEdge" /\ gpc'[t] = "unlist" /\ gloc'[t] = l
        /\ f \in StoredEdges \cap HalfAdded(t) => f \in loose'
        /\ loose \subseteq loose'
    BY <1>3 DEF GetEdge, Moved
  <2>2. /\ l.edge = f /\ l.op = gloc[t].op /\ l.side = "out"
        /\ l.source = edges[f].source /\ l.target = edges[f].target
    BY BaseOf DEF Locals
  <2>3. f \in Edges /\ edges[f] = [source |-> edges[f].source, target |-> edges[f].target]
    BY <1>3, GetEdgeEffect, StoredEdge DEF EdgeRecords
  <2> HIDE DEF l
  <2>4. edges[f] = Ends(t)'
    BY <2>1, <2>2, <2>3 DEF Ends
  <2>5. /\ gpc'[t] # "idle" /\ ~NotYet(t)' /\ ~NotYet(t)
        /\ ((t \in Adding)' <=> t \in Adding) /\ gloc'[t].edge = f /\ gloc'[t].op = gloc[t].op
    BY <2>1, <2>2 DEF NotYet, Adding, Running
  <2>6. t \in Adding /\ f \notin loose' => Ends(t)' = Ends(t)
    BY <2>1, <2>4, <2>5 DEF ListsInv, EdgesInv, AddedStored
  <2>7. ASSUME NEW e \in Edges \ loose', Holds(t, e)'
        PROVE  e = f
    BY <2>5, <2>7 DEF Holds
  <2>8. ASSUME NEW e \in Edges, NEW side \in {"out", "in"}
        PROVE  ~Unlisted(t, e, side)' /\ ~Unlisted(t, e, side) /\ ~Unfiled(t, e, side)
    BY <2>1, <2>2 DEF Unlisted, Unfiled
  <2> QED BY <1>3, <2>1, <2>4, <2>5, <2>6, <2>7, <2>8 DEF ListsCalm, EdgesCalm
<1>4. CASE /\ gloc[t].edge \in StoredEdges /\ ReadEdge(t)
           /\ Moved(t, "writeEdge", [gloc[t] EXCEPT !.source = edges[gloc[t].edge].source,
                                        !.target = edges[gloc[t].edge].target])
  <2> DEFINE f == gloc[t].edge
             l == [gloc[t] EXCEPT !.source = edges[f].source, !.target = edges[f].target]
  <2>1. gpc[t] = "readEdge" /\ gpc'[t] = "writeEdge" /\ gloc'[t] = l
    BY <1>4 DEF ReadEdge, Moved
  <2>2. /\ l.edge = f /\ l.op = gloc[t].op
        /\ l.source = edges[f].source /\ l.target = edges[f].target
    BY BaseOf DEF Locals
  <2>3. f \in Edges /\ edges[f] = [source |-> edges[f].source, target |-> edges[f].target]
    BY <1>4, ReadEdgeEffect, StoredEdge DEF EdgeRecords
  <2>4. gloc[t].op = "updateEdge"
    BY <2>1, BaseOf DEF Fits
  <2> HIDE DEF l
  <2>5. edges[f] = Ends(t)'
    BY <2>1, <2>2, <2>3 DEF Ends
  <2>6. ~NotYet(t)' /\ ~(t \in Adding)' /\ gloc'[t].edge = f
    BY <2>1, <2>2, <2>4 DEF NotYet, Adding, Running
  <2>7. ASSUME NEW e \in Edges \ loose', Holds(t, e)'
        PROVE  e = f /\ ~Removes(t, e)'
    BY <2>1, <2>6, <2>7 DEF Holds, Removes
  <2>8. ASSUME NEW e \in Edges, NEW side \in {"out", "in"}
        PROVE  ~Unlisted(t, e, side)' /\ ~Unlisted(t, e, side) /\ ~Unfiled(t, e, side)
    BY <2>1 DEF Unlisted, Unfiled
  <2> QED BY <1>4, <2>1, <2>5, <2>6, <2>7, <2>8 DEF ListsCalm, EdgesCalm
<1> QED BY <1>1, <1>2, <1>3, <1>4, GetEdgeEffect, ReadEdgeEffect

\* All steps that write neither an edge nor a list.
Quietly(t) ==
    \/ HasSource(t) \/ HasTarget(t) \/ Create(t) \/ GetList(t) \/ Unlist(t)
    \/ RecheckSource(t) \/ RecheckTarget(t) \/ GetEdge(t)
    \/ GetNode(t) \/ List(t) \/ ListOut(t) \/ NextEdge(t) \/ DeleteNode(t)
    \/ ReadNode(t) \/ WriteNode(t) \/ (\E n \in Nodes : PutNode(t, n)) \/ ReadEdge(t)

LEMMA QuietlyKeepsLists ==
  ASSUME GraphAssumption, Base, ListsInv, NEW t \in Tasks, Quietly(t)
  PROVE  ListsInv' /\ Base'
<1>1. UNCHANGED <<edges, index, clashed>> /\ loose \subseteq loose'
  BY DEF Quietly, HasSource, HasTarget, Has, Create, GetList, Unlist, RecheckSource, RecheckTarget,
         GetEdge, GetNode, List, ListOut, NextEdge, DeleteNode, ReadNode, WriteNode, PutNode,
         ReadEdge, records
<1>a. \A e \in Edges \ loose' : edges'[e] = edges[e]
  BY <1>1
<1> SUFFICES Base' /\ OthersStay(t) /\ ListsCalm(t)
  BY <1>1, <1>a, ListsQuiet
<1>2. ASSUME NEW label, NEW l, Moved(t, label, l), Base',
             l.op = gloc[t].op, l.side = gloc[t].side, l.source = gloc[t].source,
             l.target = gloc[t].target,
             \/ /\ gpc[t] \in {"hasSource", "hasTarget", "createSource", "createTarget"}
                /\ label \in {"hasTarget", "createSource", "createTarget", "setEdge"}
                /\ l.edge = gloc[t].edge
             \/ gpc[t] = "getList" /\ label = "setList" /\ l.edge = gloc[t].edge
             \/ gpc[t] = "unlist" /\ label = "saveList" /\ l.edge = gloc[t].edge
             \/ /\ gpc[t] \in {"recheckSource", "recheckTarget", "getEdge", "getNode", "list",
                               "relist", "nextEdge", "readNode"}
                /\ label \in {"recheckTarget", "getEdge", "list", "relist", "nextEdge",
                              "deleteNode", "writeNode"}
                /\ gpc[t] = "nextEdge" \/ l.edge = gloc[t].edge
      PROVE  Base' /\ OthersStay(t) /\ ListsCalm(t)
  BY <1>2, CalmMove, MovedStays
<1>3. ASSUME Moved(t, "done", Fresh), Base',
             gpc[t] \notin {"clearOut", "clearIn", "getList", "setList", "unlist", "saveList",
                            "deleteEdge"}
      PROVE  Base' /\ OthersStay(t) /\ ListsCalm(t)
  BY <1>3, CalmEnd, MovedStays DEF Ended
<1> HIDE DEF ListsCalm, OthersStay
<1>4. gloc[t] \in Locals
  BY BaseOf
<1>5. CASE HasSource(t)
  <2>1. gpc[t] = "hasSource"
    BY <1>5 DEF HasSource
  <2> QED BY <1>2, <1>4, <1>5, <2>1, HasSourceEffect DEF Locals
<1>6. CASE HasTarget(t)
  <2>1. gpc[t] = "hasTarget"
    BY <1>6 DEF HasTarget
  <2> QED BY <1>2, <1>3, <1>4, <1>6, <2>1, HasTargetEffect DEF Locals
<1>7. CASE Create(t)
  <2>1. gpc[t] \in {"createSource", "createTarget"}
    BY <1>7 DEF Create
  <2> QED BY <1>2, <1>4, <1>7, <2>1, CreateEffect DEF Locals
<1>8. CASE GetList(t) \/ Unlist(t)
  <2>1. gpc[t] \in {"getList", "unlist"}
    BY <1>8 DEF GetList, Unlist
  <2> QED BY <1>2, <1>4, <1>8, <2>1, GetListEffect DEF Locals
<1>9. CASE RecheckSource(t)
  <2>1. gpc[t] = "recheckSource"
    BY <1>9 DEF RecheckSource
  <2> QED BY <1>2, <1>4, <1>9, <2>1, RecheckSourceEffect DEF Locals
<1>10. CASE RecheckTarget(t)
  <2>1. gpc[t] = "recheckTarget"
    BY <1>10 DEF RecheckTarget
  <2> QED BY <1>2, <1>3, <1>4, <1>10, <2>1, RecheckTargetEffect DEF Locals
<1>11. CASE GetEdge(t) \/ ReadEdge(t)
  <2>1. ListsCalm(t)
    BY <1>11, GetEdgeCalm
  <2>2. Base' /\ OthersStay(t)
    BY <1>11, GetEdgeEffect, ReadEdgeEffect, MovedStays
  <2> QED BY <2>1, <2>2
<1>12. CASE GetNode(t)
  <2>1. gpc[t] = "getNode"
    BY <1>12 DEF GetNode
  <2> QED BY <1>2, <1>3, <1>12, <2>1, GetNodeEffect
<1>13. CASE List(t)
  <2>1. gpc[t] = "list"
    BY <1>13 DEF List
  <2> QED BY <1>2, <1>4, <1>13, <2>1, ListEffect DEF Locals
<1>14. CASE ListOut(t)
  <2>1. gpc[t] = "relist"
    BY <1>14 DEF ListOut
  <2> QED BY <1>2, <1>4, <1>14, <2>1, ListOutEffect DEF Locals
<1>15. CASE NextEdge(t)
  <2>1. gpc[t] = "nextEdge"
    BY <1>15 DEF NextEdge
  <2>2. CASE \E e \in gloc[t].todo :
                Moved(t, "getEdge", [gloc[t] EXCEPT !.edge = e, !.todo = @ \ {e}])
    BY <1>2, <1>4, <1>15, <2>1, <2>2, NextEdgeEffect DEF Locals
  <2>3. CASE Moved(t, IF gloc[t].again THEN "deleteNode" ELSE "list",
                   [gloc[t] EXCEPT !.again = TRUE])
    BY <1>2, <1>4, <1>15, <2>1, <2>3, NextEdgeEffect DEF Locals
  <2> QED BY <1>15, <2>2, <2>3, NextEdgeEffect
<1>16. CASE DeleteNode(t)
  <2>1. gpc[t] = "deleteNode"
    BY <1>16 DEF DeleteNode
  <2> QED BY <1>3, <1>16, <2>1, DeleteNodeEffect
<1>17. CASE ReadNode(t) \/ WriteNode(t) \/ (\E n \in Nodes : PutNode(t, n))
  <2>1. Moved(t, "writeNode", gloc[t]) => gpc[t] = "readNode"
    BY <1>17 DEF Moved, ReadNode, WriteNode, PutNode, Goto, Jump, Base, GraphTypeOK
  <2> QED BY <1>2, <1>3, <1>17, <2>1, NodeStepsEffect
<1> QED BY <1>5, <1>6, <1>7, <1>8, <1>9, <1>10, <1>11, <1>12, <1>13, <1>14, <1>15, <1>16, <1>17
        DEF Quietly

-----------------------------------------------------------------------------
(* The lists: steps that write edges and lists.                             *)

\* Where a step that stays with its edge leaves its task.
LEMMA StaysAdding ==
  ASSUME NEW t \in Tasks, NEW label, NEW l, Moved(t, label, l),
         l.op = gloc[t].op, l.edge = gloc[t].edge, l.source = gloc[t].source,
         l.target = gloc[t].target
  PROVE  \A u \in Tasks : /\ Ends(u)' = Ends(u) /\ gloc'[u].edge = gloc[u].edge
                          /\ (u \in Adding)' <=> u \in Adding
  BY DEF Moved, Ends, Adding, Running

LEMMA SetEdgeKeepsLists ==
  ASSUME GraphAssumption, Base, ListsInv, NEW t \in Tasks, SetEdge(t)
  PROVE  ListsInv'
<1> DEFINE e == gloc[t].edge
<1>1. /\ gpc[t] = "setEdge" /\ gpc'[t] = "getList" /\ gloc'[t] = gloc[t]
      /\ UNCHANGED <<index, clashed>> /\ OthersStay(t)
      /\ edges' = [edges EXCEPT ![e] = Ends(t)]
      /\ loose' = loose \cup {f \in StoredEdges : f = e /\ edges[f] # Ends(t)}
  BY SetEdgeEffect, MovedStays DEF SetEdge, Moved, Ends
<1>2. /\ t \in Adding /\ gloc[t].edge = e /\ gloc[t].side = "out" /\ NotYet(t) /\ e \in Edges
      /\ gloc[t].source \in Nodes /\ gloc[t].target \in Nodes
  BY <1>1, BaseOf DEF Fits, AddPcs, Adding, Running, NotYet, GraphAssumption
<1>3. /\ edges'[e] = Ends(t) /\ Ends(t) \in EdgeRecords /\ edges'[e] # None
      /\ \A f \in Edges \ {e} : edges'[f] = edges[f]
      /\ StoredEdges' = StoredEdges \cup {e}
  <2>1. Ends(t) \in EdgeRecords
    BY <1>2 DEF Ends, EdgeRecords
  <2> QED BY <1>1, <1>2, <2>1 DEF Base, GraphTypeOK, StoredEdges, GraphAssumption, EdgeRecords
<1>4. ASSUME NEW v \in Tasks \ {t}, v \in Adding, gloc[v].edge = e
      PROVE  e \in loose
  BY <1>2, <1>4 DEF ListsInv, EdgesInv, AddsApart
<1>5. ASSUME e \notin loose'
      PROVE  \/ e \in StoredEdges /\ edges[e] = Ends(t)
             \/ Unused(e)
  <2>1. e \in StoredEdges => edges[e] = Ends(t)
    BY <1>1, <1>5
  <2>2. gloc[t].op # "import" => e = NewEdge(t)
    BY <1>2, BaseOf DEF Fits, Adding, Running
  <2> QED BY <1>1, <1>2, <1>5, <2>1, <2>2 DEF ListsInv, EdgesInv, FreshEdges
<1>6. /\ ~NotYet(t)' /\ Ends(t)' = Ends(t) /\ (t \in Adding)' /\ gloc'[t].edge = e
      /\ \A f \in Edges : /\ ~Holds(t, f)' /\ ~Removes(t, f)'
                          /\ \A side \in {"out", "in"} :
                               ~Unlisted(t, f, side)' /\ ~Unlisted(t, f, side) /\ ~Unfiled(t, f, side)
  BY <1>1, <1>2 DEF NotYet, Ends, Adding, Running, Holds, Removes, Unlisted, Unfiled
<1> HIDE DEF e
<1> USE OthersSame
<1>b. ASSUME NEW f \in Edges \ {e}, Unused(f)
      PROVE  Unused(f)'
  BY <1>1, <1>3, <1>6, <1>b DEF Unused, StoredEdges
<1>7. FreshEdges'
  <2>1. ASSUME NEW v \in Tasks, NotYet(v)', gloc'[v].op # "import", NewEdge(v) \notin loose'
        PROVE  Unused(NewEdge(v))'
    <3>1. v # t /\ NotYet(v) /\ gloc[v].op # "import" /\ NewEdge(v) \in Edges \ loose'
      BY <1>1, <1>6, <2>1 DEF GraphAssumption
    <3>2. NewEdge(v) # e
      <4>1. CASE gpc[v] = "idle"
        BY <1>2, <4>1 DEF ListsInv, EdgesInv, FreshEdges
      <4>2. CASE gpc[v] # "idle"
        <5>1. v \in Adding /\ gloc[v].edge = NewEdge(v)
          BY <3>1, <4>2, BaseOf DEF NotYet, Fits, AddPcs, Adding, Running
        <5> QED BY <1>1, <1>4, <3>1, <5>1
      <4> QED BY <4>1, <4>2
    <3>3. Unused(NewEdge(v))
      BY <1>1, <3>1 DEF ListsInv, EdgesInv, FreshEdges
    <3> QED BY <1>b, <3>1, <3>2, <3>3
  <2>2. ASSUME NEW v \in Tasks, NotYet(v)', gloc'[v].op = "import",
               gloc'[v].edge \notin loose' \cup StoredEdges'
        PROVE  Unused(gloc[v].edge)'
    <3>1. /\ v # t /\ NotYet(v) /\ gloc[v].op = "import" /\ gloc'[v].edge = gloc[v].edge
          /\ gloc[v].edge \notin loose \cup StoredEdges
      BY <1>1, <1>3, <1>6, <2>2
    <3>2. v \in Adding /\ gloc[v].edge \in Edges
      BY <3>1, AddingEdges DEF Adding, Running
    <3>3. gloc[v].edge # e
      BY <1>4, <3>1, <3>2
    <3>4. Unused(gloc[v].edge)
      BY <3>1 DEF ListsInv, EdgesInv, FreshEdges
    <3>5. \A f : f = gloc[v].edge => Unused(f)'
      BY <1>b, <3>2, <3>3, <3>4
    <3> QED BY <3>1, <3>5 DEF Unused, Holds
  <2>3. ASSUME NEW v \in Tasks, gpc'[v] = "idle", NEW u \in Adding'
        PROVE  gloc'[u].edge # NewEdge(v)
    <3>1. gpc[v] = "idle" /\ u \in Tasks
      BY <1>1, <2>3 DEF Adding, Running
    <3>2. u \in Adding /\ gloc'[u].edge = gloc[u].edge
      BY <1>1, <1>2, <2>3, <3>1
    <3> QED BY <3>1, <3>2 DEF ListsInv, EdgesInv, FreshEdges
  <2> QED BY <2>1, <2>2, <2>3 DEF FreshEdges
<1>c. ASSUME NEW v \in Adding'
      PROVE  v \in Adding /\ gloc'[v].edge = gloc[v].edge /\ v \in Tasks /\ gloc[v].edge \in Edges
  <2>1. v \in Tasks
    BY <1>c DEF Adding, Running
  <2> QED BY <1>1, <1>2, <1>c, <2>1, AddingEdges
<1>d. AddsApart'
  <2>1. ASSUME NEW v \in Adding', NEW u \in Adding', v # u, gloc'[v].edge = gloc'[u].edge
        PROVE  gloc'[v].edge \in loose'
    BY <1>1, <1>c, <2>1 DEF ListsInv, EdgesInv, AddsApart
  <2> QED BY <2>1 DEF AddsApart
<1>8. AddedStored'
  <2>1. ASSUME NEW v \in Tasks \ {t}, (v \in Adding)', gloc'[v].edge \notin loose'
        PROVE  v \in Adding /\ gloc[v].edge \in Edges \ {e}
    BY <1>1, <1>4, <2>1, AddingEdges
  <2>2. \A v \in Adding' : v \in Tasks
    BY DEF Adding, Running
  <2> QED BY <1>1, <1>3, <1>6, <2>1, <2>2 DEF ListsInv, EdgesInv, AddedStored
<1>9. HeldTrue'
  <2> SUFFICES ASSUME NEW u \in Tasks, NEW f \in StoredEdges' \ loose', Holds(u, f)'
               PROVE  edges'[f] = Ends(u)'
    BY DEF HeldTrue
  <2>1. u # t /\ Holds(u, f) /\ Ends(u)' = Ends(u) /\ f \in Edges /\ f \notin loose
    BY <1>1, <1>6 DEF StoredEdges
  <2>2. f \in StoredEdges
    BY <1>3, <1>5, <2>1 DEF Unused
  <2>3. edges[f] = Ends(u)
    BY <2>1, <2>2 DEF ListsInv, EdgesInv, HeldTrue
  <2> QED BY <1>3, <1>5, <2>1, <2>2, <2>3 DEF Unused
<1>10. AddedAlone'
  <2>1. ASSUME NEW v \in Adding', NEW u \in Tasks, u # v, Removes(u, gloc[v].edge)'
        PROVE  gloc'[v].edge \in loose'
    <3>1. \A f \in Edges : Removes(u, f)' => Removes(u, f)
      BY <1>1, <1>6
    <3>2. \A f : f = gloc'[v].edge /\ f \in Edges => Removes(u, f)
      BY <2>1, <3>1 DEF Removes
    <3> QED BY <1>1, <1>c, <2>1, <3>2 DEF ListsInv, EdgesInv, AddedAlone
  <2> QED BY <1>c, <2>1 DEF AddedAlone
<1>11. CutDone'
  <2> SUFFICES ASSUME NEW u \in Tasks, NEW f \in Edges \ loose', NEW side \in {"out", "in"},
                      Unlisted(u, f, side)', <<side, End(gloc'[u], side)>> \notin clashed
               PROVE  f \notin index[<<side, End(gloc'[u], side)>>]
    BY <1>1 DEF CutDone
  <2>1. u \in Tasks \ {t} /\ Unlisted(u, f, side) /\ Ends(u)' = Ends(u) /\ f \notin loose
    BY <1>1, <1>6
  <2>2. End(gloc'[u], side) = End(gloc[u], side)
    BY <2>1 DEF Ends, End
  <2> QED BY <2>1, <2>2 DEF ListsInv, CutDone
<1>12. ListsComplete'
  <2> SUFFICES ASSUME NEW f \in StoredEdges' \ loose', NEW side \in {"out", "in"},
                      <<side, End(edges'[f], side)>> \notin clashed',
                      f \notin index'[<<side, End(edges'[f], side)>>]
               PROVE  \E u \in Tasks : Unfiled(u, f, side)' \/ Unlisted(u, f, side)'
    BY DEF ListsComplete
  <2>1. CASE f = e
    BY <1>1, <1>2, <2>1 DEF Unfiled
  <2>2. CASE f # e
    <3>1. f \in StoredEdges \ loose /\ f \in Edges /\ edges'[f] = edges[f]
      BY <1>1, <1>3, <2>2 DEF StoredEdges
    <3>a. /\ <<side, End(edges[f], side)>> \notin clashed
          /\ f \notin index[<<side, End(edges[f], side)>>]
      BY <1>1, <3>1
    <3>2. PICK u \in Tasks : Unfiled(u, f, side) \/ Unlisted(u, f, side)
      BY <3>1, <3>a DEF ListsInv, ListsComplete
    <3>3. u # t
      BY <1>6, <3>1, <3>2
    <3> QED BY <1>1, <3>1, <3>2, <3>3
  <2> QED BY <2>1, <2>2
<1>13. ListsTrue'
  <2>1. \A side \in {"out", "in"} : Clearing(side)' <=> Clearing(side)
    BY <1>1 DEF Clearing, OthersStay
  <2> SUFFICES ASSUME NEW side \in {"out", "in"}, NEW n \in Nodes, <<side, n>> \notin clashed,
                      ~Clearing(side), NEW f \in index[<<side, n>>] \ loose'
               PROVE  f \in StoredEdges' /\ End(edges'[f], side) = n
    BY <1>1, <2>1 DEF ListsTrue
  <2>2. f \in StoredEdges /\ f \in Edges /\ End(edges[f], side) = n
    BY <1>1 DEF ListsInv, ListsTrue, StoredEdges
  <2> QED BY <1>3, <1>5, <2>2 DEF Unused
<1> QED BY <1>7, <1>d, <1>8, <1>9, <1>10, <1>11, <1>12, <1>13 DEF ListsInv, EdgesInv

\* Steps that write one list.
LEMMA OneListWritten ==
  ASSUME Base, NEW t \in Tasks, gpc[t] \in {"setList", "saveList"},
         NEW list \in SUBSET Edges, WriteList(t, list), NEW k \in Lists, k \notin clashed'
  PROVE  /\ k \notin clashed
         /\ k # ListOf(t) => index'[k] = index[k]
         /\ k = ListOf(t) => index'[k] = list /\ index[k] = gloc[t].read
  BY WriteListKept

LEMMA SetListKeepsLists ==
  ASSUME GraphAssumption, Base, ListsInv, NEW t \in Tasks, SetList(t)
  PROVE  ListsInv'
<1> DEFINE e == gloc[t].edge
           list == gloc[t].read \cup {e}
<1>1. /\ gpc[t] = "setList" /\ UNCHANGED <<edges, loose>>
      /\ WriteList(t, gloc[t].read \cup {gloc[t].edge})
  BY DEF SetList
<1>2. /\ t \in Adding /\ gloc[t].edge = e /\ e \in Edges /\ ~NotYet(t)
      /\ gloc[t].source \in Nodes /\ gloc[t].target \in Nodes /\ gloc[t].side \in {"out", "in"}
      /\ list \in SUBSET Edges /\ gloc[t] \in Locals
  BY <1>1, BaseOf DEF Fits, AddPcs, Adding, Running, NotYet, GraphAssumption, Locals
<1>3. Base' /\ OthersStay(t)
  BY SetListEffect, MovedStays
<1>4. e \notin loose => edges[e] = Ends(t) /\ e \in StoredEdges
  BY <1>2 DEF ListsInv, EdgesInv, AddedStored, StoredEdges, Ends, GraphAssumption
<1>5. /\ gpc'[t] # "idle" /\ ~NotYet(t)'
      /\ (t \in Adding)' => Ends(t)' = Ends(t) /\ gloc'[t].edge = e /\ gloc'[t].op = gloc[t].op
      /\ \A f \in Edges : /\ ~Holds(t, f)' /\ ~Removes(t, f)'
                          /\ \A side \in {"out", "in"} :
                               ~Unlisted(t, f, side)' /\ ~Unlisted(t, f, side)
  <2>1. CASE gloc[t].side = "out"
    <3>1. gpc'[t] = "getList" /\ gloc'[t] = [gloc[t] EXCEPT !.side = "in"]
      BY <2>1, SetListEffect DEF Moved
    <3> QED BY <1>1, <1>2, <3>1 DEF NotYet, Ends, Adding, Running, Holds, Removes, Unlisted, Locals
  <2>2. CASE gloc[t].side = "in" /\ gloc[t].op = "import"
    <3>1. gpc'[t] = "done" /\ gloc'[t] = Fresh
      BY <2>2, SetListEffect DEF Moved
    <3> QED BY <1>1, <1>2, <3>1 DEF NotYet, Adding, Running, Holds, Removes, Unlisted, Fresh
  <2>3. CASE gloc[t].side = "in" /\ gloc[t].op # "import"
    <3>1. gpc'[t] = "recheckSource" /\ gloc'[t] = [gloc[t] EXCEPT !.missing = {}]
      BY <2>3, SetListEffect DEF Moved
    <3> QED BY <1>1, <1>2, <3>1 DEF NotYet, Ends, Adding, Running, Holds, Removes, Unlisted, Locals
  <2> QED BY <1>2, <2>1, <2>2, <2>3
<1>6. ASSUME NEW f, f = e, gloc[t].side = "out"
      PROVE  Unfiled(t, f, "in")'
  <2>1. ASSUME gloc[t].side = "out"
        PROVE  gpc'[t] = "getList" /\ gloc'[t] = [gloc[t] EXCEPT !.side = "in"]
    BY <2>1, SetListEffect DEF Moved
  <2> QED BY <1>2, <1>6, <2>1 DEF Unfiled, Locals
<1>7. EdgesInv'
  <2>1. EdgesCalm(t)
    BY <1>2, <1>5 DEF EdgesCalm
  <2> QED BY <1>1, <1>3, <2>1, EdgesQuiet
<1>8. ListOf(t) = <<gloc[t].side, End(gloc[t], gloc[t].side)>> /\ ListOf(t) \in Lists
  BY <1>1, ListOfIsList
<1>9. ASSUME NEW k \in Lists, k \notin clashed'
      PROVE  k \notin clashed /\ index'[k] = IF k = ListOf(t) THEN index[k] \cup {e} ELSE index[k]
  BY <1>1, <1>2, <1>9, OneListWritten
<1>10. \A u \in Tasks \ {t}, f \in Edges, side \in {"out", "in"} :
          /\ Unlisted(u, f, side)' <=> Unlisted(u, f, side)
          /\ Unfiled(u, f, side)' <=> Unfiled(u, f, side)
          /\ Ends(u)' = Ends(u)
  BY <1>3, OthersSame
<1> HIDE DEF e, list
<1>11. CutDone'
  <2> SUFFICES ASSUME NEW u \in Tasks, NEW f \in Edges \ loose', NEW side \in {"out", "in"},
                      Unlisted(u, f, side)', <<side, End(gloc'[u], side)>> \notin clashed'
               PROVE  f \notin index'[<<side, End(gloc'[u], side)>>]
    BY DEF CutDone
  <2> DEFINE k == <<side, End(gloc[u], side)>>
  <2>1. u # t /\ Unlisted(u, f, side) /\ End(gloc'[u], side) = End(gloc[u], side)
    BY <1>5, <1>10 DEF Ends, End
  <2>2. k \in Lists
    BY <2>1, BaseOf DEF Unlisted, Fits, Lists, End
  <2>3. k \notin clashed /\ index'[k] = IF k = ListOf(t) THEN index[k] \cup {e} ELSE index[k]
    BY <1>9, <2>1, <2>2
  <2>4. f \notin index[k]
    BY <1>1, <2>1, <2>3 DEF ListsInv, CutDone
  <2>5. f # e
    BY <1>1, <1>2, <2>1 DEF ListsInv, EdgesInv, AddedAlone, Removes, Unlisted
  <2> QED BY <2>1, <2>3, <2>4, <2>5
<1>12. ListsComplete'
  <2> SUFFICES ASSUME NEW f \in StoredEdges \ loose, NEW side \in {"out", "in"},
                      <<side, End(edges[f], side)>> \notin clashed',
                      f \notin index'[<<side, End(edges[f], side)>>]
               PROVE  \E u \in Tasks : Unfiled(u, f, side)' \/ Unlisted(u, f, side)'
    BY <1>1 DEF ListsComplete, StoredEdges
  <2> DEFINE k == <<side, End(edges[f], side)>>
  <2>1. f \in Edges /\ k \in Lists
    BY StoredEdge DEF StoredEdges, Lists, End, EdgeRecords
  <2>2. k \notin clashed /\ index'[k] = IF k = ListOf(t) THEN index[k] \cup {e} ELSE index[k]
    BY <1>9, <2>1
  <2>3. f \notin index[k]
    BY <2>2
  <2>4. PICK u \in Tasks : Unfiled(u, f, side) \/ Unlisted(u, f, side)
    BY <2>2, <2>3 DEF ListsInv, ListsComplete
  <2>5. CASE u # t
    BY <1>10, <2>1, <2>4, <2>5
  <2>6. CASE u = t
    <3>1. f = e /\ (side = "in" \/ gloc[t].side = "out")
      BY <1>2, <1>5, <2>1, <2>4, <2>6 DEF Unfiled
    <3>2. side # gloc[t].side
      <4>1. End(edges[f], side) = End(gloc[t], side)
        BY <1>4, <3>1 DEF Ends, End
      <4> QED BY <1>8, <2>2, <3>1, <4>1
    <3> QED BY <1>2, <1>6, <3>1, <3>2
  <2> QED BY <2>5, <2>6
<1>13. ListsTrue'
  <2> SUFFICES ASSUME NEW side \in {"out", "in"}, NEW n \in Nodes, <<side, n>> \notin clashed',
                      ~Clearing(side)', NEW f \in index'[<<side, n>>] \ loose
               PROVE  f \in StoredEdges /\ End(edges[f], side) = n
    BY <1>1 DEF ListsTrue, StoredEdges
  <2> DEFINE k == <<side, n>>
  <2>1. k \in Lists /\ ~Clearing(side)
    BY <1>1, <1>3 DEF Lists, Clearing, OthersStay
  <2>2. k \notin clashed /\ index'[k] = IF k = ListOf(t) THEN index[k] \cup {e} ELSE index[k]
    BY <1>9, <2>1
  <2>3. CASE f \in index[k]
    BY <2>1, <2>2, <2>3 DEF ListsInv, ListsTrue
  <2>4. CASE f \notin index[k]
    <3>1. f = e /\ side = gloc[t].side /\ n = End(gloc[t], side)
      BY <1>8, <2>2, <2>4
    <3> QED BY <1>4, <3>1 DEF Ends, End
  <2> QED BY <2>3, <2>4
<1> QED BY <1>7, <1>11, <1>12, <1>13 DEF ListsInv, EdgesInv

LEMMA SaveListKeepsLists ==
  ASSUME GraphAssumption, Base, ListsInv, NEW t \in Tasks, SaveList(t)
  PROVE  ListsInv'
<1> DEFINE e == gloc[t].edge
           list == gloc[t].read \ {e}
<1>1. /\ gpc[t] = "saveList" /\ UNCHANGED <<edges, loose>>
      /\ WriteList(t, list)
  BY DEF SaveList
<1>2. /\ e \in Edges /\ ~NotYet(t) /\ gloc[t].source \in Nodes /\ gloc[t].target \in Nodes
      /\ gloc[t].side \in {"out", "in"} /\ list \in SUBSET Edges /\ gloc[t] \in Locals
  BY <1>1, BaseOf DEF Fits, CutPcs, NotYet, Locals
<1>3. Base' /\ OthersStay(t)
  BY SaveListEffect, MovedStays
<1>4. /\ gpc'[t] = IF gloc[t].side = "out" THEN "unlist" ELSE "deleteEdge"
      /\ gloc'[t].edge = e /\ gloc'[t].op = gloc[t].op /\ gloc'[t].side = "in"
      /\ gloc'[t].source = gloc[t].source /\ gloc'[t].target = gloc[t].target
  BY <1>2, SaveListEffect DEF Moved, Locals
<1>5. /\ gpc'[t] # "idle" /\ ~NotYet(t)' /\ Ends(t)' = Ends(t)
      /\ ((t \in Adding)' <=> t \in Adding)
      /\ \A f \in Edges :
            /\ Holds(t, f)' <=> Holds(t, f)
            /\ Removes(t, f)' <=> Removes(t, f)
            /\ \A side \in {"out", "in"} :
                 /\ Unlisted(t, f, side)' => f = e
                 /\ side # gloc[t].side => (Unlisted(t, f, side)' <=> Unlisted(t, f, side))
                 /\ ~Unlisted(t, f, gloc[t].side) /\ ~Unfiled(t, f, side)
  BY <1>1, <1>2, <1>4 DEF NotYet, Ends, Adding, Running, Holds, Removes, Unlisted, Unfiled
<1>6. ASSUME NEW f, f = e, NEW side \in {"out", "in"}, side = gloc[t].side
      PROVE  Unlisted(t, f, side)'
  BY <1>4, <1>6 DEF Unlisted
<1>7. EdgesInv'
  <2>1. EdgesCalm(t)
    BY <1>2, <1>4, <1>5 DEF EdgesCalm
  <2> QED BY <1>1, <1>3, <2>1, EdgesQuiet
<1>8. ListOf(t) = <<gloc[t].side, End(gloc[t], gloc[t].side)>> /\ ListOf(t) \in Lists
  BY <1>1, ListOfIsList
<1>9. ASSUME NEW k \in Lists, k \notin clashed'
      PROVE  k \notin clashed /\ index'[k] = IF k = ListOf(t) THEN index[k] \ {e} ELSE index[k]
  BY <1>1, <1>2, <1>9, OneListWritten
<1>10. \A u \in Tasks \ {t}, f \in Edges, side \in {"out", "in"} :
          /\ Unlisted(u, f, side)' <=> Unlisted(u, f, side)
          /\ Unfiled(u, f, side)' <=> Unfiled(u, f, side)
          /\ Ends(u)' = Ends(u)
  BY <1>3, OthersSame
<1> HIDE DEF e, list
<1>11. CutDone'
  <2> SUFFICES ASSUME NEW u \in Tasks, NEW f \in Edges \ loose', NEW side \in {"out", "in"},
                      Unlisted(u, f, side)', <<side, End(gloc'[u], side)>> \notin clashed'
               PROVE  f \notin index'[<<side, End(gloc'[u], side)>>]
    BY DEF CutDone
  <2> DEFINE k == <<side, End(gloc[u], side)>>
  <2>1. End(gloc'[u], side) = End(gloc[u], side)
    BY <1>5, <1>10 DEF Ends, End
  <2>2. k \in Lists
    BY <1>2, <1>5, <1>10, BaseOf DEF Unlisted, Fits, Lists, End
  <2>3. k \notin clashed /\ index'[k] = IF k = ListOf(t) THEN index[k] \ {e} ELSE index[k]
    BY <1>9, <2>1, <2>2
  <2>4. CASE Unlisted(u, f, side)
    <3>1. f \notin index[k]
      BY <1>1, <2>3, <2>4 DEF ListsInv, CutDone
    <3> QED BY <2>1, <2>3, <3>1
  <2>5. CASE ~Unlisted(u, f, side)
    <3>1. u = t /\ f = e /\ side = gloc[t].side
      BY <1>5, <1>10, <2>5
    <3> QED BY <1>8, <2>1, <2>3, <3>1
  <2> QED BY <2>4, <2>5
<1>12. ListsComplete'
  <2> SUFFICES ASSUME NEW f \in StoredEdges \ loose, NEW side \in {"out", "in"},
                      <<side, End(edges[f], side)>> \notin clashed',
                      f \notin index'[<<side, End(edges[f], side)>>]
               PROVE  \E u \in Tasks : Unfiled(u, f, side)' \/ Unlisted(u, f, side)'
    BY <1>1 DEF ListsComplete, StoredEdges
  <2> DEFINE k == <<side, End(edges[f], side)>>
  <2>1. f \in Edges /\ k \in Lists
    BY StoredEdge DEF StoredEdges, Lists, End, EdgeRecords
  <2>2. k \notin clashed /\ index'[k] = IF k = ListOf(t) THEN index[k] \ {e} ELSE index[k]
    BY <1>9, <2>1
  <2>3. CASE f \notin index[k]
    <3>1. PICK u \in Tasks : Unfiled(u, f, side) \/ Unlisted(u, f, side)
      BY <2>2, <2>3 DEF ListsInv, ListsComplete
    <3>2. CASE u # t
      BY <1>10, <2>1, <3>1, <3>2
    <3>3. CASE u = t
      <4>1. Unlisted(t, f, side)'
        BY <1>5, <2>1, <3>1, <3>3
      <4> QED BY <4>1
    <3> QED BY <3>2, <3>3
  <2>4. CASE f \in index[k]
    <3>1. f = e /\ side = gloc[t].side
      BY <1>8, <2>2, <2>4
    <3> QED BY <1>6, <3>1
  <2> QED BY <2>3, <2>4
<1>13. ListsTrue'
  <2> SUFFICES ASSUME NEW side \in {"out", "in"}, NEW n \in Nodes, <<side, n>> \notin clashed',
                      ~Clearing(side)', NEW f \in index'[<<side, n>>] \ loose
               PROVE  f \in StoredEdges /\ End(edges[f], side) = n
    BY <1>1 DEF ListsTrue, StoredEdges
  <2>1. <<side, n>> \in Lists /\ ~Clearing(side)
    BY <1>1, <1>3 DEF Lists, Clearing, OthersStay
  <2>2. <<side, n>> \notin clashed /\ f \in index[<<side, n>>]
    BY <1>9, <2>1
  <2> QED BY <2>1, <2>2 DEF ListsInv, ListsTrue
<1> QED BY <1>7, <1>11, <1>12, <1>13 DEF ListsInv, EdgesInv

LEMMA DeleteEdgeKeepsLists ==
  ASSUME GraphAssumption, Base, ListsInv, NEW t \in Tasks, DeleteEdge(t)
  PROVE  ListsInv'
<1> DEFINE e == gloc[t].edge
<1>1. /\ gpc[t] = "deleteEdge" /\ UNCHANGED <<index, clashed, loose>>
      /\ edges' = [edges EXCEPT ![e] = None]
  BY DEF DeleteEdge
<1>2. /\ e \in Edges /\ gloc[t].source \in Nodes /\ gloc[t].target \in Nodes
      /\ Holds(t, e) /\ Removes(t, e)
      /\ \A side \in {"out", "in"} : Unlisted(t, e, side)
      /\ \A f \in Edges, side \in {"out", "in"} :
            ~Unfiled(t, f, side) /\ (Unlisted(t, f, side) => f = e)
  BY <1>1, BaseOf DEF Fits, CutPcs, Holds, Removes, Unlisted, Unfiled
<1>3. edges'[e] = None /\ (\A f \in Edges \ {e} : edges'[f] = edges[f]) /\ StoredEdges' = StoredEdges \ {e}
  BY <1>1, <1>2 DEF Base, GraphTypeOK, StoredEdges
<1>4. Base' /\ OthersStay(t)
  BY DeleteEdgeEffect, MovedStays
<1>5. /\ ~NotYet(t)' /\ ~(t \in Adding)' /\ gpc'[t] \in {"nextEdge", "done"}
      /\ \A f \in Edges : ~Holds(t, f)' /\ \A side \in {"out", "in"} : ~Unlisted(t, f, side)'
  BY <1>1, DeleteEdgeEffect DEF Moved, NotYet, Adding, Running, Holds, Unlisted, Fresh
<1>6. \A u \in Tasks \ {t}, f \in Edges, side \in {"out", "in"} :
          /\ Unlisted(u, f, side)' <=> Unlisted(u, f, side)
          /\ Unfiled(u, f, side)' <=> Unfiled(u, f, side)
          /\ Ends(u)' = Ends(u)
  BY <1>4, OthersSame
<1> HIDE DEF e
<1>7. EdgesInv'
  <2>1. EdgesCalm(t)
    BY <1>5 DEF EdgesCalm
  <2>2. ASSUME e \notin loose, NEW v \in Tasks, (v \in Adding)', gloc'[v].edge = e
        PROVE  FALSE
    <3>1. v # t /\ v \in Adding /\ gloc[v].edge = e
      BY <1>4, <1>5, <2>2, OthersSame
    <3> QED BY <1>2, <2>2, <3>1 DEF ListsInv, EdgesInv, AddedAlone
  <2>3. \A v \in Adding' : v \in Tasks
    BY DEF Adding, Running
  <2>4. \A f \in Edges \ loose' :
             \/ edges'[f] = edges[f]
             \/ edges'[f] = None /\ \A v \in Adding' : gloc'[v].edge # f
    BY <1>1, <1>3, <2>2, <2>3
  <2> QED BY <1>1, <1>4, <2>1, <2>4, EdgesQuiet
<1>8. CutDone'
  <2> SUFFICES ASSUME NEW u \in Tasks, NEW f \in Edges \ loose, NEW side \in {"out", "in"},
                      Unlisted(u, f, side)', <<side, End(gloc'[u], side)>> \notin clashed
               PROVE  f \notin index[<<side, End(gloc'[u], side)>>]
    BY <1>1 DEF CutDone
  <2>1. Unlisted(u, f, side) /\ End(gloc'[u], side) = End(gloc[u], side)
    BY <1>5, <1>6 DEF Ends, End
  <2> QED BY <2>1 DEF ListsInv, CutDone
<1>9. ListsComplete'
  <2> SUFFICES ASSUME NEW f \in StoredEdges' \ loose', NEW side \in {"out", "in"},
                      <<side, End(edges'[f], side)>> \notin clashed',
                      f \notin index'[<<side, End(edges'[f], side)>>]
               PROVE  \E u \in Tasks : Unfiled(u, f, side)' \/ Unlisted(u, f, side)'
    BY DEF ListsComplete
  <2>a. f \in StoredEdges \ loose /\ f \in Edges /\ f # e /\ edges'[f] = edges[f]
    BY <1>1, <1>3 DEF StoredEdges
  <2>b. /\ <<side, End(edges[f], side)>> \notin clashed
        /\ f \notin index[<<side, End(edges[f], side)>>]
    BY <1>1, <2>a
  <2>1. PICK u \in Tasks : Unfiled(u, f, side) \/ Unlisted(u, f, side)
    BY <2>a, <2>b DEF ListsInv, ListsComplete
  <2>2. u # t
    BY <1>2, <2>a, <2>1
  <2> QED BY <1>6, <2>a, <2>1, <2>2
<1>10. ListsTrue'
  <2> SUFFICES ASSUME NEW side \in {"out", "in"}, NEW n \in Nodes, <<side, n>> \notin clashed,
                      ~Clearing(side)', NEW f \in index[<<side, n>>] \ loose
               PROVE  f \in StoredEdges' /\ End(edges'[f], side) = n
    BY <1>1 DEF ListsTrue
  <2>1. ~Clearing(side)
    BY <1>1, <1>4 DEF Clearing, OthersStay
  <2>2. f \in StoredEdges /\ End(edges[f], side) = n
    BY <2>1 DEF ListsInv, ListsTrue
  <2>3. f # e
    <3>1. ASSUME f = e PROVE FALSE
      <4>1. edges[e] = Ends(t)
        BY <1>2, <2>2, <3>1 DEF ListsInv, EdgesInv, HeldTrue
      <4>2. End(gloc[t], side) = n
        BY <2>2, <3>1, <4>1 DEF Ends, End
      <4> QED BY <1>2, <3>1, <4>2 DEF ListsInv, CutDone
    <3> QED BY <3>1
  <2>4. f \in Edges
    BY <2>2 DEF StoredEdges
  <2> QED BY <1>3, <2>2, <2>3, <2>4
<1> QED BY <1>7, <1>8, <1>9, <1>10 DEF ListsInv, EdgesInv

LEMMA WriteEdgeKeepsLists ==
  ASSUME GraphAssumption, Base, ListsInv, NEW t \in Tasks, WriteEdge(t)
  PROVE  ListsInv'
<1> DEFINE e == gloc[t].edge
<1>1. /\ gpc[t] = "writeEdge" /\ UNCHANGED <<index, clashed>> /\ loose \subseteq loose'
      /\ e \notin StoredEdges => e \in loose'
  BY DEF WriteEdge
<1>2. Base' /\ e \in Edges /\ Moved(t, "done", Fresh) /\ edges' = [edges EXCEPT ![e] = Ends(t)]
  BY WriteEdgeEffect
<1>3. Holds(t, e)
  BY <1>1 DEF Holds
<1>4. e \in Edges \ loose' => edges[e] = Ends(t)
  BY <1>1, <1>3 DEF ListsInv, EdgesInv, HeldTrue
<1>5. \A f \in Edges \ loose' : edges'[f] = edges[f]
  BY <1>2, <1>4 DEF Base, GraphTypeOK
<1>6. OthersStay(t) /\ ListsCalm(t)
  BY <1>1, <1>2, CalmEnd, MovedStays DEF Ended
<1> QED BY <1>1, <1>2, <1>5, <1>6, ListsQuiet

LEMMA ClearEdgesKeepsLists ==
  ASSUME GraphAssumption, Base, ListsInv, NEW t \in Tasks, Clear(t), gpc[t] = "clearEdges"
  PROVE  ListsInv'
<1>1. /\ UNCHANGED <<index, clashed>> /\ edges' = [f \in Edges |-> None]
      /\ loose \cup HalfAdded(t) \subseteq loose'
  BY DEF Clear
<1>2. Base' /\ OthersStay(t) /\ gpc'[t] = "clearOut" /\ gloc'[t] = gloc[t] /\ gloc[t].op = "clear"
  BY ClearEffect, MovedStays, BaseOf DEF Moved, Fits
<1>3. /\ ~NotYet(t)' /\ ~(t \in Adding)' /\ ~NotYet(t)
      /\ \A f \in Edges : ~Holds(t, f)' /\ \A side \in {"out", "in"} : ~Unlisted(t, f, side)'
      /\ gpc'[t] # "idle"
  BY <1>2 DEF NotYet, Adding, Running, Holds, Unlisted
<1>4. \A f \in Edges : edges'[f] = None
  BY <1>1
<1>5. EdgesInv'
  <2>1. EdgesCalm(t)
    BY <1>3 DEF EdgesCalm
  <2>2. ASSUME NEW v \in Adding'
        PROVE  gloc'[v].edge \in loose'
    <3>1. v \in Tasks /\ v # t
      BY <1>3, <2>2 DEF Adding, Running
    <3>2. v \in Adding /\ gloc'[v].edge = gloc[v].edge
      BY <1>2, <3>1, OthersSame
    <3> QED BY <1>1, <3>1, <3>2 DEF HalfAdded
  <2> QED BY <1>1, <1>2, <1>4, <2>1, <2>2, EdgesQuiet
<1>6. CutDone'
  <2> SUFFICES ASSUME NEW u \in Tasks, NEW f \in Edges \ loose', NEW side \in {"out", "in"},
                      Unlisted(u, f, side)', <<side, End(gloc'[u], side)>> \notin clashed
               PROVE  f \notin index[<<side, End(gloc'[u], side)>>]
    BY <1>1 DEF CutDone
  <2>1. Unlisted(u, f, side) /\ Ends(u)' = Ends(u)
    BY <1>2, <1>3, OthersSame
  <2>2. End(gloc'[u], side) = End(gloc[u], side) /\ f \notin loose
    BY <1>1, <2>1 DEF Ends, End
  <2> QED BY <2>1, <2>2 DEF ListsInv, CutDone
<1>7. ListsComplete'
  BY <1>4 DEF ListsComplete, StoredEdges
<1>8. ListsTrue'
  BY <1>2 DEF ListsTrue, Clearing
<1> QED BY <1>5, <1>6, <1>7, <1>8 DEF ListsInv, EdgesInv

LEMMA ClearListsKeepsLists ==
  ASSUME GraphAssumption, Base, ListsInv, NEW t \in Tasks, Clear(t), gpc[t] \in {"clearOut", "clearIn"}
  PROVE  ListsInv'
<1> DEFINE emptied == IF gpc[t] = "clearOut" THEN "out" ELSE "in"
<1>1. /\ UNCHANGED <<edges, clashed>>
      /\ index' = [l \in Lists |-> IF l[1] = emptied THEN {} ELSE index[l]]
      /\ loose \cup StoredEdges \subseteq loose'
  BY DEF Clear
<1>2. /\ Base' /\ OthersStay(t) /\ gloc[t].op = "clear"
      /\ \/ gpc[t] = "clearOut" /\ gpc'[t] = "clearIn" /\ gloc'[t] = gloc[t]
         \/ gpc[t] = "clearIn" /\ gpc'[t] = "done" /\ gloc'[t] = Fresh
  BY ClearEffect, MovedStays, BaseOf DEF Moved, Fits
<1>3. /\ ~NotYet(t)' /\ ~(t \in Adding)' /\ ~NotYet(t)
      /\ \A f \in Edges : ~Holds(t, f)' /\ \A side \in {"out", "in"} : ~Unlisted(t, f, side)'
      /\ gpc'[t] # "idle"
  BY <1>2 DEF NotYet, Adding, Running, Holds, Unlisted, Fresh
<1>4. \A side \in {"out", "in"}, n \in Nodes :
         /\ index'[<<side, n>>] \subseteq index[<<side, n>>]
         /\ side = emptied => index'[<<side, n>>] = {}
  <2>1. ASSUME NEW side \in {"out", "in"}, NEW n \in Nodes
        PROVE  index'[<<side, n>>] = IF side = emptied THEN {} ELSE index[<<side, n>>]
    BY <1>1 DEF Lists
  <2> QED BY <2>1
<1>5. EdgesInv'
  <2>1. EdgesCalm(t)
    BY <1>3 DEF EdgesCalm
  <2> QED BY <1>1, <1>2, <2>1, EdgesQuiet
<1>6. CutDone'
  <2> SUFFICES ASSUME NEW u \in Tasks, NEW f \in Edges \ loose', NEW side \in {"out", "in"},
                      Unlisted(u, f, side)', <<side, End(gloc'[u], side)>> \notin clashed
               PROVE  f \notin index'[<<side, End(gloc'[u], side)>>]
    BY <1>1 DEF CutDone
  <2>1. Unlisted(u, f, side) /\ Ends(u)' = Ends(u)
    BY <1>2, <1>3, OthersSame
  <2>2. End(gloc'[u], side) = End(gloc[u], side) /\ f \notin loose
    BY <1>1, <2>1 DEF Ends, End
  <2>3. End(gloc[u], side) \in Nodes
    BY <1>2, <1>3, <2>1, OthersSame, BaseOf DEF Unlisted, Fits, End
  <2>4. f \notin index[<<side, End(gloc[u], side)>>]
    BY <2>1, <2>2 DEF ListsInv, CutDone
  <2> QED BY <1>4, <2>2, <2>3, <2>4
<1>7. ListsComplete'
  BY <1>1 DEF ListsComplete, StoredEdges
<1>8. ListsTrue'
  <2> SUFFICES ASSUME NEW side \in {"out", "in"}, NEW n \in Nodes, <<side, n>> \notin clashed,
                      ~Clearing(side)', NEW f \in index'[<<side, n>>] \ loose'
               PROVE  FALSE
    BY <1>1 DEF ListsTrue
  <2>1. side # emptied /\ f \in index[<<side, n>>] \ loose
    BY <1>1, <1>4
  <2>2. ~Clearing(side)
    BY <1>2, <2>1 DEF Clearing, OthersStay
  <2>3. f \in StoredEdges
    BY <2>1, <2>2 DEF ListsInv, ListsTrue
  <2> QED BY <1>1, <2>3
<1> QED BY <1>5, <1>6, <1>7, <1>8 DEF ListsInv, EdgesInv

LEMMA ClearKeepsLists ==
  ASSUME GraphAssumption, Base, ListsInv, NEW t \in Tasks, Clear(t)
  PROVE  ListsInv' /\ Base'
<1>1. CASE gpc[t] = "clearNodes"
  <2>1. UNCHANGED <<edges, index, clashed>> /\ loose \subseteq loose'
    BY <1>1 DEF Clear
  <2>2. Base' /\ Moved(t, "clearEdges", gloc[t])
    BY <1>1, ClearEffect
  <2>3. OthersStay(t) /\ ListsCalm(t)
    BY <1>1, <2>2, CalmMove, MovedStays
  <2>4. \A f \in Edges \ loose' : edges'[f] = edges[f]
    BY <2>1
  <2> QED BY <2>1, <2>2, <2>3, <2>4, ListsQuiet
<1> QED BY <1>1, ClearEffect, ClearEdgesKeepsLists, ClearListsKeepsLists DEF ClearPcs

\* Every step.
LEMMA ListsKept ==
  ASSUME GraphAssumption, Base, ListsInv, [Next]_vars
  PROVE  Base' /\ ListsInv'
<1>1. CASE UNCHANGED vars
  <2> USE <1>1 DEF vars, records
  <2>1. Base'
    BY DEF Base, GraphTypeOK, Places
  <2>2. ListsInv'
    BY DEF ListsInv, EdgesInv, FreshEdges, Unused, AddsApart, AddedStored, HeldTrue, AddedAlone, CutDone, ListsComplete, ListsTrue,
       NotYet, Holds, Removes, Unlisted, Unfiled, Clearing, Ends, Adding, Running, StoredEdges
  <2> QED BY <2>1, <2>2
<1>2. ASSUME NEW t \in Tasks, NEW call \in CallsOf(t), Start(t, call)
      PROVE  Base' /\ ListsInv'
  <2>1. /\ Base' /\ UNCHANGED <<edges, index, clashed>> /\ loose \subseteq loose'
        /\ OthersStay(t)
    BY <1>2, StartEffect DEF OthersStay
  <2>2. ListsCalm(t)
    BY <1>2, StartCalm
  <2>3. \A f \in Edges \ loose' : edges'[f] = edges[f]
    BY <2>1
  <2> QED BY <2>1, <2>2, <2>3, ListsQuiet
<1>3. ASSUME NEW t \in Tasks, Fail(t)
      PROVE  Base' /\ ListsInv'
  <2>1. /\ Base' /\ UNCHANGED <<edges, index, clashed>> /\ loose \subseteq loose'
        /\ Moved(t, "failed", Fresh)
    BY <1>3, FailEffect
  <2>2. gpc[t] \in {"clearOut", "clearIn"} => Edges \subseteq loose'
    BY <1>3, FailEffect, BaseOf DEF Fits
  <2>3. gloc[t].edge \notin StoredEdges \ loose'
    BY <1>3, FailEffect DEF StoredEdges, GraphAssumption
  <2>4. OthersStay(t) /\ ListsCalm(t)
    BY <2>1, <2>2, <2>3, CalmEnd, MovedStays DEF Ended
  <2>5. \A f \in Edges \ loose' : edges'[f] = edges[f]
    BY <2>1
  <2> QED BY <2>1, <2>4, <2>5, ListsQuiet
<1>4. ASSUME NEW t \in Tasks, Step(t) \/ \E n \in Nodes : PutNode(t, n)
      PROVE  Base' /\ ListsInv'
  BY <1>4, QuietlyKeepsLists, SetEdgeKeepsLists, SetListKeepsLists, SaveListKeepsLists,
     DeleteEdgeKeepsLists, WriteEdgeKeepsLists, ClearKeepsLists, SetEdgeEffect, SetListEffect,
     SaveListEffect, DeleteEdgeEffect, WriteEdgeEffect DEF Step, Quietly
<1> QED BY <1>1, <1>2, <1>3, <1>4 DEF Next

LEMMA ListsInit == ASSUME GraphAssumption, Init PROVE ListsInv
<1>1. /\ \A t \in Tasks : gpc[t] = "idle" /\ gloc[t] = Fresh
      /\ \A e \in StoredEdges : \A t \in Tasks : NewEdge(t) # e
      /\ index = [l \in Lists |->
                   {e \in StoredEdges : l[2] = IF l[1] = "out" THEN edges[e].source
                                                         ELSE edges[e].target}]
  BY DEF Init
<1>2. \A t \in Tasks, e \in Edges : ~Holds(t, e) /\ ~Removes(t, e)
                     /\ \A side \in {"out", "in"} : ~Unlisted(t, e, side)
  BY <1>1 DEF Holds, Removes, Unlisted
<1>3. Adding = {}
  BY <1>1 DEF Adding, Running, Fresh
<1>4. ASSUME NEW side \in {"out", "in"}, NEW n \in Nodes
      PROVE  index[<<side, n>>] = {e \in StoredEdges : n = End(edges[e], side)}
  <2>1. <<side, n>> \in Lists /\ <<side, n>>[1] = side /\ <<side, n>>[2] = n
    BY DEF Lists
  <2>2. index[<<side, n>>] = {e \in StoredEdges : n = IF side = "out" THEN edges[e].source
                                                               ELSE edges[e].target}
    BY <1>1, <2>1
  <2> QED BY <2>2 DEF End
<1>5. \A e \in StoredEdges, side \in {"out", "in"} : End(edges[e], side) \in Nodes /\ e \in Edges
  BY BaseInit, StoredEdge DEF StoredEdges, EdgeRecords, End
<1>6. HeldTrue /\ CutDone
  BY <1>1, <1>2 DEF HeldTrue, CutDone, StoredEdges
<1>7. AddsApart /\ AddedStored /\ AddedAlone
  BY <1>3 DEF AddsApart, AddedStored, AddedAlone
<1>a. FreshEdges
  <2>1. \A t \in Tasks : Unused(NewEdge(t))
    BY <1>1, <1>2 DEF Unused, GraphAssumption
  <2>2. \A t \in Tasks : gloc[t].op # "import"
    <3>1. Fresh.op # "import"
      BY DEF Fresh
    <3> QED BY <1>1, <3>1
  <2>3. \A t \in Tasks, u \in Adding : gloc[u].edge # NewEdge(t)
    BY <1>3
  <2> QED BY <2>1, <2>2, <2>3, Zenon DEF FreshEdges
<1>8. ListsComplete
  BY <1>4, <1>5 DEF ListsComplete
<1>9. ListsTrue
  BY <1>4 DEF ListsTrue
<1> QED BY <1>6, <1>7, <1>a, <1>8, <1>9 DEF ListsInv, EdgesInv

-----------------------------------------------------------------------------
(* The nodes.                                                               *)

LEMMA OthersSafe ==
  ASSUME NEW t \in Tasks, OthersStay(t), NEW u \in Tasks \ {t}
  PROVE  /\ gpc'[u] = gpc[u] /\ (Late(u)' <=> Late(u))
         /\ gloc'[u].node = gloc[u].node /\ gloc'[u].todo = gloc[u].todo
         /\ gloc[u].unseen \subseteq gloc'[u].unseen /\ gloc'[u].again = gloc[u].again
         /\ gloc'[u].op = gloc[u].op /\ gloc'[u].edge = gloc[u].edge
         /\ gloc'[u].source = gloc[u].source /\ gloc'[u].target = gloc[u].target
         /\ gloc'[u].missing = gloc[u].missing
         /\ \A e \in Edges : (Doom(u, e)' <=> Doom(u, e))
                             /\ \A n \in Nodes : WillCheck(u, e, n)' <=> WillCheck(u, e, n)
<1>1. gpc'[u] = gpc[u] /\ Alike(gloc'[u], gloc[u])
  BY DEF OthersStay
<1> QED BY <1>1 DEF Alike, Late, Doom, WillCheck

\* What task t keeps of what it knows of the stored edges.
DoomCalm(t) == \A e \in Edges : e \in StoredEdges' \ loose' /\ Doom(t, e) => Doom(t, e)'

CheckCalm(t) ==
    /\ \A e \in Edges : e \in StoredEdges' \ loose' =>
          \A n \in {edges'[e].source, edges'[e].target} :
              WillCheck(t, e, n) => n \in nodes' \/ WillCheck(t, e, n)' \/ Doom(t, e)'
    /\ gpc[t] = "clearEdges" => StoredEdges' \subseteq loose'

LEMMA ExactKept ==
  ASSUME GraphAssumption, Base', NEW e \in Edges, Exact(e)', loose \subseteq loose', clashed \subseteq clashed',
         e \in StoredEdges, edges'[e] = edges[e]
  PROVE  /\ Exact(e) /\ e \in StoredEdges' \ loose'
         /\ edges[e].source \in Nodes /\ edges[e].target \in Nodes
<1>1. edges'[e] \in EdgeRecords
  BY StoredEdge DEF Exact, Base, GraphTypeOK, StoredEdges
<1> QED BY <1>1 DEF Exact, Sound, EdgeRecords

LEMMA AnchoredKept ==
  ASSUME GraphAssumption, Base', Anchored, NEW t \in Tasks, OthersStay(t), DoomCalm(t), CheckCalm(t),
         loose \subseteq loose', clashed \subseteq clashed',
         \A e \in Edges : Exact(e)' =>
             \A n \in {edges'[e].source, edges'[e].target} :
                 \/ e \in StoredEdges /\ edges'[e] = edges[e] /\ (n \in nodes => Safe(e, n)')
                 \/ Safe(e, n)'
  PROVE  Anchored'
<1> SUFFICES ASSUME NEW e \in Edges, Exact(e)', NEW n \in {edges'[e].source, edges'[e].target},
                    ~Safe(e, n)'
             PROVE  FALSE
  BY DEF Anchored
<1>1. e \in StoredEdges /\ edges'[e] = edges[e] /\ n \notin nodes
  OBVIOUS
<1>2. Exact(e) /\ e \in StoredEdges' \ loose' /\ n \in Nodes
  BY <1>1, ExactKept
<1>3. Safe(e, n)
  BY <1>1, <1>2 DEF Anchored
<1>4. PICK u \in Tasks : Doom(u, e) \/ WillCheck(u, e, n) \/ gpc[u] = "clearEdges"
  BY <1>1, <1>3 DEF Safe, Doomed
<1>5. CASE u = t
  BY <1>1, <1>2, <1>4, <1>5 DEF DoomCalm, CheckCalm, Safe, Doomed
<1>6. CASE u # t
  BY <1>2, <1>4, <1>6, OthersSafe DEF Safe, Doomed
<1> QED BY <1>5, <1>6

LEMMA SweptKept ==
  ASSUME GraphAssumption, Base', Swept, NEW t \in Tasks, OthersStay(t), DoomCalm(t),
         loose \subseteq loose', clashed \subseteq clashed',
         \A e \in Edges : Exact(e)' =>
             /\ SweptBy(t, e)'
             /\ \/ e \in StoredEdges /\ edges'[e] = edges[e]
                \/ \A u \in Tasks \ {t} : SweptBy(u, e)'
  PROVE  Swept'
<1> SUFFICES ASSUME NEW u \in Tasks \ {t}, NEW e \in Edges, Exact(e)', e \in StoredEdges, edges'[e] = edges[e]
             PROVE  SweptBy(u, e)'
  BY DEF Swept
<1>1. Exact(e) /\ e \in StoredEdges' \ loose'
  BY ExactKept
<1>2. SweptBy(u, e)
  BY <1>1 DEF Swept
<1>3. Doomed(e) => Doomed(e)'
  BY <1>1, OthersSafe DEF Doomed, DoomCalm
<1> QED BY <1>2, <1>3, OthersSafe DEF SweptBy

\* A removal that goes on with the edges it has found.
LateCalm(t) ==
    Late(t)' =>
        /\ Late(t) /\ gloc'[t].node = gloc[t].node /\ (gpc[t] = "relist" => gpc'[t] = "relist")
        /\ gloc[t].unseen \subseteq gloc'[t].unseen
        /\ \A e \in gloc[t].todo : e \in gloc'[t].todo \/ Doom(t, e)'

LEMMA SweptOn ==
  ASSUME GraphAssumption, Base', Swept, NEW t \in Tasks, OthersStay(t), DoomCalm(t), LateCalm(t),
         loose \subseteq loose', clashed \subseteq clashed',
         NEW e \in Edges, Exact(e)', e \in StoredEdges, edges'[e] = edges[e]
  PROVE  SweptBy(t, e)'
<1>1. Exact(e) /\ e \in StoredEdges' \ loose'
  BY ExactKept
<1>2. SweptBy(t, e)
  BY <1>1 DEF Swept
<1>3. Doomed(e) => Doomed(e)'
  BY <1>1, OthersSafe DEF Doomed, DoomCalm
<1>4. Doom(t, e)' => Doomed(e)'
  BY DEF Doomed
<1> QED BY <1>2, <1>3, <1>4 DEF SweptBy, LateCalm

\* A step leaves an added edge its id and its ends.
AddingCalm(t) ==
    (t \in Adding)' /\ gloc'[t].edge \notin loose'
        => t \in Adding /\ gloc'[t].edge = gloc[t].edge /\ Ends(t)' = Ends(t)

LEMMA NoticedKept ==
  ASSUME GraphAssumption, Base, Base', Noticed, NEW t \in Tasks, OthersStay(t),
         loose \subseteq loose',
         AddingCalm(t),
         \/ NoticedBy(t)'
         \/ Late(t)' => Late(t) /\ gloc'[t].node = gloc[t].node /\ gloc[t].unseen \subseteq gloc'[t].unseen
  PROVE  Noticed'
<1> SUFFICES ASSUME NEW r \in Tasks, NEW u \in Tasks, (u \in Adding)', Late(r)', ~NoticedBy(r)',
                    Touches(u, gloc[r].node)', gloc'[u].edge \notin loose'
             PROVE  gloc'[u].edge \in gloc'[r].unseen
  BY DEF Noticed, NoticedBy, Adding, Running
<1>1. u \in Adding /\ Ends(u)' = Ends(u) /\ gloc'[u].edge = gloc[u].edge
  BY OthersSame DEF AddingCalm
<1>3. Late(r) /\ gloc'[r].node = gloc[r].node /\ gloc[r].unseen \subseteq gloc'[r].unseen
  BY OthersSafe
<1>4. Touches(u, gloc[r].node)
  BY <1>1, <1>3 DEF Touches, Ends
<1> QED BY <1>1, <1>3, <1>4 DEF Noticed, NoticedBy

\* A step of task t that keeps the nodes and leaves no edge without one.
NodesCalm(t) ==
    /\ DoomCalm(t) /\ LateCalm(t)
    /\ (t \in Running("import"))' => Knows(t)'
    /\ options.cascade => CheckCalm(t) /\ SweepEnded(t)'

LEMMA ImportsKept ==
  ASSUME GraphAssumption, Base, ImportsKnow, NEW t \in Tasks, OthersStay(t), loose \subseteq loose',
         nodes \subseteq nodes', (t \in Running("import"))' => Knows(t)'
  PROVE  ImportsKnow'
<1> SUFFICES ASSUME NEW u \in Tasks \ {t}, (u \in Running("import"))'
             PROVE  Knows(u)'
  BY DEF ImportsKnow, Running
<1>1. u \in Running("import") /\ Knows(u)
  BY OthersSafe DEF ImportsKnow, Running
<1> QED BY <1>1, OthersSafe DEF Knows

LEMMA NodesOn ==
  ASSUME GraphAssumption, Base, Base', NodesInv, NEW t \in Tasks, OthersStay(t), NodesCalm(t),
         UNCHANGED options,
         loose \subseteq loose', clashed \subseteq clashed', nodes \subseteq nodes',
         \A e \in Edges : Exact(e)' => e \in StoredEdges /\ edges'[e] = edges[e],
         Noticed'
  PROVE  NodesInv'
<1>1. ImportsKnow'
  BY ImportsKept DEF NodesCalm, NodesInv
<1>2. ASSUME options.cascade PROVE Anchored'
  <2>1. \A e \in Edges : \A n : n \in nodes => Safe(e, n)'
    BY DEF Safe
  <2> QED BY <1>2, <2>1, AnchoredKept DEF NodesInv, NodesCalm
<1>3. ASSUME options.cascade PROVE Swept'
  <2>1. ASSUME NEW e \in Edges, Exact(e)' PROVE SweptBy(t, e)'
    BY <1>3, <2>1, SweptOn DEF NodesInv, NodesCalm
  <2> QED BY <1>3, <2>1, SweptKept DEF NodesInv, NodesCalm
<1>4. ASSUME options.cascade PROVE SweepEnds'
  BY <1>4, OthersSafe DEF SweepEnds, SweepEnded, NodesInv, NodesCalm
<1> QED BY <1>1, <1>2, <1>3, <1>4 DEF NodesInv

LEMMA CalmStep ==
  ASSUME GraphAssumption, Base, Base', NodesInv, NEW t \in Tasks, OthersStay(t), NodesCalm(t),
         AddingCalm(t), UNCHANGED options,
         loose \subseteq loose', clashed \subseteq clashed', nodes \subseteq nodes',
         \A e \in Edges \ loose' : edges'[e] = edges[e] \/ edges'[e] = None
  PROVE  NodesInv'
<1>1. \A e \in Edges : Exact(e)' => e \in StoredEdges /\ edges'[e] = edges[e]
  BY DEF Exact, Sound, StoredEdges
<1>2. Noticed'
  <2>1. Late(t)' => Late(t) /\ gloc'[t].node = gloc[t].node /\ gloc[t].unseen \subseteq gloc'[t].unseen
    BY DEF NodesCalm, LateCalm
  <2> QED BY <2>1, NoticedKept DEF NodesInv, AddingCalm
<1> QED BY <1>1, <1>2, NodesOn

LEMMA AddingEnds ==
  ASSUME NEW t \in Tasks, NEW label, NEW l, Moved(t, label, l),
         \/ l = Fresh \/ l.op \notin {"addEdge", "import"}
         \/ /\ l.op = gloc[t].op /\ l.edge = gloc[t].edge
            /\ l.source = gloc[t].source /\ l.target = gloc[t].target
  PROVE  AddingCalm(t)
  BY DEF AddingCalm, Moved, Adding, Running, Ends, Fresh

\* Steps of addEdge and import.
LEMMA AddCalm ==
  ASSUME GraphAssumption, Base, NEW t \in Tasks, gpc[t] \in AddPcs, NEW label, NEW l, Moved(t, label, l),
         label # "deleteNode", l.op # "removeNode", (t \in Running("import"))' => Knows(t)',
         gloc[t].op = "addEdge" /\ gloc[t].edge \in StoredEdges' \ loose' =>
             \A n \in {edges'[gloc[t].edge].source, edges'[gloc[t].edge].target} :
                 WillCheck(t, NewEdge(t), n) =>
                     n \in nodes' \/ WillCheck(t, NewEdge(t), n)' \/ Doom(t, NewEdge(t))'
  PROVE  NodesCalm(t)
<1>1. gpc'[t] = label /\ gloc'[t] = l
  BY DEF Moved
<1>2. DoomCalm(t) /\ LateCalm(t) /\ SweepEnded(t)'
  BY <1>1 DEF AddPcs, CutPcs, DoomCalm, LateCalm, Doom, Late, SweepEnded
<1>3. CheckCalm(t)
  <2>1. \A e \in Edges : \A n : WillCheck(t, e, n) => gloc[t].op = "addEdge" /\ gloc[t].edge = e
                                                  /\ e = NewEdge(t)
    BY BaseOf DEF WillCheck, Fits
  <2>2. gpc[t] # "clearEdges"
    BY DEF AddPcs
  <2>3. ASSUME NEW e \in Edges, e \in StoredEdges' \ loose',
               NEW n \in {edges'[e].source, edges'[e].target}, WillCheck(t, e, n)
        PROVE  n \in nodes' \/ WillCheck(t, e, n)' \/ Doom(t, e)'
    <3>1. gloc[t].op = "addEdge" /\ gloc[t].edge = e /\ e = NewEdge(t)
      BY <2>1, <2>3
    <3>2. n \in nodes' \/ WillCheck(t, NewEdge(t), n)' \/ Doom(t, NewEdge(t))'
      BY <2>3, <3>1
    <3> QED BY <3>1, <3>2
  <2> QED BY <2>2, <2>3 DEF CheckCalm
<1> QED BY <1>2, <1>3 DEF NodesCalm

LEMMA AddStepsCalm ==
  ASSUME GraphAssumption, Base, ListsInv, NodesInv, NEW t \in Tasks,
         \/ HasSource(t) \/ HasTarget(t) \/ Create(t) \/ GetList(t) \/ SetList(t)
         \/ RecheckSource(t) \/ RecheckTarget(t)
  PROVE  NodesCalm(t)
<1> DEFINE e == NewEdge(t)
<1>1. /\ gpc[t] \in AddPcs /\ UNCHANGED edges /\ loose' = loose /\ nodes \subseteq nodes'
      /\ ~Create(t) => nodes' = nodes
  BY DEF HasSource, HasTarget, Create, GetList, SetList, RecheckSource, RecheckTarget, AddPcs, Has,
         records
<1>2. /\ gloc[t] \in Locals /\ gloc[t].op \in {"addEdge", "import"} /\ e \in Edges
      /\ gloc[t].op = "addEdge" => gloc[t].edge = e
      /\ gloc[t].source \in Nodes /\ gloc[t].target \in Nodes /\ t \in Adding
      /\ gpc[t] \in {"createSource", "createTarget", "recheckSource", "recheckTarget"}
            => gloc[t].op = "addEdge"
  BY <1>1, BaseOf DEF Fits, Adding, Running, GraphAssumption
<1>3. gloc[t].op = "addEdge" /\ e \in StoredEdges' \ loose' => ~NotYet(t) /\ edges'[e] = Ends(t)
  BY <1>1, <1>2 DEF ListsInv, EdgesInv, FreshEdges, Unused, AddedStored, StoredEdges
<1>4. gloc[t].op = "import" => Knows(t)
  BY <1>2 DEF NodesInv, ImportsKnow, Running
<1>5. ASSUME NEW label, NEW l, Moved(t, label, l), label # "recheckTarget", label # "deleteNode",
             l.op = gloc[t].op, l.edge = gloc[t].edge, gloc[t].op = "import" => Knows(t)'
      PROVE  NodesCalm(t)
  <2>1. \A n : gloc[t].op = "addEdge" => WillCheck(t, e, n)'
    BY <1>2, <1>5 DEF WillCheck, Moved
  <2>2. (t \in Running("import"))' => Knows(t)'
    BY <1>5 DEF Running, Moved
  <2> QED BY <1>1, <1>2, <1>5, <2>1, <2>2, AddCalm
<1>6. ASSUME Moved(t, "done", Fresh),
             gloc[t].op = "addEdge" /\ e \in StoredEdges' \ loose' =>
                 gloc[t].source \in nodes' /\ gloc[t].target \in nodes'
      PROVE  NodesCalm(t)
  <2>1. ~(t \in Running("import"))' /\ Fresh.op # "removeNode"
    BY <1>6 DEF Running, Moved, Fresh
  <2> QED BY <1>1, <1>2, <1>3, <1>6, <2>1, AddCalm DEF Ends
<1> HIDE DEF e
<1>7. CASE HasSource(t)
  <2> DEFINE l == [gloc[t] EXCEPT !.missing = @ \cup ({gloc[t].source} \ nodes)]
  <2>1. Moved(t, "hasTarget", l)
    BY <1>7, HasSourceEffect
  <2>2. /\ l.op = gloc[t].op /\ l.edge = gloc[t].edge /\ l.source = gloc[t].source
        /\ l.missing = gloc[t].missing \cup ({gloc[t].source} \ nodes)
    BY <1>2 DEF Locals
  <2> HIDE DEF l
  <2>3. Knows(t)'
    BY <1>1, <1>7, <2>1, <2>2 DEF Knows, Moved
  <2> QED BY <1>5, <2>1, <2>2, <2>3
<1>8. CASE HasTarget(t)
  <2> DEFINE l == [gloc[t] EXCEPT !.missing = @ \cup ({gloc[t].target} \ nodes)]
  <2>1. gpc[t] = "hasTarget" /\ NotYet(t)
    BY <1>8 DEF HasTarget, NotYet
  <2>2. CASE Moved(t, "done", Fresh)
    BY <1>3, <1>6, <2>1, <2>2
  <2>3. ASSUME NEW label \in {"setEdge", "createSource", "createTarget"}, Moved(t, label, l),
               label = "setEdge" => gloc[t].missing \cup ({gloc[t].target} \ nodes) = {},
               label # "setEdge" => gloc[t].op = "addEdge"
        PROVE  NodesCalm(t)
    <3>1. /\ l.op = gloc[t].op /\ l.edge = gloc[t].edge /\ l.source = gloc[t].source
          /\ l.target = gloc[t].target
      BY <1>2 DEF Locals
    <3> HIDE DEF l
    <3>2. gloc[t].op = "import" => Knows(t)'
      BY <1>1, <1>2, <1>4, <1>8, <2>1, <2>3, <3>1 DEF Knows, Moved
    <3> QED BY <1>5, <2>3, <3>1, <3>2
  <2> QED BY <1>8, <2>2, <2>3, HasTargetEffect
<1>9. CASE Create(t)
  BY <1>2, <1>5, <1>9, CreateEffect DEF Create
<1>10. CASE GetList(t)
  <2> DEFINE l == [gloc[t] EXCEPT !.read = index[ListOf(t)]]
  <2>1. gpc[t] = "getList" /\ Moved(t, "setList", l)
    BY <1>10, GetListEffect DEF GetList
  <2>2. /\ l.op = gloc[t].op /\ l.edge = gloc[t].edge /\ l.source = gloc[t].source
        /\ l.target = gloc[t].target
    BY <1>2 DEF Locals
  <2> HIDE DEF l
  <2>3. gloc[t].op = "import" => Knows(t)'
    BY <1>1, <1>4, <1>10, <2>1, <2>2 DEF Knows, Moved
  <2> QED BY <1>5, <2>1, <2>2, <2>3
<1>11. CASE SetList(t)
  <2>1. gpc[t] = "setList"
    BY <1>11 DEF SetList
  <2>2. CASE gloc[t].side = "out"
    <3> DEFINE l == [gloc[t] EXCEPT !.side = "in"]
    <3>1. Moved(t, "getList", l)
      BY <1>11, <2>2, SetListEffect
    <3>2. /\ l.op = gloc[t].op /\ l.edge = gloc[t].edge /\ l.source = gloc[t].source
          /\ l.target = gloc[t].target
      BY <1>2 DEF Locals
    <3> HIDE DEF l
    <3>3. gloc[t].op = "import" => Knows(t)'
      BY <1>1, <1>4, <2>1, <3>1, <3>2 DEF Knows, Moved
    <3> QED BY <1>5, <3>1, <3>2, <3>3
  <2>3. CASE gloc[t].side # "out" /\ gloc[t].op = "import"
    BY <1>6, <1>11, <2>3, SetListEffect
  <2>4. CASE gloc[t].side # "out" /\ gloc[t].op # "import"
    <3> DEFINE l == [gloc[t] EXCEPT !.missing = {}]
    <3>1. Moved(t, "recheckSource", l)
      BY <1>11, <2>4, SetListEffect
    <3>2. l.op = gloc[t].op /\ l.edge = gloc[t].edge
      BY <1>2 DEF Locals
    <3> HIDE DEF l
    <3> QED BY <1>5, <2>4, <3>1, <3>2
  <2> QED BY <2>2, <2>3, <2>4
<1>12. CASE RecheckSource(t)
  <2> DEFINE l == [gloc[t] EXCEPT !.missing = @ \cup ({gloc[t].source} \ nodes)]
  <2>1. gpc[t] = "recheckSource" /\ Moved(t, "recheckTarget", l) /\ gloc[t].op = "addEdge"
        /\ nodes' = nodes
    BY <1>1, <1>2, <1>12, RecheckSourceEffect DEF RecheckSource, Has, records
  <2>2. /\ l.op = "addEdge" /\ l.edge = e /\ l.target = gloc[t].target
        /\ gloc[t].source \in nodes \/ gloc[t].source \in l.missing
    BY <1>2, <2>1 DEF Locals
  <2> HIDE DEF l
  <2>3. \A n \in {gloc[t].source, gloc[t].target} : n \in nodes' \/ WillCheck(t, NewEdge(t), n)'
    BY <2>1, <2>2 DEF WillCheck, Moved, e
  <2>4. ~(t \in Running("import"))'
    BY <2>1, <2>2 DEF Running, Moved
  <2> QED BY <1>1, <1>2, <1>3, <2>1, <2>2, <2>3, <2>4, AddCalm DEF Ends
<1>13. CASE RecheckTarget(t)
  <2> DEFINE l == [gloc[t] EXCEPT !.missing = @ \cup ({gloc[t].target} \ nodes)]
  <2>1. gpc[t] = "recheckTarget" /\ gloc[t].op = "addEdge" /\ nodes' = nodes
    BY <1>2, <1>13 DEF RecheckTarget, Has, records
  <2>2. CASE gloc[t].missing \cup ({gloc[t].target} \ nodes) = {}
    <3>1. Moved(t, "done", Fresh)
      BY <1>13, <2>2, RecheckTargetEffect
    <3>2. ASSUME NEW n, WillCheck(t, NewEdge(t), n) PROVE n \in nodes'
      BY <2>1, <2>2, <3>2 DEF WillCheck
    <3>3. ~(t \in Running("import"))' /\ Fresh.op # "removeNode"
      BY <3>1 DEF Running, Moved, Fresh
    <3> QED BY <1>1, <3>1, <3>2, <3>3, AddCalm
  <2>3. CASE gloc[t].missing \cup ({gloc[t].target} \ nodes) # {}
    <3>1. Moved(t, "getEdge", l)
      BY <1>13, <2>3, RecheckTargetEffect
    <3>2. l.op = gloc[t].op /\ l.edge = gloc[t].edge
      BY <1>2 DEF Locals
    <3> HIDE DEF l
    <3> QED BY <1>5, <2>1, <3>1, <3>2
  <2> QED BY <2>2, <2>3
<1> QED BY <1>7, <1>8, <1>9, <1>10, <1>11, <1>12, <1>13

\* Steps of removeEdge, alone, in addEdge or in removeNode.
LEMMA CutCalm ==
  ASSUME GraphAssumption, Base, NEW t \in Tasks, gpc[t] \in CutPcs, NEW label, NEW l, Moved(t, label, l),
         \/ /\ label \in CutPcs /\ l.op = gloc[t].op /\ l.edge = gloc[t].edge
            /\ l.node = gloc[t].node /\ l.todo = gloc[t].todo /\ l.unseen = gloc[t].unseen
            /\ l.again = gloc[t].again
         \/ /\ gloc[t].edge \notin StoredEdges' \ loose'
            /\ IF gloc[t].op = "removeNode" THEN label = "nextEdge" /\ l = gloc[t]
               ELSE l = Fresh /\ label # "deleteNode"
         \/ gloc[t].edge \notin StoredEdges' \ loose' /\ l = Fresh /\ label # "deleteNode"
  PROVE  NodesCalm(t)
<1>1. gpc'[t] = label /\ gloc'[t] = l /\ gloc[t].op # "import"
  BY BaseOf DEF Moved, Fits
<1>2. ~(t \in Running("import"))' /\ SweepEnded(t)'
  BY <1>1 DEF Running, Fresh, CutPcs, SweepEnded
<1>3. DoomCalm(t)
  BY <1>1 DEF DoomCalm, Doom
<1>4. CheckCalm(t)
  <2>1. gpc[t] \notin {"clearEdges", "recheckTarget"}
    BY DEF CutPcs
  <2>2. ASSUME label \in CutPcs PROVE label # "recheckTarget"
    BY <2>2 DEF CutPcs
  <2> QED BY <1>1, <2>1, <2>2 DEF CheckCalm, WillCheck
<1>5. LateCalm(t)
  <2>1. gpc[t] # "list" /\ gpc[t] # "relist"
    BY DEF CutPcs
  <2>2. CASE l = Fresh
    BY <1>1, <2>2 DEF LateCalm, Late, Fresh
  <2>3. CASE /\ l.op = gloc[t].op /\ l.node = gloc[t].node /\ l.todo = gloc[t].todo
             /\ l.unseen = gloc[t].unseen /\ l.again = gloc[t].again
    BY <1>1, <2>1, <2>3 DEF LateCalm, Late
  <2> QED BY <2>2, <2>3
<1> QED BY <1>2, <1>3, <1>4, <1>5 DEF NodesCalm

LEMMA CutStepsCalm ==
  ASSUME GraphAssumption, Base, NEW t \in Tasks,
         GetEdge(t) \/ Unlist(t) \/ SaveList(t) \/ DeleteEdge(t)
  PROVE  NodesCalm(t)
<1>1. gpc[t] \in CutPcs /\ gloc[t] \in Locals /\ gloc[t].edge \in Edges
  BY BaseOf DEF GetEdge, Unlist, SaveList, DeleteEdge, CutPcs, Fits
<1>2. CASE GetEdge(t)
  <2> DEFINE l == [gloc[t] EXCEPT !.source = edges[gloc[t].edge].source,
                                  !.target = edges[gloc[t].edge].target, !.side = "out"]
  <2>1. CASE Moved(t, "unlist", l)
    <3>1. /\ l.op = gloc[t].op /\ l.edge = gloc[t].edge
          /\ l.node = gloc[t].node /\ l.todo = gloc[t].todo /\ l.unseen = gloc[t].unseen
          /\ l.again = gloc[t].again
      BY <1>1 DEF Locals
    <3>2. "unlist" \in CutPcs
      BY DEF CutPcs
    <3> HIDE DEF l
    <3> QED BY <1>1, <2>1, <3>1, <3>2, CutCalm
  <2>2. CASE /\ gloc[t].edge \notin StoredEdges
             /\ IF gloc[t].op = "removeNode" THEN Moved(t, "nextEdge", gloc[t])
                ELSE Moved(t, "done", Fresh)
    <3>1. StoredEdges' = StoredEdges
      BY <1>2 DEF GetEdge, StoredEdges, records
    <3> QED BY <1>1, <2>2, <3>1, CutCalm
  <2> QED BY <1>2, <2>1, <2>2, GetEdgeEffect
<1>3. CASE Unlist(t)
  <2> DEFINE l == [gloc[t] EXCEPT !.read = index[ListOf(t)]]
  <2>1. Moved(t, "saveList", l)
    BY <1>3, GetListEffect DEF Unlist
  <2>2. /\ l.op = gloc[t].op /\ l.edge = gloc[t].edge
        /\ l.node = gloc[t].node /\ l.todo = gloc[t].todo /\ l.unseen = gloc[t].unseen
        /\ l.again = gloc[t].again
    BY <1>1 DEF Locals
  <2>3. "saveList" \in CutPcs
    BY DEF CutPcs
  <2> HIDE DEF l
  <2> QED BY <1>1, <2>1, <2>2, <2>3, CutCalm
<1>4. CASE SaveList(t)
  <2> DEFINE l == [gloc[t] EXCEPT !.side = "in"]
  <2>1. Moved(t, "unlist", l) \/ Moved(t, "deleteEdge", gloc[t])
    BY <1>4, SaveListEffect
  <2>2. /\ l.op = gloc[t].op /\ l.edge = gloc[t].edge
        /\ l.node = gloc[t].node /\ l.todo = gloc[t].todo /\ l.unseen = gloc[t].unseen
        /\ l.again = gloc[t].again
    BY <1>1 DEF Locals
  <2>3. "unlist" \in CutPcs /\ "deleteEdge" \in CutPcs
    BY DEF CutPcs
  <2> HIDE DEF l
  <2> QED BY <1>1, <2>1, <2>2, <2>3, CutCalm
<1>5. CASE DeleteEdge(t)
  <2>1. gloc[t].edge \notin StoredEdges'
    BY <1>1, <1>5 DEF DeleteEdge, StoredEdges, Base, GraphTypeOK
  <2>2. IF gloc[t].op = "removeNode" THEN Moved(t, "nextEdge", gloc[t]) ELSE Moved(t, "done", Fresh)
    BY <1>5, DeleteEdgeEffect
  <2> QED BY <1>1, <2>1, <2>2, CutCalm
<1> QED BY <1>2, <1>3, <1>4, <1>5

\* Steps that neither add, cut nor sweep.
LEMMA OtherCalm ==
  ASSUME GraphAssumption, Base, NEW t \in Tasks, NEW label, NEW l, Moved(t, label, l),
         label # "deleteNode", l = Fresh \/ l.op \notin {"import", "removeNode"},
         \/ gloc[t].op \notin {"addEdge", "removeNode", "removeEdge"} /\ gpc[t] # "clearEdges"
         \/ gloc[t].edge \notin StoredEdges' \ loose' /\ gpc[t] # "clearEdges"
         \/ StoredEdges' \subseteq loose'
  PROVE  NodesCalm(t)
<1>1. gpc'[t] = label /\ gloc'[t] = l /\ (gpc[t] \in CutPcs => gloc[t].op \in {"addEdge", "removeNode", "removeEdge"})
  BY BaseOf DEF Moved, Fits
<1>2. ~(t \in Running("import"))' /\ SweepEnded(t)' /\ LateCalm(t)
  BY <1>1 DEF Running, Fresh, SweepEnded, LateCalm, Late
<1>3. DoomCalm(t) /\ CheckCalm(t)
  BY <1>1 DEF DoomCalm, Doom, CheckCalm, WillCheck
<1> QED BY <1>2, <1>3 DEF NodesCalm

\* Steps of removeNode that find no new edges.
LEMMA SweepStepsCalm ==
  ASSUME GraphAssumption, Base, NEW t \in Tasks, GetNode(t) \/ NextEdge(t)
  PROVE  NodesCalm(t)
<1>1. /\ gpc[t] \in {"getNode", "nextEdge"} /\ gloc[t].op = "removeNode" /\ gloc[t] \in Locals
  BY BaseOf DEF GetNode, NextEdge, Fits, SweepPcs
<1>2. \A e \in Edges : \A n : ~Doom(t, e) /\ ~WillCheck(t, e, n)
  BY <1>1 DEF Doom, WillCheck, CutPcs
<1>3. DoomCalm(t) /\ CheckCalm(t)
  BY <1>1, <1>2 DEF DoomCalm, CheckCalm
<1> SUFFICES /\ (t \in Running("import"))' => Knows(t)'
             /\ LateCalm(t) /\ (options.cascade => SweepEnded(t)')
  BY <1>3 DEF NodesCalm
<1>4. CASE GetNode(t)
  <2>1. CASE Moved(t, "done", Fresh)
    BY <2>1 DEF Moved, Running, LateCalm, Late, SweepEnded, Fresh
  <2>2. ASSUME NEW label \in {"list", "deleteNode"}, Moved(t, label, gloc[t]),
               options.cascade => label = "list"
        PROVE  /\ (t \in Running("import"))' => Knows(t)'
               /\ LateCalm(t) /\ (options.cascade => SweepEnded(t)')
    <3>1. gpc'[t] = label /\ gloc'[t] = gloc[t]
      BY <2>2 DEF Moved
    <3> QED BY <1>1, <2>2, <3>1 DEF Running, LateCalm, Late, SweepEnded
  <2> QED BY <1>4, <2>1, <2>2, GetNodeEffect
<1>5. CASE NextEdge(t)
  <2>1. gpc[t] = "nextEdge"
    BY <1>5 DEF NextEdge
  <2>2. ASSUME NEW e \in gloc[t].todo, Moved(t, "getEdge", [gloc[t] EXCEPT !.edge = e, !.todo = @ \ {e}])
        PROVE  /\ (t \in Running("import"))' => Knows(t)'
               /\ LateCalm(t) /\ (options.cascade => SweepEnded(t)')
    <3> DEFINE l == [gloc[t] EXCEPT !.edge = e, !.todo = @ \ {e}]
    <3>1. gpc'[t] = "getEdge" /\ gloc'[t] = l
      BY <2>2 DEF Moved
    <3>2. /\ l.op = "removeNode" /\ l.node = gloc[t].node /\ l.unseen = gloc[t].unseen
          /\ l.again = gloc[t].again /\ l.edge = e /\ l.todo = gloc[t].todo \ {e}
      BY <1>1 DEF Locals
    <3> HIDE DEF l
    <3>3. \A f \in gloc[t].todo : f \in gloc'[t].todo \/ Doom(t, f)'
      BY <3>1, <3>2 DEF Doom, CutPcs
    <3> QED BY <1>1, <2>1, <3>1, <3>2, <3>3 DEF Running, LateCalm, Late, SweepEnded
  <2>3. CASE /\ gloc[t].todo = {}
             /\ Moved(t, IF gloc[t].again THEN "deleteNode" ELSE "list",
                      [gloc[t] EXCEPT !.again = TRUE])
    <3> DEFINE l == [gloc[t] EXCEPT !.again = TRUE]
    <3>1. gpc'[t] = (IF gloc[t].again THEN "deleteNode" ELSE "list") /\ gloc'[t] = l
      BY <2>3 DEF Moved
    <3>2. /\ l.op = "removeNode" /\ l.node = gloc[t].node /\ l.unseen = gloc[t].unseen
          /\ l.again = TRUE /\ l.todo = {}
      BY <1>1, <2>3 DEF Locals
    <3> HIDE DEF l
    <3> QED BY <1>1, <2>1, <2>3, <3>1, <3>2 DEF Running, LateCalm, Late, SweepEnded
  <2> QED BY <1>5, <2>2, <2>3, NextEdgeEffect
<1> QED BY <1>4, <1>5

LEMMA AddStepsKeepNodes ==
  ASSUME GraphAssumption, Base, ListsInv, NodesInv, NEW t \in Tasks,
         \/ HasSource(t) \/ HasTarget(t) \/ Create(t) \/ GetList(t) \/ SetList(t)
         \/ RecheckSource(t) \/ RecheckTarget(t)
  PROVE  NodesInv'
<1>1. /\ UNCHANGED <<options, edges, loose>> /\ nodes \subseteq nodes' /\ clashed \subseteq clashed'
      /\ gloc[t] \in Locals /\ (GetList(t) => gpc[t] = "getList")
  BY BaseOf DEF HasSource, HasTarget, Create, GetList, SetList, RecheckSource, RecheckTarget, Has,
         records, WriteList
<1>2. NodesCalm(t)
  BY AddStepsCalm
<1>3. ASSUME NEW label, NEW l, Moved(t, label, l),
             \/ l = Fresh
             \/ /\ l.op = gloc[t].op /\ l.edge = gloc[t].edge
                /\ l.source = gloc[t].source /\ l.target = gloc[t].target
      PROVE  AddingCalm(t) /\ OthersStay(t)
  BY <1>3, AddingEnds, MovedStays
<1> HIDE DEF AddingCalm, OthersStay
<1>4. AddingCalm(t) /\ OthersStay(t)
  <2>1. CASE HasSource(t)
    BY <1>1, <1>3, <2>1, HasSourceEffect DEF Locals
  <2>2. CASE HasTarget(t)
    BY <1>1, <1>3, <2>2, HasTargetEffect DEF Locals
  <2>3. CASE Create(t)
    BY <1>1, <1>3, <2>3, CreateEffect DEF Locals
  <2>4. CASE GetList(t)
    BY <1>1, <1>3, <2>4, GetListEffect DEF Locals
  <2>5. CASE SetList(t)
    <3>1. CASE gloc[t].side = "out"
      BY <1>1, <1>3, <2>5, <3>1, SetListEffect DEF Locals
    <3>2. CASE gloc[t].side # "out" /\ gloc[t].op = "import"
      BY <1>1, <1>3, <2>5, <3>2, SetListEffect DEF Locals
    <3>3. CASE gloc[t].side # "out" /\ gloc[t].op # "import"
      BY <1>1, <1>3, <2>5, <3>3, SetListEffect DEF Locals
    <3> QED BY <3>1, <3>2, <3>3
  <2>6. CASE RecheckSource(t)
    BY <1>1, <1>3, <2>6, RecheckSourceEffect DEF Locals
  <2>7. CASE RecheckTarget(t)
    <3>1. CASE gloc[t].missing \cup ({gloc[t].target} \ nodes) = {}
      BY <1>3, <2>7, <3>1, RecheckTargetEffect
    <3>2. CASE gloc[t].missing \cup ({gloc[t].target} \ nodes) # {}
      BY <1>1, <1>3, <2>7, <3>2, RecheckTargetEffect DEF Locals
    <3> QED BY <3>1, <3>2
  <2> QED BY <2>1, <2>2, <2>3, <2>4, <2>5, <2>6, <2>7
<1>5. Base'
  BY HasSourceEffect, HasTargetEffect, CreateEffect, GetListEffect, SetListEffect,
     RecheckSourceEffect, RecheckTargetEffect
<1> HIDE DEF NodesCalm
<1> QED BY <1>1, <1>2, <1>4, <1>5, CalmStep

LEMMA CutStepsKeepNodes ==
  ASSUME GraphAssumption, Base, ListsInv, NodesInv, NEW t \in Tasks,
         GetEdge(t) \/ Unlist(t) \/ SaveList(t) \/ DeleteEdge(t)
  PROVE  NodesInv'
<1>1. /\ UNCHANGED <<options, nodes>> /\ loose \subseteq loose' /\ clashed \subseteq clashed'
      /\ gpc[t] \in CutPcs /\ gloc[t] \in Locals /\ gloc[t].edge \in Edges
  BY BaseOf DEF GetEdge, Unlist, SaveList, DeleteEdge, records, WriteList, CutPcs, Fits
<1>2. NodesCalm(t)
  BY CutStepsCalm
<1>3. \A e \in Edges \ loose' : edges'[e] = edges[e] \/ edges'[e] = None
  BY DEF GetEdge, Unlist, SaveList, DeleteEdge, records, Base, GraphTypeOK
<1>4. AddingCalm(t) /\ Base' /\ OthersStay(t)
  <2>1. CASE GetEdge(t)
    <3> DEFINE l == [gloc[t] EXCEPT !.source = edges[gloc[t].edge].source,
                                    !.target = edges[gloc[t].edge].target, !.side = "out"]
    <3>1. CASE Moved(t, "unlist", l)
      <4>1. gloc'[t] = l /\ gpc[t] = "getEdge"
        BY <2>1, <3>1 DEF Moved, GetEdge
      <4>2. /\ l.op = gloc[t].op /\ l.edge = gloc[t].edge
            /\ l.source = edges[gloc[t].edge].source /\ l.target = edges[gloc[t].edge].target
        BY <1>1 DEF Locals
      <4> HIDE DEF l
      <4>3. t \in Adding /\ gloc[t].edge \notin loose => edges[gloc[t].edge] = Ends(t)
        BY <4>1 DEF ListsInv, EdgesInv, AddedStored, NotYet
      <4>4. AddingCalm(t)
        BY <1>1, <4>1, <4>2, <4>3 DEF AddingCalm, Adding, Running, Ends
      <4> QED BY <2>1, <3>1, <4>4, GetEdgeEffect, MovedStays
    <3>2. CASE Moved(t, "nextEdge", gloc[t]) \/ Moved(t, "done", Fresh)
      BY <2>1, <3>2, AddingEnds, MovedStays, GetEdgeEffect
    <3> QED BY <2>1, <3>1, <3>2, GetEdgeEffect
  <2>2. CASE Unlist(t)
    <3> DEFINE l == [gloc[t] EXCEPT !.read = index[ListOf(t)]]
    <3>1. Moved(t, "saveList", l) /\ Base'
      BY <2>2, GetListEffect DEF Unlist
    <3>2. /\ l.op = gloc[t].op /\ l.edge = gloc[t].edge
          /\ l.source = gloc[t].source /\ l.target = gloc[t].target
      BY <1>1 DEF Locals
    <3> HIDE DEF l
    <3> QED BY <3>1, <3>2, AddingEnds, MovedStays
  <2>3. CASE SaveList(t)
    <3> DEFINE l == [gloc[t] EXCEPT !.side = "in"]
    <3>1. (Moved(t, "unlist", l) \/ Moved(t, "deleteEdge", gloc[t])) /\ Base'
      BY <2>3, SaveListEffect
    <3>2. /\ l.op = gloc[t].op /\ l.edge = gloc[t].edge
          /\ l.source = gloc[t].source /\ l.target = gloc[t].target
      BY <1>1 DEF Locals
    <3> HIDE DEF l
    <3> QED BY <3>1, <3>2, AddingEnds, MovedStays
  <2>4. CASE DeleteEdge(t)
    BY <2>4, DeleteEdgeEffect, AddingEnds, MovedStays
  <2> QED BY <2>1, <2>2, <2>3, <2>4
<1> QED BY <1>1, <1>2, <1>3, <1>4, CalmStep

\* The other steps that leave the nodes.
LEMMA OtherStepsKeepNodes ==
  ASSUME GraphAssumption, Base, ListsInv, NodesInv, NEW t \in Tasks,
         \/ GetNode(t) \/ NextEdge(t) \/ ReadNode(t) \/ WriteNode(t)
         \/ (\E n \in Nodes : PutNode(t, n)) \/ ReadEdge(t) \/ WriteEdge(t)
         \/ (Clear(t) /\ gpc[t] # "clearNodes") \/ Fail(t)
  PROVE  NodesInv'
<1>1. ASSUME Base', UNCHANGED options, loose \subseteq loose', clashed \subseteq clashed',
             nodes \subseteq nodes',
             \A e \in Edges \ loose' : edges'[e] = edges[e] \/ edges'[e] = None,
             NEW label, NEW l, Moved(t, label, l), l = Fresh \/ l.op \notin {"addEdge", "import"},
             NodesCalm(t)
      PROVE  NodesInv'
  BY <1>1, AddingEnds, MovedStays, CalmStep
<1>2. ASSUME NEW label, NEW l, Moved(t, label, l),
             label # "deleteNode", l = Fresh \/ l.op \notin {"import", "removeNode"},
             \/ gloc[t].op \notin {"addEdge", "removeNode", "removeEdge"} /\ gpc[t] # "clearEdges"
             \/ gloc[t].edge \notin StoredEdges' \ loose' /\ gpc[t] # "clearEdges"
             \/ StoredEdges' \subseteq loose'
      PROVE  NodesCalm(t)
  BY <1>2, OtherCalm
<1> HIDE DEF NodesCalm
<1>3. CASE GetNode(t) \/ NextEdge(t)
  <2>1. /\ UNCHANGED <<options, nodes, edges, loose, clashed>>
        /\ gloc[t] \in Locals /\ gloc[t].op = "removeNode"
    BY <1>3, BaseOf DEF GetNode, NextEdge, records, Fits, SweepPcs
  <2>2. NodesCalm(t)
    BY <1>3, SweepStepsCalm
  <2>4. ASSUME NEW label, NEW l, Moved(t, label, l), l = Fresh \/ l.op = "removeNode"
        PROVE  AddingCalm(t) /\ OthersStay(t)
    BY <2>4, AddingEnds, MovedStays
  <2> HIDE DEF AddingCalm, OthersStay
  <2>3. Base' /\ AddingCalm(t) /\ OthersStay(t)
    <3>1. CASE GetNode(t)
      BY <2>1, <2>4, <3>1, GetNodeEffect
    <3>2. CASE NextEdge(t)
      <4>1. CASE \E e \in gloc[t].todo :
                  Moved(t, "getEdge", [gloc[t] EXCEPT !.edge = e, !.todo = @ \ {e}])
        BY <2>1, <2>4, <3>2, <4>1, NextEdgeEffect DEF Locals
      <4>2. CASE Moved(t, IF gloc[t].again THEN "deleteNode" ELSE "list",
                       [gloc[t] EXCEPT !.again = TRUE])
        BY <2>1, <2>4, <3>2, <4>2, NextEdgeEffect DEF Locals
      <4> QED BY <3>2, <4>1, <4>2, NextEdgeEffect
    <3> QED BY <1>3, <3>1, <3>2
  <2> QED BY <2>1, <2>2, <2>3, CalmStep
<1>4. CASE ReadNode(t) \/ WriteNode(t) \/ (\E n \in Nodes : PutNode(t, n))
  <2>1. /\ Base' /\ nodes \subseteq nodes' /\ UNCHANGED <<options, edges, index, clashed, loose>>
        /\ Moved(t, "done", Fresh) \/ Moved(t, "writeNode", gloc[t])
        /\ gpc[t] \in {"idle", "readNode", "writeNode"}
    BY <1>4, NodeStepsEffect
  <2>2. gloc[t].op \in {"none", "updateNode"}
    BY <2>1, BaseOf DEF Fits, Fresh
  <2>3. NodesCalm(t)
    BY <1>2, <2>1, <2>2
  <2> QED BY <1>1, <2>1, <2>2, <2>3
<1>5. CASE ReadEdge(t)
  <2>1. /\ Base' /\ gpc[t] = "readEdge" /\ gloc[t] \in Locals /\ gloc[t].op = "updateEdge"
        /\ UNCHANGED <<options, nodes, edges, loose, clashed>>
    BY <1>5, BaseOf, ReadEdgeEffect DEF ReadEdge, records, Fits
  <2>2. ASSUME NEW label \in {"done", "writeEdge"}, NEW l, Moved(t, label, l),
               l = Fresh \/ l.op = "updateEdge"
        PROVE  NodesInv'
    <3>1. NodesCalm(t)
      BY <1>2, <2>1, <2>2
    <3> QED BY <1>1, <2>1, <2>2, <3>1
  <2>3. CASE Moved(t, "writeEdge", [gloc[t] EXCEPT !.source = edges[gloc[t].edge].source,
                                         !.target = edges[gloc[t].edge].target])
    BY <2>1, <2>2, <2>3 DEF Locals
  <2> QED BY <1>5, <2>2, <2>3, ReadEdgeEffect
<1>6. CASE WriteEdge(t)
  <2>1. /\ Base' /\ gpc[t] = "writeEdge" /\ gloc[t].op = "updateEdge" /\ loose \subseteq loose'
        /\ UNCHANGED <<options, nodes, clashed>> /\ Moved(t, "done", Fresh)
        /\ gloc[t].edge \notin StoredEdges => gloc[t].edge \in loose'
    BY <1>6, BaseOf, WriteEdgeEffect DEF WriteEdge, Fits
  <2>2. \A f \in Edges \ loose' : edges'[f] = edges[f]
    <3>1. gloc[t].edge \in Edges \ loose' => edges[gloc[t].edge] = Ends(t)
      BY <2>1 DEF ListsInv, EdgesInv, HeldTrue, Holds
    <3> QED BY <1>6, <3>1, WriteEdgeEffect DEF Base, GraphTypeOK
  <2>3. NodesCalm(t)
    BY <1>2, <2>1
  <2> QED BY <1>1, <2>1, <2>2, <2>3
<1>7. CASE Clear(t) /\ gpc[t] # "clearNodes"
  <2>1. /\ Base' /\ UNCHANGED <<options, nodes, clashed>> /\ loose \subseteq loose'
        /\ gloc[t].op = "clear"
        /\ \E label \in {"clearOut", "clearIn", "done"} : \E l : Moved(t, label, l) /\ (l = Fresh \/ l = gloc[t])
    BY <1>7, ClearEffect, BaseOf DEF Clear, Fits
  <2>2. \A e \in Edges : edges'[e] = edges[e] \/ edges'[e] = None
    BY <1>7 DEF Clear
  <2>3. gpc[t] = "clearEdges" => StoredEdges' \subseteq loose'
    BY <1>7 DEF Clear, StoredEdges
  <2>4. NodesCalm(t)
    BY <1>2, <2>1, <2>3
  <2> QED BY <1>1, <2>1, <2>2, <2>4
<1>8. CASE Fail(t)
  <2>1. /\ Base' /\ UNCHANGED <<options, nodes, edges, clashed>> /\ loose \subseteq loose'
        /\ Moved(t, "failed", Fresh)
        /\ gloc[t].edge \notin StoredEdges' \ loose'
        /\ gloc[t].op = "clear" => StoredEdges' \subseteq loose'
    BY <1>8, FailEffect DEF StoredEdges, GraphAssumption
  <2>2. gpc[t] = "clearEdges" => gloc[t].op = "clear"
    BY BaseOf DEF Fits
  <2>3. NodesCalm(t)
    BY <1>2, <2>1, <2>2
  <2> QED BY <1>1, <2>1, <2>3
<1> QED BY <1>3, <1>4, <1>5, <1>6, <1>7, <1>8

-----------------------------------------------------------------------------
(* The nodes: steps that find, add and lose edges and nodes.                *)

LEMMA SetEdgeKeepsNodes ==
  ASSUME GraphAssumption, Base, ListsInv, NodesInv, NEW t \in Tasks, SetEdge(t)
  PROVE  NodesInv'
<1> DEFINE e == gloc[t].edge
<1>1. /\ gpc[t] = "setEdge" /\ gpc'[t] = "getList" /\ gloc'[t] = gloc[t]
      /\ UNCHANGED <<options, nodes, clashed>> /\ OthersStay(t) /\ Base'
      /\ loose \subseteq loose'
      /\ edges' = [edges EXCEPT ![gloc[t].edge] = Ends(t)]
  BY SetEdgeEffect, MovedStays DEF SetEdge, Moved, Ends
<1>2. /\ t \in Adding /\ gloc[t].edge = e /\ gloc[t].op \in {"addEdge", "import"} /\ e \in Edges
  BY <1>1, BaseOf DEF Fits, AddPcs, Adding, Running, GraphAssumption
<1>3. edges'[e] = Ends(t) /\ \A f \in Edges \ {e} : edges'[f] = edges[f]
  BY <1>1, <1>2 DEF Base, GraphTypeOK
<1>4. gloc[t].op = "import" => Knows(t)
  BY <1>2 DEF NodesInv, ImportsKnow, Running
<1>5. /\ DoomCalm(t) /\ CheckCalm(t) /\ ~Late(t)' /\ ~Late(t) /\ SweepEnded(t)'
      /\ (t \in Running("import"))' => Knows(t)'
  BY <1>1, <1>2, <1>4 DEF DoomCalm, Doom, CutPcs, CheckCalm, WillCheck, Late, SweepEnded, Knows, Running
<1>6. AddingCalm(t)
  BY <1>1, <1>2 DEF AddingCalm, Ends
<1> HIDE DEF e
<1>7. ImportsKnow' /\ Noticed'
  BY <1>1, <1>5, <1>6, ImportsKept, NoticedKept DEF NodesInv, AddingCalm
<1>8. ASSUME NEW f \in Edges, Exact(f)', f # e
      PROVE  f \in StoredEdges /\ edges'[f] = edges[f]
  BY <1>3, <1>8 DEF Exact, StoredEdges
<1>9. ASSUME options.cascade PROVE Anchored'
  <2>1. \A f \in Edges : \A n : n \in nodes => Safe(f, n)'
    BY <1>1 DEF Safe
  <2>2. ASSUME NEW f, f = e, Exact(f)', NEW n \in {gloc[t].source, gloc[t].target} PROVE Safe(f, n)'
    <3>1. CASE gloc[t].op = "addEdge"
      <4>1. WillCheck(t, f, n)'
        BY <1>1, <1>2, <2>2, <3>1 DEF WillCheck
      <4> QED BY <4>1 DEF Safe
    <3>2. CASE gloc[t].op = "import"
      <4>1. e \notin loose
        BY <1>1, <2>2 DEF Exact, Sound
      <4>2. n \in nodes
        BY <1>1, <1>2, <1>4, <3>2, <4>1 DEF Knows
      <4> QED BY <1>1, <4>2 DEF Safe
    <3> QED BY <1>2, <3>1, <3>2
  <2>3. ASSUME NEW f \in Edges, Exact(f)', NEW n \in {edges'[f].source, edges'[f].target}
        PROVE  \/ f \in StoredEdges /\ edges'[f] = edges[f] /\ (n \in nodes => Safe(f, n)')
               \/ Safe(f, n)'
    <3>1. CASE f = e
      <4>1. n \in {gloc[t].source, gloc[t].target}
        BY <1>3, <2>3, <3>1 DEF Ends
      <4> QED BY <2>2, <2>3, <3>1, <4>1
    <3> QED BY <1>8, <2>1, <2>3, <3>1
  <2> QED BY <1>1, <1>5, <1>9, <2>3, AnchoredKept DEF NodesInv
<1>10. ASSUME options.cascade PROVE Swept'
  <2>1. \A f \in Edges : SweptBy(t, f)'
    BY <1>5 DEF SweptBy
  <2>2. ASSUME NEW f, f = e, Exact(f)', NEW u \in Tasks \ {t} PROVE SweptBy(u, f)'
    <3>1. e \notin loose
      BY <1>1, <2>2 DEF Exact, Sound
    <3>2. Late(u) /\ Touches(t, gloc[u].node) => e \in gloc[u].unseen
      BY <1>2, <3>1 DEF NodesInv, Noticed, NoticedBy
    <3>3. /\ Late(u)' <=> Late(u)
          /\ gloc'[u].node = gloc[u].node /\ gloc[u].unseen \subseteq gloc'[u].unseen
      BY <1>1, OthersSafe
    <3>4. edges'[e].source = gloc[t].source /\ edges'[e].target = gloc[t].target
      BY <1>3 DEF Ends
    <3> QED BY <2>2, <3>2, <3>3, <3>4 DEF SweptBy, Touches
  <2>3. ASSUME NEW f \in Edges, Exact(f)'
        PROVE  /\ SweptBy(t, f)'
               /\ \/ f \in StoredEdges /\ edges'[f] = edges[f]
                  \/ \A u \in Tasks \ {t} : SweptBy(u, f)'
    <3>1. CASE f = e
      BY <2>1, <2>2, <2>3, <3>1
    <3> QED BY <1>8, <2>1, <2>3, <3>1
  <2> QED BY <1>1, <1>5, <1>10, <2>3, SweptKept DEF NodesInv
<1>11. ASSUME options.cascade PROVE SweepEnds'
  BY <1>1, <1>5, <1>11, OthersSafe DEF SweepEnds, SweepEnded, NodesInv
<1> QED BY <1>1, <1>7, <1>9, <1>10, <1>11 DEF NodesInv

\* What a removal that looks up the edges of its node finds.
LEMMA ListFinds ==
  ASSUME GraphAssumption, Base, ListsInv, NEW e \in Edges, Exact(e), NEW side \in {"out", "in"},
         NEW n \in Nodes, End(edges[e], side) = n
  PROVE  e \in Listed(side, n) \/ e \in BeingAdded(n) \/ Doomed(e)
<1>1. <<side, n>> \notin clashed /\ e \in StoredEdges \ loose
  BY DEF Exact, Sound, End
<1>2. CASE e \in index[<<side, n>>]
  BY <1>1, <1>2 DEF Listed
<1>3. ASSUME NEW u \in Tasks, Unfiled(u, e, side) \/ Unlisted(u, e, side)
      PROVE  e \in BeingAdded(n) \/ Doomed(e)
  <2>1. CASE Unlisted(u, e, side)
    BY <2>1 DEF Unlisted, Doomed, Doom, CutPcs
  <2>2. CASE Unfiled(u, e, side)
    <3>1. u \in Adding /\ ~NotYet(u) /\ gloc[u].edge = e
      BY <2>2, BaseOf DEF Unfiled, Fits, AddPcs, Adding, Running, NotYet
    <3>2. edges[e] = Ends(u)
      BY <1>1, <3>1 DEF ListsInv, EdgesInv, AddedStored
    <3>3. Touches(u, n)
      BY <3>2 DEF Touches, Ends, End
    <3> QED BY <3>1, <3>3 DEF BeingAdded
  <2> QED BY <1>3, <2>1, <2>2
<1>4. CASE e \notin index[<<side, n>>]
  <2>1. \E u \in Tasks : Unfiled(u, e, side) \/ Unlisted(u, e, side)
    BY <1>1, <1>4 DEF ListsInv, ListsComplete
  <2> QED BY <1>3, <2>1
<1> QED BY <1>2, <1>4

LEMMA ListStepsKeepNodes ==
  ASSUME GraphAssumption, Base, ListsInv, NodesInv, NEW t \in Tasks, List(t) \/ ListOut(t)
  PROVE  NodesInv'
<1> DEFINE n == gloc[t].node
<1>1. /\ UNCHANGED <<options, records, clashed, loose>> /\ gpc[t] \in {"list", "relist"}
      /\ gloc[t].op = "removeNode" /\ gloc[t] \in Locals /\ n \in Nodes
      /\ gpc[t] = "list" <=> List(t)
  BY BaseOf DEF List, ListOut, Fits, SweepPcs
<1>2. Base' /\ OthersStay(t)
  BY ListEffect, ListOutEffect, MovedStays
<1>3. /\ gpc'[t] = IF gpc[t] = "list" THEN "relist" ELSE "nextEdge"
      /\ gloc'[t].op = "removeNode" /\ gloc'[t].node = n /\ gloc'[t].again = gloc[t].again
      /\ gpc[t] = "list" => /\ gloc'[t].todo = Listed("in", n)
                            /\ gloc[t].again => gloc'[t].unseen = BeingAdded(n)
      /\ gpc[t] = "relist" => /\ gloc'[t].todo = gloc[t].todo \cup Listed("out", n)
                              /\ gloc'[t].unseen = gloc[t].unseen
  <2>1. CASE List(t)
    <3> DEFINE l == [gloc[t] EXCEPT !.todo = Listed("in", n),
                                    !.unseen = IF gloc[t].again THEN BeingAdded(n) ELSE {}]
    <3>1. Moved(t, "relist", l)
      BY <2>1, ListEffect
    <3>2. /\ l.op = gloc[t].op /\ l.node = n /\ l.again = gloc[t].again /\ l.todo = Listed("in", n)
          /\ gloc[t].again => l.unseen = BeingAdded(n)
      BY <1>1 DEF Locals
    <3> HIDE DEF l
    <3> QED BY <1>1, <2>1, <3>1, <3>2 DEF Moved
  <2>2. CASE ListOut(t)
    <3> DEFINE l == [gloc[t] EXCEPT !.todo = @ \cup Listed("out", n)]
    <3>1. Moved(t, "nextEdge", l) /\ gpc[t] = "relist"
      BY <2>2, ListOutEffect DEF ListOut
    <3>2. /\ l.op = gloc[t].op /\ l.node = n /\ l.again = gloc[t].again
          /\ l.todo = gloc[t].todo \cup Listed("out", n) /\ l.unseen = gloc[t].unseen
      BY <1>1 DEF Locals
    <3> HIDE DEF l
    <3> QED BY <1>1, <3>1, <3>2 DEF Moved
  <2> QED BY <2>1, <2>2
<1>4. /\ DoomCalm(t) /\ CheckCalm(t) /\ SweepEnded(t)' /\ ~(t \in Adding)'
      /\ ~(t \in Running("import"))'
  BY <1>1, <1>3 DEF DoomCalm, Doom, CutPcs, CheckCalm, WillCheck, SweepEnded, Adding, Running
<1> HIDE DEF n
<1>5. ASSUME NEW e \in Edges, Exact(e)'
      PROVE  e \in StoredEdges /\ edges'[e] = edges[e] /\ Exact(e)
  BY <1>1, <1>5 DEF Exact, Sound, StoredEdges, records
<1>6. ImportsKnow'
  BY <1>1, <1>2, <1>4, ImportsKept DEF NodesInv, records
<1>7. Noticed'
  <2>1. CASE gpc[t] = "relist"
    <3>1. Late(t)' => Late(t) /\ gloc'[t].node = gloc[t].node
                      /\ gloc[t].unseen \subseteq gloc'[t].unseen
      BY <1>1, <1>3, <2>1 DEF Late, n
    <3> QED BY <1>1, <1>2, <1>4, <3>1, NoticedKept DEF NodesInv, AddingCalm
  <2>2. CASE gpc[t] = "list"
    <3>1. ASSUME Late(t)', NEW u \in Tasks, (u \in Adding)', Touches(u, n)
          PROVE  gloc'[u].edge \in gloc'[t].unseen
      <4>1. u # t /\ gloc[t].again
        BY <1>3, <1>4, <3>1 DEF Late
      <4>2. u \in Adding /\ gloc'[u].edge = gloc[u].edge
        BY <1>2, <3>1, <4>1, OthersSame
      <4>3. gloc'[t].unseen = BeingAdded(n)
        BY <1>3, <2>2, <4>1
      <4> QED BY <3>1, <4>2, <4>3 DEF BeingAdded
    <3>2. ASSUME NEW u \in Tasks, (u \in Adding)', Touches(u, gloc[t].node)'
          PROVE  Touches(u, n)
      <4>1. u # t /\ gloc'[t].node = n
        BY <1>3, <1>4, <3>2
      <4>2. Ends(u)' = Ends(u)
        BY <1>2, <4>1, OthersSame
      <4> QED BY <3>2, <4>1, <4>2 DEF Touches, Ends
    <3>3. \A u \in Adding' : u \in Tasks
      BY DEF Adding, Running
    <3>4. NoticedBy(t)'
      BY <3>1, <3>2, <3>3 DEF NoticedBy
    <3> QED BY <1>1, <1>2, <1>4, <3>4, NoticedKept DEF NodesInv, AddingCalm
  <2> QED BY <1>1, <2>1, <2>2
<1>8. ASSUME options.cascade PROVE Anchored'
  <2>1. \A e \in Edges : \A m : m \in nodes => Safe(e, m)'
    BY <1>1 DEF Safe, records
  <2> QED BY <1>1, <1>2, <1>4, <1>5, <1>8, <2>1, AnchoredKept DEF NodesInv
<1>9. ASSUME options.cascade PROVE Swept'
  <2>1. ASSUME NEW e \in Edges, Exact(e)', Late(t)',
               \/ edges[e].target = n
               \/ edges[e].source = n /\ gpc'[t] # "relist"
        PROVE  e \in gloc'[t].todo \cup gloc'[t].unseen \/ Doomed(e)
    <3>1. Exact(e) /\ gloc[t].again
      BY <1>3, <1>5, <2>1 DEF Late
    <3>2. CASE gpc[t] = "list"
      <4>1. e \in Listed("in", n) \/ e \in BeingAdded(n) \/ Doomed(e)
        BY <1>1, <1>3, <2>1, <3>1, <3>2, ListFinds DEF End, n
      <4> QED BY <1>3, <3>1, <3>2, <4>1
    <3>3. CASE gpc[t] = "relist"
      <4>1. Late(t)
        BY <1>1, <3>1, <3>3 DEF Late
      <4>2. CASE edges[e].target = n
        <5>1. SweptBy(t, e)
          BY <1>9, <3>1 DEF NodesInv, Swept
        <5> QED BY <1>3, <3>3, <4>1, <4>2, <5>1 DEF SweptBy, n
      <4>3. CASE edges[e].source = n
        <5>1. e \in Listed("out", n) \/ e \in BeingAdded(n) \/ Doomed(e)
          BY <1>1, <3>1, <4>3, ListFinds DEF End, n
        <5>2. e \in BeingAdded(n) => e \in gloc[t].unseen
          <6>1. e \notin loose
            BY <3>1 DEF Exact, Sound
          <6> QED BY <4>1, <6>1 DEF BeingAdded, NodesInv, Noticed, NoticedBy, Adding, Running, n
        <5> QED BY <1>3, <3>3, <5>1, <5>2
      <4> QED BY <2>1, <4>2, <4>3
    <3> QED BY <1>1, <3>2, <3>3
  <2>2. ASSUME NEW e \in Edges, Exact(e)' PROVE Doomed(e) => Doomed(e)'
    <3>1. e \in StoredEdges' \ loose'
      BY <2>2 DEF Exact, Sound
    <3> QED BY <1>2, <1>4, <3>1, OthersSafe DEF Doomed, DoomCalm
  <2>3. ASSUME NEW e \in Edges, Exact(e)' PROVE SweptBy(t, e)'
    BY <1>3, <1>5, <2>1, <2>2, <2>3 DEF SweptBy
  <2> QED BY <1>1, <1>2, <1>4, <1>5, <1>9, <2>3, SweptKept DEF NodesInv
<1>10. ASSUME options.cascade PROVE SweepEnds'
  BY <1>2, <1>4, <1>10, OthersSafe DEF SweepEnds, SweepEnded, NodesInv
<1> QED BY <1>1, <1>6, <1>7, <1>8, <1>9, <1>10 DEF NodesInv

\* A node that goes takes the edges that touch it, or leaves them to the calls that add them.
LEMMA DeleteNodeKeepsNodes ==
  ASSUME GraphAssumption, Base, ListsInv, NodesInv, NEW t \in Tasks, DeleteNode(t)
  PROVE  NodesInv'
<1> DEFINE n == gloc[t].node
<1>1. /\ gpc[t] = "deleteNode" /\ gloc[t].op = "removeNode" /\ nodes' = nodes \ {n}
      /\ UNCHANGED <<options, edges, index, clashed>>
      /\ loose' = loose \cup (gloc[t].unseen \ ToBeChecked(n)) \cup Unchecked(n)
  BY BaseOf DEF DeleteNode, Fits, SweepPcs
<1>2. Base' /\ OthersStay(t) /\ gpc'[t] = "done" /\ gloc'[t] = Fresh
  BY DeleteNodeEffect, MovedStays DEF Moved
<1>3. /\ DoomCalm(t) /\ CheckCalm(t) /\ SweepEnded(t)' /\ ~(t \in Adding)' /\ ~Late(t)'
      /\ ~(t \in Running("import"))'
  BY <1>1, <1>2 DEF DoomCalm, Doom, CutPcs, CheckCalm, WillCheck, SweepEnded, Adding, Running, Late,
     Fresh
<1> HIDE DEF n
<1>4. ASSUME NEW e \in Edges, Exact(e)'
      PROVE  e \in StoredEdges /\ edges'[e] = edges[e] /\ Exact(e) /\ e \notin loose'
  BY <1>1, <1>4 DEF Exact, Sound, StoredEdges
<1>5. ImportsKnow'
  <2> SUFFICES ASSUME NEW u \in Tasks \ {t}, (u \in Running("import"))', gloc'[u].edge \notin loose'
               PROVE  Knows(u)'
    BY <1>3 DEF ImportsKnow, Running, Knows
  <2>1. /\ u \in Running("import") /\ gloc'[u].edge = gloc[u].edge /\ gloc'[u].source = gloc[u].source
        /\ gloc'[u].target = gloc[u].target /\ gloc'[u].missing = gloc[u].missing /\ gpc'[u] = gpc[u]
    BY <1>2, OthersSafe DEF Running
  <2>2. ~Touches(u, n) /\ gloc[u].edge \notin loose
    BY <1>1, <2>1 DEF Unchecked
  <2>3. Knows(u)
    BY <2>1 DEF NodesInv, ImportsKnow
  <2> QED BY <1>1, <2>1, <2>2, <2>3 DEF Knows, Touches
<1>6. Noticed'
  BY <1>1, <1>2, <1>3, NoticedKept DEF NodesInv, AddingCalm
<1>7. ASSUME options.cascade, NEW e \in Edges, Exact(e)', n \in {edges[e].source, edges[e].target},
             NEW m, m = n
      PROVE  Safe(e, m)'
  <2>1. Late(t) /\ gloc[t].todo = {}
    BY <1>1, <1>7 DEF NodesInv, SweepEnds, SweepEnded, Late
  <2>2. SweptBy(t, e) /\ e \notin loose'
    BY <1>4, <1>7 DEF NodesInv, Swept
  <2>3. e \in gloc[t].unseen \/ Doomed(e)
    BY <1>1, <1>7, <2>1, <2>2 DEF SweptBy, n
  <2>4. CASE Doomed(e)
    <3>1. PICK u \in Tasks : Doom(u, e)
      BY <2>4 DEF Doomed
    <3>2. u # t
      BY <1>1, <3>1 DEF Doom, CutPcs
    <3> QED BY <1>2, <3>1, <3>2, OthersSafe DEF Safe, Doomed
  <2>5. CASE e \in gloc[t].unseen
    <3>1. e \in ToBeChecked(n)
      BY <1>1, <2>2, <2>5
    <3>2. PICK u \in Running("addEdge") :
              e = gloc[u].edge /\ (gpc[u] = "recheckTarget" => gloc[u].target = n)
      BY <3>1 DEF ToBeChecked
    <3>3. u \in Tasks \ {t} /\ gloc[u].op = "addEdge"
      BY <1>1, <3>2 DEF Running
    <3>4. WillCheck(u, e, m)'
      <4>1. /\ gpc'[u] = gpc[u] /\ gloc'[u].op = gloc[u].op /\ gloc'[u].edge = gloc[u].edge
            /\ gloc'[u].target = gloc[u].target
        BY <1>2, <3>3, OthersSafe
      <4> QED BY <1>7, <3>2, <3>3, <4>1 DEF WillCheck
    <3> QED BY <3>3, <3>4 DEF Safe
  <2> QED BY <2>3, <2>4, <2>5
<1>8. ASSUME options.cascade PROVE Anchored'
  <2>1. ASSUME NEW e \in Edges, Exact(e)', NEW m \in {edges'[e].source, edges'[e].target}, m \in nodes
        PROVE  Safe(e, m)'
    <3>1. m \in {edges[e].source, edges[e].target}
      BY <1>4, <2>1
    <3>2. CASE m = n
      BY <1>7, <1>8, <2>1, <3>1, <3>2
    <3>3. CASE m # n
      BY <1>1, <2>1, <3>3 DEF Safe
    <3> QED BY <3>2, <3>3
  <2>2. \A e \in Edges : Exact(e)' =>
            \A m \in {edges'[e].source, edges'[e].target} :
                \/ e \in StoredEdges /\ edges'[e] = edges[e] /\ (m \in nodes => Safe(e, m)')
                \/ Safe(e, m)'
    BY <1>4, <2>1
  <2> QED BY <1>1, <1>2, <1>3, <1>8, <2>2, AnchoredKept DEF NodesInv
<1>9. ASSUME options.cascade PROVE Swept'
  <2>1. \A e \in Edges : SweptBy(t, e)'
    BY <1>3 DEF SweptBy
  <2> QED BY <1>1, <1>2, <1>3, <1>4, <1>9, <2>1, SweptKept DEF NodesInv
<1>10. ASSUME options.cascade PROVE SweepEnds'
  BY <1>2, <1>3, <1>10, OthersSafe DEF SweepEnds, SweepEnded, NodesInv
<1> QED BY <1>1, <1>5, <1>6, <1>8, <1>9, <1>10 DEF NodesInv

LEMMA ClearNodesKeepsNodes ==
  ASSUME GraphAssumption, Base, NodesInv, NEW t \in Tasks, Clear(t), gpc[t] = "clearNodes"
  PROVE  NodesInv'
<1>1. /\ UNCHANGED <<options, edges, clashed>> /\ loose' = loose \cup HalfAdded(t)
  BY DEF Clear
<1>2. Base' /\ OthersStay(t) /\ gpc'[t] = "clearEdges" /\ gloc'[t] = gloc[t] /\ gloc[t].op = "clear"
  BY ClearEffect, MovedStays, BaseOf DEF Moved, Fits
<1>3. /\ DoomCalm(t) /\ CheckCalm(t) /\ SweepEnded(t)' /\ ~(t \in Adding)' /\ ~Late(t)'
      /\ ~(t \in Running("import"))'
  BY <1>2 DEF DoomCalm, Doom, CutPcs, CheckCalm, WillCheck, SweepEnded, Adding, Running, Late
<1>4. ASSUME NEW e \in Edges, Exact(e)'
      PROVE  e \in StoredEdges /\ edges'[e] = edges[e] /\ Exact(e)
  BY <1>1, <1>4 DEF Exact, Sound, StoredEdges
<1>5. ImportsKnow'
  <2> SUFFICES ASSUME NEW u \in Tasks \ {t}, (u \in Running("import"))', gloc'[u].edge \notin loose'
               PROVE  FALSE
    BY <1>3 DEF ImportsKnow, Running, Knows
  <2>1. u \in Adding /\ gloc'[u].edge = gloc[u].edge
    BY <1>2, OthersSafe DEF Running, Adding
  <2> QED BY <1>1, <2>1 DEF HalfAdded
<1>6. Noticed'
  BY <1>1, <1>2, <1>3, NoticedKept DEF NodesInv, AddingCalm
<1>7. \A e \in Edges : \A n : Safe(e, n)'
  BY <1>2 DEF Safe
<1>8. Anchored'
  BY <1>7 DEF Anchored
<1>9. ASSUME options.cascade PROVE Swept'
  <2>1. \A e \in Edges : SweptBy(t, e)'
    BY <1>3 DEF SweptBy
  <2> QED BY <1>1, <1>2, <1>3, <1>4, <1>9, <2>1, SweptKept DEF NodesInv
<1>10. ASSUME options.cascade PROVE SweepEnds'
  BY <1>2, <1>3, <1>10, OthersSafe DEF SweepEnds, SweepEnded, NodesInv
<1> QED BY <1>1, <1>5, <1>6, <1>8, <1>9, <1>10 DEF NodesInv

\* A removal that has taken its second look is told of the edges added from then on.
LEMMA StartKeepsNodes ==
  ASSUME GraphAssumption, Base, NodesInv, NEW t \in Tasks, NEW call \in CallsOf(t), Start(t, call)
  PROVE  NodesInv'
<1>1. /\ Base' /\ UNCHANGED <<options, nodes, edges, index, clashed>> /\ loose \subseteq loose'
      /\ OthersStay(t)
      /\ gpc[t] = "idle" /\ gpc'[t] = First(call.op) /\ gloc'[t] = call
  BY StartEffect DEF OthersStay
<1>2. /\ gloc[t] = Fresh /\ call.again = FALSE
      /\ call.op \in {"addEdge", "import"} => First(call.op) = "hasSource"
      /\ First(call.op) # "deleteNode"
  BY <1>1, CallIs, BaseOf DEF Fits
<1>3. NodesCalm(t) /\ ~Late(t)'
  BY <1>1, <1>2 DEF NodesCalm, DoomCalm, Doom, CutPcs, CheckCalm, WillCheck, LateCalm, Late, SweepEnded,
     Running, Knows, Fresh
<1>4. Noticed'
  <2> SUFFICES ASSUME NEW r \in Tasks \ {t}, NEW u \in Tasks, (u \in Adding)', Late(r)',
                      Touches(u, gloc[r].node)', gloc'[u].edge \notin loose'
               PROVE  gloc'[u].edge \in gloc'[r].unseen
    BY <1>3 DEF Noticed, NoticedBy, Adding, Running
  <2>1. /\ Late(r) /\ gloc'[r].node = gloc[r].node /\ gloc[r].unseen \subseteq gloc'[r].unseen
    BY <1>1, OthersSafe
  <2>2. CASE u = t
    <3>1. call.source \in Nodes /\ call.op \in {"addEdge", "import"}
      BY <1>1, <2>2 DEF Base, Places, Fits, Adding, Running
    <3>2. call.source # None /\ gloc[r].again /\ gloc[r].node \in {call.source, call.target}
      BY <1>1, <2>1, <2>2, <3>1 DEF GraphAssumption, Late, Touches
    <3> QED BY <1>1, <2>2, <3>2, StartEffect
  <2>3. CASE u # t
    <3>1. u \in Adding /\ Ends(u)' = Ends(u) /\ gloc'[u].edge = gloc[u].edge
      BY <1>1, <2>3, OthersSame
    <3>2. Touches(u, gloc[r].node)
      BY <2>1, <3>1 DEF Touches, Ends
    <3> QED BY <1>1, <2>1, <3>1, <3>2 DEF NodesInv, Noticed, NoticedBy
  <2> QED BY <2>2, <2>3
<1>5. \A e \in Edges : Exact(e)' => e \in StoredEdges /\ edges'[e] = edges[e]
  BY <1>1 DEF Exact, StoredEdges
<1> HIDE DEF NodesCalm
<1> QED BY <1>1, <1>3, <1>4, <1>5, NodesOn

LEMMA NodesKept ==
  ASSUME GraphAssumption, Base, ListsInv, NodesInv, [Next]_vars
  PROVE  NodesInv'
<1>1. CASE UNCHANGED vars
  BY <1>1 DEF vars, records, NodesInv, ImportsKnow, Knows, Noticed, NoticedBy, Anchored, Safe, Swept,
     SweptBy, SweepEnds, SweepEnded, Exact, Sound, Doomed, Doom, WillCheck, Late, Touches, Adding,
     Running, StoredEdges
<1>2. ASSUME NEW t \in Tasks, Step(t) \/ (\E n \in Nodes : PutNode(t, n)) \/ Fail(t)
      PROVE  NodesInv'
  BY <1>2, AddStepsKeepNodes, CutStepsKeepNodes, OtherStepsKeepNodes, SetEdgeKeepsNodes,
     ListStepsKeepNodes, DeleteNodeKeepsNodes, ClearNodesKeepsNodes DEF Step
<1> QED BY <1>1, <1>2, StartKeepsNodes DEF Next

LEMMA NodesInit == ASSUME GraphAssumption, Init PROVE NodesInv
<1>1. \A t \in Tasks : gpc[t] = "idle" /\ gloc[t] = Fresh
  BY DEF Init
<1>2. \A e \in Edges : Exact(e) => edges[e].source \in nodes /\ edges[e].target \in nodes
  BY DEF Init, Exact
<1>3. Anchored
  BY <1>2 DEF Anchored, Safe
<1> QED BY <1>1, <1>3 DEF NodesInv, ImportsKnow, Knows, Noticed, NoticedBy, Swept, SweptBy, SweepEnds,
            SweepEnded, Late, Adding, Running, Fresh

-----------------------------------------------------------------------------
(* The theorems.                                                            *)

\* The strengthening that every step keeps.
GraphInv == Base /\ ListsInv /\ NodesInv

LEMMA GraphInvInductive == GraphAssumption => (Spec => []GraphInv)
<1> SUFFICES ASSUME GraphAssumption PROVE Spec => []GraphInv
  OBVIOUS
<1>1. Init => GraphInv
  BY BaseInit, ListsInit, NodesInit DEF GraphInv
<1>2. GraphInv /\ [Next]_vars => GraphInv'
  BY ListsKept, NodesKept DEF GraphInv
<1> QED BY <1>1, <1>2, PTL DEF Spec

\* The options, the records and the local variables of the calls keep their types.
THEOREM GraphTypeCorrect == GraphAssumption => (Spec => []GraphTypeOK)
<1>1. GraphInv => GraphTypeOK
  BY DEF GraphInv, Base
<1> QED BY <1>1, GraphInvInductive, PTL

\* When no call runs, the lists of a node (store.ts:449, :547) name the edges that
\* touch it and only stored ones, unless two updates of a list, a removal of an edge
\* that is being added, a clear or a failure has come between.
THEOREM ListsAreTrue == GraphAssumption => (Spec => []ListsMatchEdges)
<1>1. GraphInv => ListsMatchEdges
  <2> SUFFICES ASSUME GraphInv, Quiet
               PROVE  /\ \A e \in StoredEdges :
                            Sound(e, edges[e].source, edges[e].target)
                                => /\ e \in index[<<"out", edges[e].source>>]
                                   /\ e \in index[<<"in", edges[e].target>>]
                      /\ \A l \in Lists \ clashed : index[l] \ loose \subseteq StoredEdges
    BY DEF ListsMatchEdges
  <2>1. \A t \in Tasks : \A e, side : ~Unfiled(t, e, side) /\ ~Unlisted(t, e, side) /\ ~Clearing(side)
    BY DEF Quiet, Unfiled, Unlisted, Clearing
  <2>2. ASSUME NEW e \in StoredEdges, Sound(e, edges[e].source, edges[e].target)
        PROVE  /\ e \in index[<<"out", edges[e].source>>]
               /\ e \in index[<<"in", edges[e].target>>]
    BY <2>1, <2>2 DEF GraphInv, ListsInv, ListsComplete, Sound, End
  <2>3. ASSUME NEW l \in Lists \ clashed
        PROVE  index[l] \ loose \subseteq StoredEdges
    <3>1. PICK side \in {"out", "in"}, n \in Nodes : l = <<side, n>>
      BY <2>3 DEF Lists
    <3> QED BY <2>1, <2>3, <3>1 DEF GraphInv, ListsInv, ListsTrue, Quiet, Clearing
  <2> QED BY <2>2, <2>3
<1> QED BY <1>1, GraphInvInductive, PTL

\* When no call runs, no stored edge is without its nodes under cascadeDelete: the
\* second look of removeNode (store.ts:343) and the one of addEdge (store.ts:452)
\* leave no order of the two in which the edge outlives the node, with the same
\* exceptions and that of an import, which looks only once.
THEOREM EdgesKeepTheirNodes == GraphAssumption => (Spec => []EdgesAnchored)
<1>1. GraphInv => EdgesAnchored
  <2> SUFFICES ASSUME GraphInv, Quiet, options.cascade, NEW e \in StoredEdges,
                      Sound(e, edges[e].source, edges[e].target),
                      NEW n \in {edges[e].source, edges[e].target}
               PROVE  n \in nodes
    BY DEF EdgesAnchored
  <2>1. Safe(e, n)
    BY DEF GraphInv, NodesInv, Anchored, Exact, StoredEdges
  <2>2. \A t \in Tasks : gloc[t] = Fresh /\ gpc[t] \notin CutPcs \cup {"clearEdges"}
    BY DEF Quiet, GraphInv, Base, Places, Fits, CutPcs
  <2> QED BY <2>1, <2>2 DEF Safe, Doomed, Doom, WillCheck, Fresh
<1> QED BY <1>1, GraphInvInductive, PTL
=============================================================================
