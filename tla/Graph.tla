-------------------------------- MODULE Graph --------------------------------
(***************************************************************************)
(* GraphStore of src/graph/store.ts: nodes, edges, and for each node two   *)
(* lists of edge ids, kept as separate records of one Smallstore.          *)
(*                                                                         *)
(* A step is one get, set or delete of a record, which succeeds at once    *)
(* (the router's own steps are SmartRouter's); reading the edges that a    *)
(* list names is one step with reading the list.  Contents of nodes and    *)
(* edges are left out.  Each task makes one call.                          *)
(***************************************************************************)
EXTENDS GraphState

CONSTANT NewEdge(_)  \* the id that the call of a task generates

\* The ids that addEdge generates, of time and chance, are new; None is no id.
GraphAssumption ==
    /\ \A t \in Tasks : NewEdge(t) \in Edges
    /\ \A t, u \in Tasks : NewEdge(t) = NewEdge(u) => t = u
    /\ None \notin Nodes \cup Edges \cup [source : Nodes, target : Nodes]

records == <<nodes, edges, index>>
vars == <<options, records, gpc, gloc, clashed, loose>>

-----------------------------------------------------------------------------
EdgeRecords == [source : Nodes, target : Nodes]

Ops == {"addEdge", "import", "removeEdge", "removeNode", "updateEdge", "updateNode", "clear"}
Labels == {"idle", "hasSource", "hasTarget", "createSource", "createTarget", "setEdge",
           "getList", "setList", "recheckSource", "recheckTarget", "getEdge", "unlist",
           "saveList", "deleteEdge", "getNode", "list", "relist", "nextEdge", "deleteNode",
           "readNode", "writeNode", "readEdge", "writeEdge",
           "clearNodes", "clearEdges", "clearOut", "clearIn", "done", "failed"}

Fresh == [op |-> "none", node |-> None, edge |-> None, source |-> None, target |-> None,
          missing |-> {}, side |-> "out", read |-> {}, todo |-> {}, again |-> FALSE,
          unseen |-> {}]

GraphTypeOK ==
    /\ options \in [autoCreate : BOOLEAN, cascade : BOOLEAN]
    /\ nodes \subseteq Nodes
    /\ edges \in [Edges -> EdgeRecords \cup {None}]
    /\ index \in [Lists -> SUBSET Edges]
    /\ gpc \in [Tasks -> Labels]
    /\ gloc \in [Tasks -> [op : Ops \cup {"none"}, node : Nodes \cup {None},
                          edge : Edges \cup {None}, source : Nodes \cup {None},
                          target : Nodes \cup {None}, missing : SUBSET Nodes,
                          side : {"out", "in"}, read : SUBSET Edges, todo : SUBSET Edges,
                          again : BOOLEAN, unseen : SUBSET Edges]]
    /\ clashed \subseteq Lists
    /\ loose \subseteq Edges

\* A graph that calls made one at a time have left.
Init ==
    /\ options \in [autoCreate : BOOLEAN, cascade : BOOLEAN]
    /\ nodes \in SUBSET Nodes
    /\ edges \in [Edges -> EdgeRecords \cup {None}]
    /\ \A e \in StoredEdges : /\ edges[e].source \in nodes /\ edges[e].target \in nodes
                         /\ \A t \in Tasks : NewEdge(t) # e
    /\ index = [l \in Lists |->
                  {e \in StoredEdges : l[2] = IF l[1] = "out" THEN edges[e].source
                                                        ELSE edges[e].target}]
    /\ gpc = [t \in Tasks |-> "idle"]
    /\ gloc = [t \in Tasks |-> Fresh]
    /\ clashed = {}
    /\ loose = {}

-----------------------------------------------------------------------------
Ended == {"done", "failed"}
Running(op) == {t \in Tasks : gloc[t].op = op}
Adding == Running("addEdge") \cup Running("import")
Touches(t, n) == n \in {gloc[t].source, gloc[t].target}

Jump(t, label, locals) ==
    /\ gpc' = [gpc EXCEPT ![t] = label]
    /\ gloc' = [gloc EXCEPT ![t] = IF label \in Ended THEN Fresh ELSE locals]
Goto(t, label) == Jump(t, label, gloc[t])

Call(o, n, e, s, d) ==
    [Fresh EXCEPT !.op = o, !.node = n, !.edge = e, !.source = s, !.target = d]

\* import keeps the ids of its data: that of a stored edge, which may have other
\* ends, of one that is gone, or a new one; never one still to be generated.
EdgeIds(t) == {e \in Edges : \A u \in Tasks \ {t} : e = NewEdge(u) => gpc[u] # "idle"}

Additions(t) ==
    {Call("addEdge", None, NewEdge(t), s, d) : s \in Nodes, d \in Nodes}
    \cup {Call("import", None, e, s, d) : e \in EdgeIds(t), s \in Nodes, d \in Nodes}
OfEdges == {Call(o, None, e, None, None) : o \in {"removeEdge", "updateEdge"}, e \in Edges}
OfNodes == {Call(o, n, None, None, None) : o \in {"removeNode", "updateNode"}, n \in Nodes}

CallsOf(t) == Additions(t) \cup OfEdges \cup OfNodes \cup {Call("clear", None, None, None, None)}

First(op) ==
    CASE op \in {"addEdge", "import"} -> "hasSource"
      [] op = "removeEdge" -> "getEdge"
      [] op = "removeNode" -> "getNode"
      [] op = "updateEdge" -> "readEdge"
      [] op = "updateNode" -> "readNode"
      [] op = "clear" -> "clearNodes"

\* A removal that has looked for edges twice does not see one that is added from
\* now on, and an import overlaps with every call on the edge it brings.
Start(t, call) ==
    /\ gpc[t] = "idle"
    /\ gpc' = [gpc EXCEPT ![t] = First(call.op)]
    /\ gloc' = [u \in Tasks |->
                 IF u = t THEN call
                 ELSE IF call.source # None /\ gloc[u].again
                         /\ gloc[u].node \in {call.source, call.target}
                      THEN [gloc[u] EXCEPT !.unseen = @ \cup {call.edge}]
                 ELSE gloc[u]]
    /\ loose' = loose \cup {e \in Edges : /\ call.op = "import" /\ call.edge = e
                                         /\ \E u \in Tasks : gloc[u].edge = e}
    /\ UNCHANGED <<options, records, clashed>>

\* addNode and import: a record of its own.
PutNode(t, n) ==
    /\ gpc[t] = "idle" /\ n \notin nodes
    /\ nodes' = nodes \cup {n}
    /\ Goto(t, "done")
    /\ UNCHANGED <<options, edges, index, clashed, loose>>

(* addEdge.  import takes the same way without creating nodes and without  *)
(* the second look at them.                                               *)

Has(t, n, next) ==
    /\ Jump(t, next, [gloc[t] EXCEPT !.missing = @ \cup ({n} \ nodes)])
    /\ UNCHANGED <<options, records, clashed, loose>>

HasSource(t) == gpc[t] = "hasSource" /\ Has(t, gloc[t].source, "hasTarget")

HasTarget(t) ==
    LET l == gloc[t]
        absent == l.missing \cup ({l.target} \ nodes)
    IN  /\ gpc[t] = "hasTarget"
        /\ Has(t, l.target,
               CASE absent = {} -> "setEdge"
                 [] absent # {} /\ (~options.autoCreate \/ l.op = "import") -> "done"
                 [] OTHER -> IF l.source \in absent THEN "createSource" ELSE "createTarget")

Create(t) ==
    LET l == gloc[t]
        more == gpc[t] = "createSource" /\ l.target \in l.missing
    IN  /\ gpc[t] \in {"createSource", "createTarget"}
        /\ nodes' = nodes \cup {IF gpc[t] = "createSource" THEN l.source ELSE l.target}
        /\ Goto(t, IF more THEN "createTarget" ELSE "setEdge")
        /\ UNCHANGED <<options, edges, index, clashed, loose>>

\* An edge that import gives other ends stays in the lists of the old ones.
SetEdge(t) ==
    LET l == gloc[t]
        new == [source |-> l.source, target |-> l.target]
    IN  /\ gpc[t] = "setEdge"
        /\ edges' = [edges EXCEPT ![l.edge] = new]
        /\ loose' = loose \cup {e \in StoredEdges : e = l.edge /\ edges[e] # new}
        /\ Goto(t, "getList")
        /\ UNCHANGED <<options, nodes, index, clashed>>

ListOf(t) == <<gloc[t].side, IF gloc[t].side = "out" THEN gloc[t].source ELSE gloc[t].target>>

GetList(t) ==
    /\ gpc[t] = "getList"
    /\ Jump(t, "setList", [gloc[t] EXCEPT !.read = index[ListOf(t)]])
    /\ UNCHANGED <<options, records, clashed, loose>>

\* The list is written from what was read; a change in between is lost.
WriteList(t, list) ==
    /\ index' = [index EXCEPT ![ListOf(t)] = list]
    /\ clashed' = IF index[ListOf(t)] = gloc[t].read THEN clashed
                  ELSE clashed \cup {ListOf(t)}

\* Mutant: the incoming list is not kept.
SetListOnce(t) ==
    /\ gpc[t] = "setList"
    /\ WriteList(t, gloc[t].read \cup {gloc[t].edge})
    /\ Goto(t, "recheckSource")
    /\ UNCHANGED <<options, nodes, edges, loose>>

SetList(t) ==
    /\ gpc[t] = "setList"
    /\ WriteList(t, gloc[t].read \cup {gloc[t].edge})
    /\ IF gloc[t].side = "out"
       THEN Jump(t, "getList", [gloc[t] EXCEPT !.side = "in"])
       ELSE Jump(t, IF gloc[t].op = "import" THEN "done" ELSE "recheckSource",
                 [gloc[t] EXCEPT !.missing = {}])
    /\ UNCHANGED <<options, nodes, edges, loose>>

\* Mutant: the nodes are not looked up again.
RecheckNothing(t) ==
    /\ gpc[t] = "recheckSource"
    /\ Goto(t, "done")
    /\ UNCHANGED <<options, records, clashed, loose>>

RecheckSource(t) ==
    /\ gpc[t] = "recheckSource"
    /\ Has(t, gloc[t].source, "recheckTarget")

RecheckTarget(t) ==
    LET gone == gloc[t].missing \cup ({gloc[t].target} \ nodes) IN
    /\ gpc[t] = "recheckTarget"
    /\ Has(t, gloc[t].target, IF gone = {} THEN "done" ELSE "getEdge")

(* removeEdge, called by the application, by addEdge and by removeNode.    *)

\* Edges that another call is still adding.
HalfAdded(t) == {gloc[u].edge : u \in Adding \ {t}}

After(t) == IF gloc[t].op = "removeNode" THEN "nextEdge" ELSE "done"

GetEdge(t) ==
    LET e == gloc[t].edge IN
    /\ gpc[t] = "getEdge"
    /\ IF e \in StoredEdges
       THEN Jump(t, "unlist", [gloc[t] EXCEPT !.source = edges[e].source,
                                              !.target = edges[e].target, !.side = "out"])
       ELSE Goto(t, After(t))
    /\ loose' = loose \cup ({e} \cap StoredEdges \cap HalfAdded(t))
    /\ UNCHANGED <<options, records, clashed>>

Unlist(t) ==
    /\ gpc[t] = "unlist"
    /\ Jump(t, "saveList", [gloc[t] EXCEPT !.read = index[ListOf(t)]])
    /\ UNCHANGED <<options, records, clashed, loose>>

SaveList(t) ==
    /\ gpc[t] = "saveList"
    /\ WriteList(t, gloc[t].read \ {gloc[t].edge})
    /\ IF gloc[t].side = "out"
       THEN Jump(t, "unlist", [gloc[t] EXCEPT !.side = "in"])
       ELSE Goto(t, "deleteEdge")
    /\ UNCHANGED <<options, nodes, edges, loose>>

DeleteEdge(t) ==
    /\ gpc[t] = "deleteEdge"
    /\ edges' = [edges EXCEPT ![gloc[t].edge] = None]
    /\ Goto(t, After(t))
    /\ UNCHANGED <<options, nodes, index, clashed, loose>>

(* removeNode: every edge that is listed, a second look, then the node.    *)

GetNode(t) ==
    /\ gpc[t] = "getNode"
    /\ Goto(t, CASE gloc[t].node \notin nodes -> "done"
                 [] gloc[t].node \in nodes /\ options.cascade -> "list"
                 [] OTHER -> "deleteNode")
    /\ UNCHANGED <<options, records, clashed, loose>>

Listed(side, n) == {e \in index[<<side, n>>] : e \in StoredEdges}

\* Edges that a running call is still adding to n.
BeingAdded(n) == {gloc[u].edge : u \in {v \in Adding : Touches(v, n)}}

\* Incoming edges, then outgoing ones; on the second round too.
List(t) ==
    LET l == gloc[t] IN
    /\ gpc[t] = "list"
    /\ Jump(t, "relist", [l EXCEPT !.todo = Listed("in", l.node),
                                   !.unseen = IF l.again THEN BeingAdded(l.node) ELSE {}])
    /\ UNCHANGED <<options, records, clashed, loose>>

ListOut(t) ==
    /\ gpc[t] = "relist"
    /\ Jump(t, "nextEdge", [gloc[t] EXCEPT !.todo = @ \cup Listed("out", gloc[t].node)])
    /\ UNCHANGED <<options, records, clashed, loose>>

NextEdge(t) ==
    LET l == gloc[t] IN
    /\ gpc[t] = "nextEdge"
    /\ IF l.todo # {}
       THEN \E e \in l.todo : Jump(t, "getEdge", [l EXCEPT !.edge = e, !.todo = @ \ {e}])
       ELSE Jump(t, IF l.again THEN "deleteNode" ELSE "list", [l EXCEPT !.again = TRUE])
    /\ UNCHANGED <<options, records, clashed, loose>>

\* import does not look at its nodes again.
Unchecked(n) == {gloc[u].edge : u \in {v \in Running("import") : Touches(v, n)}}

\* Edges whose addEdge has not looked at n for the second time.
ToBeChecked(n) == {gloc[u].edge : u \in {v \in Running("addEdge") :
                                             gpc[v] = "recheckTarget" => gloc[v].target = n}}

DeleteNode(t) ==
    LET n == gloc[t].node IN
    /\ gpc[t] = "deleteNode"
    /\ nodes' = nodes \ {n}
    /\ loose' = loose \cup (gloc[t].unseen \ ToBeChecked(n)) \cup Unchecked(n)
    /\ Goto(t, "done")
    /\ UNCHANGED <<options, edges, index, clashed>>

(* updateNode and updateEdge write back the record they read.              *)

ReadNode(t) ==
    /\ gpc[t] = "readNode"
    /\ Goto(t, IF gloc[t].node \in nodes THEN "writeNode" ELSE "done")
    /\ UNCHANGED <<options, records, clashed, loose>>

WriteNode(t) ==
    /\ gpc[t] = "writeNode"
    /\ nodes' = nodes \cup {gloc[t].node}
    /\ Goto(t, "done")
    /\ UNCHANGED <<options, edges, index, clashed, loose>>

ReadEdge(t) ==
    LET e == gloc[t].edge IN
    /\ gpc[t] = "readEdge"
    /\ IF e \in StoredEdges
       THEN Jump(t, "writeEdge", [gloc[t] EXCEPT !.source = edges[e].source,
                                                 !.target = edges[e].target])
       ELSE Goto(t, "done")
    /\ UNCHANGED <<options, records, clashed, loose>>

WriteEdge(t) ==
    LET l == gloc[t] IN
    /\ gpc[t] = "writeEdge"
    /\ edges' = [edges EXCEPT ![l.edge] = [source |-> l.source, target |-> l.target]]
    /\ loose' = IF l.edge \in StoredEdges THEN loose ELSE loose \cup {l.edge}
    /\ Goto(t, "done")
    /\ UNCHANGED <<options, nodes, index, clashed>>

\* clear: four collections, one after the other.
Clear(t) ==
    /\ \/ /\ gpc[t] = "clearNodes" /\ Goto(t, "clearEdges")
          /\ nodes' = {}
          /\ loose' = loose \cup HalfAdded(t)
          /\ UNCHANGED <<edges, index>>
       \/ /\ gpc[t] = "clearEdges" /\ Goto(t, "clearOut")
          /\ edges' = [e \in Edges |-> None]
          /\ loose' = loose \cup HalfAdded(t)
          /\ UNCHANGED <<nodes, index>>
       \/ /\ gpc[t] \in {"clearOut", "clearIn"}
          /\ Goto(t, IF gpc[t] = "clearOut" THEN "clearIn" ELSE "done")
          /\ index' = [l \in Lists |->
                         IF l[1] = (IF gpc[t] = "clearOut" THEN "out" ELSE "in") THEN {}
                         ELSE index[l]]
          /\ loose' = loose \cup HalfAdded(t) \cup StoredEdges
          /\ UNCHANGED <<nodes, edges>>
    /\ UNCHANGED <<options, clashed>>

\* A record cannot be read or written: the call throws where it is.
Fail(t) ==
    /\ gpc[t] \notin Ended \cup {"idle"}
    /\ Goto(t, "failed")
    /\ loose' = loose \cup IF gloc[t].op = "clear" THEN Edges ELSE {gloc[t].edge} \ {None}
    /\ UNCHANGED <<options, records, clashed>>

Step(t) ==
    \/ HasSource(t) \/ HasTarget(t) \/ Create(t) \/ SetEdge(t) \/ GetList(t) \/ SetList(t)
    \/ RecheckSource(t) \/ RecheckTarget(t)
    \/ GetEdge(t) \/ Unlist(t) \/ SaveList(t) \/ DeleteEdge(t)
    \/ GetNode(t) \/ List(t) \/ ListOut(t) \/ NextEdge(t) \/ DeleteNode(t)
    \/ ReadNode(t) \/ WriteNode(t) \/ ReadEdge(t) \/ WriteEdge(t) \/ Clear(t)

Next ==
    \E t \in Tasks :
        \/ \E n \in Nodes : PutNode(t, n)
        \/ \E call \in CallsOf(t) : Start(t, call)
        \/ Step(t)
        \/ Fail(t)

Spec == Init /\ [][Next]_vars

=============================================================================
