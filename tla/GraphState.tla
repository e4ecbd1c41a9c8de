----------------------------- MODULE GraphState -----------------------------
(* The records of GraphStore (src/graph/store.ts), the calls in progress,   *)
(* and what must be true of them; module Graph has the calls.               *)
EXTENDS RecordCalls

CONSTANTS Nodes, Edges

VARIABLES
    options,    \* autoCreateNodes, cascadeDelete
    nodes,      \* the stored nodes
    edges,      \* the stored edges: [source, target], or None
    index,      \* "out" and "in": for each node the edges listed for it
    gpc, gloc,  \* where each call is, and its local variables
    clashed,    \* history: lists of which an update was lost
    loose       \* history: edges whose calls overlapped where nothing orders them,
                \* and edges that an import gave other ends

Lists == {"out", "in"} \X Nodes
StoredEdges == {e \in Edges : edges[e] # None}

-----------------------------------------------------------------------------
\* No call runs.
Quiet == \A t \in Tasks : gpc[t] \in {"idle", "done", "failed"}

\* No failure, overlap or lost update of a list concerns the edge e from s to d,
\* and no import has moved it there.
Sound(e, s, d) == e \notin loose /\ <<"out", s>> \notin clashed /\ <<"in", d>> \notin clashed

(* EdgesAnchored: with cascading removals, an edge and the removal of one   *)
(* of its nodes leave no edge without its node, unless the edge was being   *)
(* added while the removal took its second look, a call failed on it, an    *)
(* import gave it other ends or ran beside another call on it, or one of    *)
(* the lists that name it lost an update: the second look of removeNode     *)
(* (store.ts:343) and the one of addEdge (store.ts:452) cover every other   *)
(* order of the two.                                                        *)
EdgesAnchored ==
    (Quiet /\ options.cascade) =>
        \A e \in StoredEdges :
            Sound(e, edges[e].source, edges[e].target)
                => edges[e].source \in nodes /\ edges[e].target \in nodes

(* ListsMatchEdges: when no call runs, a stored edge is in the list of its  *)
(* source and of its target, and a list names only stored edges, with the   *)
(* same exceptions: an edge that import writes over a stored one with other *)
(* ends stays in the lists of the old ends for good (store.ts:850).         *)
ListsMatchEdges ==
    Quiet =>
        /\ \A e \in StoredEdges :
              Sound(e, edges[e].source, edges[e].target)
                  => /\ e \in index[<<"out", edges[e].source>>]
                     /\ e \in index[<<"in", edges[e].target>>]
        /\ \A l \in Lists \ clashed : index[l] \ loose \subseteq StoredEdges
=============================================================================
