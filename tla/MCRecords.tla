----------------------------- MODULE MCRecords -----------------------------
(* Four stores that keep several records in step, each on its own: the      *)
(* behaviours of one are chosen by part; the episodes are those of the      *)
(* module extended.  Two tasks make one call each on two nodes and three    *)
(* edges, two episodes and a sequence, or three items; three mirror runs,   *)
(* one in a process of its own, push one slug.                              *)
EXTENDS Episodic, GraphState, LabelsState, MirrorState, Sequences

CONSTANTS t1, t2, n1, n2, e0, e1, e2, i1, i2, i3, r1, r2, r3, g1, x1

VARIABLES
    part,
    lpc, lloc,
    inFlight, mpc, mloc, troubles

MCNewEdge(t) == IF t = t1 THEN e1 ELSE e2
MCProcess(r) == IF r = r3 THEN "q" ELSE "p"

G == INSTANCE Graph WITH NewEdge <- MCNewEdge
L == INSTANCE Labels WITH
        Order <- <<i1, i2, i3>>,
        Aged <- {i2, i3}, PageLimit <- 1, HardCap <- 3
M == INSTANCE Mirror WITH
        Tasks <- {r1, r2, r3}, Process <- MCProcess,
        MaxVersion <- 2, MaxTroubles <- 1

ASSUME RecordsAssumption ==
    G!GraphAssumption /\ EpisodicAssumption /\ L!LabelsAssumption /\ M!MirrorAssumption

graphVars == <<options, nodes, edges, index, gpc, gloc, clashed, loose>>
episodicVars == vars
labelVars == <<labels, lpc, lloc, missed, read>>
mirrorVars == <<config, inbox, beyond, files, inFlight, mpc, mloc, troubles, mirrored>>

-----------------------------------------------------------------------------
MCInit ==
    /\ part \in {"graph", "episodes", "labels", "mirror"}
    /\ G!Init
    /\ IF part = "graph"
       THEN /\ options.cascade = options.autoCreate
            /\ StoredEdges = {} => nodes = {n1}
            /\ \A e \in StoredEdges : edges[e].source = n1
       ELSE nodes = {} /\ options = [autoCreate |-> TRUE, cascade |-> TRUE]
    /\ Init
    /\ part # "episodes" => autoBoost /\ sequences = {} /\ Stored = {}
    /\ L!Init
    /\ IF part = "labels"
       THEN labels[i1] = None /\ labels[i2] = {"unread"} /\ labels[i3] \in {None, {"unread"}}
       ELSE L!Stored = {}
    /\ M!Init
    /\ IF part = "mirror"
       THEN /\ files[x1] = 0 /\ files["index"] = files["recent"]
            /\ config.index = config.recent
       ELSE /\ config = [index |-> TRUE, recent |-> TRUE, prune |-> TRUE]
            /\ \A s \in Slugs : inbox[s] = 0
            /\ \A n \in Names : files[n] = None

MCNext ==
    /\ \/ /\ part = "graph" /\ G!Next
          /\ UNCHANGED <<episodicVars, labelVars, mirrorVars>>
       \/ /\ part = "episodes" /\ Next
          /\ UNCHANGED <<graphVars, labelVars, mirrorVars>>
       \/ /\ part = "labels" /\ L!Next
          /\ UNCHANGED <<graphVars, episodicVars, mirrorVars>>
       \/ /\ part = "mirror" /\ M!Next
          /\ UNCHANGED <<graphVars, episodicVars, labelVars>>
    /\ UNCHANGED part

MCVars == <<part, graphVars, episodicVars, labelVars, mirrorVars>>

MCSpec == MCInit /\ [][MCNext]_MCVars /\ Fairness /\ M!Fairness

-----------------------------------------------------------------------------
(* TypeOK: every record, local variable and history has its type.           *)
TypeOK == G!GraphTypeOK /\ EpisodicTypeOK /\ L!LabelsTypeOK /\ M!MirrorTypeOK

(* LocksAreReleased: a boost that waits for an episode gets it, and no      *)
(* mirror run keeps later ones out for good (episodic/store.ts:89,          *)
(* messaging/mirror.ts:183).                                                *)
LocksAreReleased == []<>(NobodyWaits /\ M!NothingInFlight)
=============================================================================
