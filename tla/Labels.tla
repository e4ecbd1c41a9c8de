------------------------------- MODULE Labels -------------------------------
(***************************************************************************)
(* The labels of the items of one inbox, under everything that writes      *)
(* them: dispatchItem (dispatch.ts) with its rules, stamp and sink, the    *)
(* edits of one item (http-routes.ts, quarantine.ts), and the paged walks  *)
(* of the unread sweep, read-all and the retroactive rule.                 *)
(*                                                                         *)
(* Only labels are kept of an item.  _ingest and delete are one step each: *)
(* module Inbox takes them apart.  So is the scan of a query, up to the    *)
(* page it found; the page is then read again, as in the code.  Each task  *)
(* makes one call.                                                         *)
(***************************************************************************)
EXTENDS LabelsState, Naturals, Sequences, FiniteSets

CONSTANTS
    Order,           \* the items in the order of the index, newest first
    Aged,            \* the items older than the cutoff of the sweep
    PageLimit,       \* items of a page: 500, or 100 for a rule
    HardCap          \* items that a sweep or a read-all handles at most

\* The label of a rule, and of the tag call, is "archived".
Marks == {"unread", "quarantined", "spam", "archived"}

LabelsAssumption ==
    /\ None \notin Items /\ \A s \in SUBSET Marks : s # None
    /\ Order \in Seq(Items) /\ {Order[k] : k \in 1..Len(Order)} = Items
    /\ \A j, k \in 1..Len(Order) : Order[j] = Order[k] => j = k
    /\ {PageLimit, HardCap} \subseteq Nat \ {0}
    /\ Aged \subseteq Items

VARIABLES lpc, lloc  \* where each call is, and its local variables

vars == <<labels, lpc, lloc, missed, read>>

-----------------------------------------------------------------------------
Stored == {i \in Items : labels[i] # None}

Edits == {"read", "unread", "quarantine", "restore", "spam", "notSpam", "tag", "untag", "note"}
Walks == {"sweep", "readAll", "rule"}
Readers == {"read", "readMany", "sweep", "readAll"}
Ops == Edits \cup Walks \cup {"deliver", "readMany", "delete"}

Ended == {"done", "failed"}
Steps == {"idle", "hooks", "put", "delete", "look", "get", "save", "ids", "query", "hydrate",
          "page"} \cup Ended
\* A page is a set of positions of Order, and items is what was read at each.
Positions == 1..Len(Order)
Fresh == [op |-> "none", id |-> None, got |-> {}, ids |-> {}, page |-> {},
          items |-> [k \in {} |-> None], cursor |-> None, more |-> FALSE, matched |-> 0,
          pending |-> {}, stale |-> {}]

LabelsTypeOK ==
    /\ labels \in [Items -> (SUBSET Marks) \cup {None}]
    /\ lpc \in [Tasks -> Steps]
    /\ \A t \in Tasks :
          LET l == lloc[t] IN
          /\ l.op \in Ops \cup {"none"} /\ l.id \in Items \cup {None}
          /\ l.got \subseteq Marks /\ l.ids \subseteq Items
          /\ l.page \subseteq Positions /\ Cardinality(l.page) <= PageLimit
          /\ \E at \in SUBSET Positions : l.items \in [at -> (SUBSET Marks) \cup {None}]
          /\ lpc[t] = "page" => DOMAIN l.items = l.page
          /\ l.cursor \in Items \cup {None} /\ l.more \in BOOLEAN
          /\ l.matched \in Nat /\ {l.pending, l.stale} \subseteq SUBSET Items
    /\ {missed, read} \subseteq SUBSET Items

Init ==
    /\ labels \in [Items -> (SUBSET Marks) \cup {None}]
    /\ lpc = [t \in Tasks |-> "idle"]
    /\ lloc = [t \in Tasks |-> Fresh]
    /\ missed = {} /\ read = {}

-----------------------------------------------------------------------------
(* What each call does to the labels it has read.                          *)

Edited(op, s) ==
    CASE op \in Readers -> s \ {"unread"}
      [] op = "unread" -> s \cup {"unread"}
      [] op = "quarantine" -> s \cup {"quarantined"}
      [] op = "restore" -> s \ {"quarantined"}
      [] op = "spam" -> s \cup {"spam"}
      [] op = "notSpam" -> s \ {"spam", "quarantined"}
      [] op \in {"tag", "rule"} -> s \cup {"archived"}
      [] op = "untag" -> s \ {"archived"}
      [] op = "note" -> s

\* The tag route, quarantineItem and a note write whatever they have read.
Writes(op, s) == op \in {"tag", "untag", "quarantine", "note"} \/ Edited(op, s) # s

\* The filter of a walk.
Matches(op, i) ==
    /\ i \in Stored
    /\ op # "rule" => "unread" \in labels[i]
    /\ op = "sweep" => i \in Aged

-----------------------------------------------------------------------------
Jump(t, label, l) ==
    /\ lpc' = [lpc EXCEPT ![t] = label]
    /\ lloc' = [lloc EXCEPT ![t] = IF label \in Ended THEN Fresh ELSE l]

\* Item i gets the labels s: the others that have read it have read the past.
Store(t, i, s, label, l) ==
    /\ labels' = [labels EXCEPT ![i] = s]
    /\ lpc' = [lpc EXCEPT ![t] = label]
    /\ lloc' = [u \in Tasks |->
                 IF u = t THEN IF label \in Ended THEN Fresh
                               ELSE [l EXCEPT !.pending = @ \ {i}]
                 ELSE IF lpc[u] \in Ended \cup {"idle"} THEN lloc[u]
                 ELSE [lloc[u] EXCEPT !.pending = @ \ {i}, !.stale = @ \cup {i}]]
    /\ read' = IF l.op = "delete" \/ i \in l.stale \/ l.op = "unread"
               THEN read \ {i}
               ELSE IF l.op \in Readers THEN read \cup {i} ELSE read

First(op) ==
    CASE op = "deliver" -> "hooks"
      [] op = "delete" -> "delete"
      [] op = "note" -> "look"
      [] op = "readMany" -> "ids"
      [] op \in Walks -> "query"
      [] OTHER -> "get"

Start(t, call) ==
    /\ lpc[t] = "idle"
    /\ Jump(t, First(call.op), call)
    /\ UNCHANGED <<labels, missed, read>>

StartOne(t) ==
    \E op \in Edits \cup {"deliver", "delete"}, i \in Items :
        Start(t, [Fresh EXCEPT !.op = op, !.id = i])

StartMany(t) ==
    \E ids \in (SUBSET Items) \ {{}} : Start(t, [Fresh EXCEPT !.op = "readMany", !.ids = ids])

\* What a walk that begins now has to change.
Owed(op) == {i \in Items : Matches(op, i) /\ Writes(op, labels[i])}

StartWalk(t) ==
    \E op \in Walks : Start(t, [Fresh EXCEPT !.op = op, !.pending = Owed(op)])

-----------------------------------------------------------------------------
(* dispatchItem, and the sink of the inbox.                                *)

\* Rules add labels before the stamp is decided, and a hook's quarantine comes
\* after it; so an item that a hook quarantines is unread as well.
Delivered ==
    {{"unread"}, {"unread", "quarantined"}}
        \cup {s \in SUBSET {"quarantined", "archived"} : s # {}}

\* Mutant: the sink stores what is delivered, known or not.
HooksNoDedup(t) ==
    /\ lpc[t] = "hooks"
    /\ \/ Jump(t, "done", Fresh)
       \/ \E s \in Delivered : Jump(t, "put", [lloc[t] EXCEPT !.got = s, !.stale = {}])
    /\ UNCHANGED <<labels, missed, read>>

\* A hook or a rule drops the item, or the classifier throws; else the sink
\* asks for the item, and one that is stored stays as it is.
Hooks(t) ==
    /\ lpc[t] = "hooks"
    /\ \/ Jump(t, "done", Fresh)
       \/ /\ lloc[t].id \notin Stored
          /\ \E s \in Delivered : Jump(t, "put", [lloc[t] EXCEPT !.got = s, !.stale = {}])
    /\ UNCHANGED <<labels, missed, read>>

Put(t) ==
    /\ lpc[t] = "put"
    /\ Store(t, lloc[t].id, lloc[t].got, "done", lloc[t])
    /\ UNCHANGED missed

Delete(t) ==
    LET l == lloc[t] IN
    /\ lpc[t] = "delete"
    /\ IF l.id \in Stored THEN Store(t, l.id, None, "done", l)
       ELSE Jump(t, "done", Fresh) /\ UNCHANGED <<labels, read>>
    /\ UNCHANGED missed

-----------------------------------------------------------------------------
(* Edits: an item is read, and written whole.                              *)

\* The note route first asks whether the item exists.
Look(t) ==
    /\ lpc[t] = "look"
    /\ Jump(t, IF lloc[t].id \in Stored THEN "get" ELSE "done", lloc[t])
    /\ UNCHANGED <<labels, missed, read>>

NextId(t) ==
    /\ lpc[t] = "ids"
    /\ \E i \in lloc[t].ids : Jump(t, "get", [lloc[t] EXCEPT !.id = i, !.ids = @ \ {i}])
    /\ UNCHANGED <<labels, missed, read>>

After(l) == IF l.ids = {} THEN "done" ELSE "ids"

Get(t) ==
    LET l == lloc[t] IN
    /\ lpc[t] = "get"
    /\ IF l.id \in Stored /\ Writes(l.op, labels[l.id])
       THEN /\ Jump(t, "save", [l EXCEPT !.got = labels[l.id], !.stale = @ \ {l.id}])
            /\ UNCHANGED read
       ELSE /\ Jump(t, After(l), l)
            /\ read' = IF l.id \in Stored /\ l.op \in Readers THEN read \cup {l.id} ELSE read
    /\ UNCHANGED <<labels, missed>>

Save(t) ==
    LET l == lloc[t] IN
    /\ lpc[t] = "save"
    /\ Store(t, l.id, Edited(l.op, l.got), After(l), l)
    /\ UNCHANGED missed

-----------------------------------------------------------------------------
(* The walks.  A page starts after the cursor, or at the top when the item *)
(* of the cursor is no longer there.                                       *)

\* Mutant: a cursor that is gone ends the walk.
StartIndexEnd(cursor) ==
    IF cursor = None THEN 1
    ELSE IF cursor \in Stored THEN 1 + CHOOSE k \in Positions : Order[k] = cursor
    ELSE Len(Order) + 1

StartIndex(cursor) ==
    IF cursor \in Stored THEN 1 + CHOOSE k \in Positions : Order[k] = cursor ELSE 1

\* The two loops that mark items read stop here, before the next item.
Capped(l) == l.op # "rule" /\ l.matched >= HardCap

Over(t, l) ==
    /\ Jump(t, "done", Fresh)
    /\ missed' = missed \cup l.pending

\* Mutant: the item that tells whether there are more stays in the page.
PageUnsliced(page, found) ==
    /\ Cardinality(page) <= PageLimit + 1
    /\ page # found => Cardinality(page) = PageLimit + 1
    /\ \A k \in page, j \in found \ page : k < j

\* The first positions that match: a page full, or all when there are fewer.
Page(page, found) ==
    /\ Cardinality(page) <= PageLimit
    /\ page # found => Cardinality(page) = PageLimit
    /\ \A k \in page, j \in found \ page : k < j

Query(t) ==
    LET l == lloc[t]
        found == {k \in StartIndex(l.cursor)..Len(Order) : Matches(l.op, Order[k])}
    IN  /\ lpc[t] = "query"
        /\ \/ found = {} /\ Over(t, l)
           \/ \E page \in SUBSET found : \E last \in page :
                 /\ Page(page, found)
                 /\ \A k \in page : k <= last
                 /\ Jump(t, "hydrate", [l EXCEPT !.page = page, !.more = page # found,
                                                !.cursor = Order[last]])
                 /\ UNCHANGED missed
        /\ UNCHANGED <<labels, read>>

\* The items of the page are read again.  One that is gone by now is null,
\* and the walk that reaches it throws.
Hydrate(t) ==
    LET l == lloc[t] IN
    /\ lpc[t] = "hydrate"
    /\ Jump(t, "page", [l EXCEPT !.items = [k \in l.page |-> labels[Order[k]]],
                                 !.stale = {}])
    /\ UNCHANGED <<labels, missed, read>>

IsNext(l, k) == k \in l.page /\ \A j \in l.page : k <= j

HandleItem(t) ==
    LET l == lloc[t] IN
    /\ lpc[t] = "page" /\ ~Capped(l)
    /\ \E k \in l.page :
          LET rest == [l EXCEPT !.page = @ \ {k}, !.items = [j \in l.page \ {k} |-> l.items[j]],
                                !.matched = @ + 1]
          IN  /\ IsNext(l, k) /\ l.items[k] # None
              /\ IF Writes(l.op, l.items[k])
                 THEN Store(t, Order[k], Edited(l.op, l.items[k]), "page", rest)
                 ELSE Jump(t, "page", rest) /\ UNCHANGED <<labels, read>>
    /\ UNCHANGED missed

NullItem(t) ==
    LET l == lloc[t] IN
    /\ lpc[t] = "page" /\ ~Capped(l)
    /\ \E k \in l.page : IsNext(l, k) /\ l.items[k] = None
    /\ Jump(t, "failed", Fresh)
    /\ UNCHANGED <<labels, missed, read>>

\* A rule cannot get stuck: no page ends at the cursor it starts after.
NextPage(t) ==
    LET l == lloc[t] IN
    /\ lpc[t] = "page" /\ (l.page = {} \/ Capped(l))
    /\ IF Capped(l) THEN Jump(t, "done", Fresh) /\ UNCHANGED missed
       ELSE IF l.more THEN Jump(t, "query", l) /\ UNCHANGED missed
       ELSE Over(t, l)
    /\ UNCHANGED <<labels, read>>

\* A read or a write of the storage throws.
Fail(t) ==
    /\ lpc[t] \notin Ended \cup {"idle", "ids"}
    /\ Jump(t, "failed", Fresh)
    /\ UNCHANGED <<labels, missed, read>>

Next ==
    \E t \in Tasks :
        \/ StartOne(t) \/ StartMany(t) \/ StartWalk(t)
        \/ Hooks(t) \/ Put(t) \/ Delete(t) \/ Look(t) \/ NextId(t) \/ Get(t) \/ Save(t)
        \/ Query(t) \/ Hydrate(t) \/ HandleItem(t) \/ NullItem(t) \/ NextPage(t)
        \/ Fail(t)

Spec == Init /\ [][Next]_vars

=============================================================================
