---------------------------- MODULE MirrorState ----------------------------
(* What runMirror (src/messaging/mirror.ts) reads and writes, and what must *)
(* be true of it; module Mirror has the runs.                               *)
EXTENDS RecordCalls, Naturals

CONSTANTS
    Slugs,
    Others           \* .md files that someone else put there

VARIABLES
    config,          \* include_index, include_recent, prune_orphans
    inbox,           \* what items each slug has: 0 when there are none
    beyond,          \* slugs with items that are older than the newest 10_000
    files,           \* what the peer has: for each name a version, 0 of old, or None
    mirrored         \* history: nothing has happened since a run that had no trouble

Names == Slugs \cup Others \cup {"index", "recent"}

\* The files of some items.  A slug may be called index or recent: its page is
\* put over the index, and the list of recent items over its page.
FilesOf(items) ==
    [n \in Names |->
        IF n = "recent" /\ config.recent THEN 0
        ELSE IF n \in Slugs /\ items[n] > 0 THEN items[n]
        ELSE IF n = "index" /\ config.index THEN 0
        ELSE None]

\* What the peer should have.
Wanted == FilesOf(inbox)

\* The files that a run must leave right: not the page of a slug whose items it
\* does not all read, and not a summary that is not asked for, which the code
\* deletes and the comment at mirror.ts:63 says it keeps.
Followed ==
    {n \in Names : \/ n = "recent" /\ config.recent
                   \/ n \notin beyond /\ (Wanted[n] = None => n \notin {"index", "recent"})}

(* MirrorFollowsInbox: after a run that met no failure, ran while the items *)
(* stayed as they were and met no run of another process, the peer has the  *)
(* current page of every slug whose items are all among the newest 10_000   *)
(* and the summaries that are asked for, and with prune_orphans no other    *)
(* page; runs of the same process can be as many as they like               *)
(* (mirror.ts:173).                                                         *)
MirrorFollowsInbox ==
    mirrored => \A n \in Followed :
                   Wanted[n] # None \/ config.prune => files[n] = Wanted[n]
=============================================================================
