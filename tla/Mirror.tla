------------------------------- MODULE Mirror -------------------------------
(***************************************************************************)
(* runMirror of src/messaging/mirror.ts: the pages of an inbox are pushed  *)
(* to one peer, and the peer's directory is pruned.  Cron and an admin     *)
(* call start it, in one or more processes; the in-flight promise keeps    *)
(* runs apart within a process.                                            *)
(*                                                                         *)
(* A page is one file with the version of the slug it shows.  A step is    *)
(* the query or one request to the peer, with the code up to the next.     *)
(***************************************************************************)
EXTENDS MirrorState, Naturals

CONSTANTS
    Process(_),      \* the process of a task's run
    MaxVersion,      \* bound: the different contents of a slug
    MaxTroubles      \* bound: changes of the inbox, failed requests and crashes

MirrorAssumption ==
    /\ MaxVersion \in Nat \ {0} /\ MaxTroubles \in Nat
    /\ None \notin Tasks \cup (0..MaxVersion)
    /\ Others \cap (Slugs \cup {"index", "recent"}) = {}

VARIABLES
    inFlight,        \* inFlightMirror of each process: the run, or None
    mpc, mloc,       \* where each run is, and its local variables
    troubles         \* counts what MaxTroubles bounds

vars == <<config, inbox, beyond, files, inFlight, mpc, mloc, troubles, mirrored>>

-----------------------------------------------------------------------------
Versions == 0..MaxVersion
Processes == {Process(r) : r \in Tasks}
Groups(items) == {s \in Slugs : items[s] > 0}

Ended == {"done", "failed", "skipped"}
Labels == {"idle", "query", "index", "pages", "recent", "list", "prune"} \cup Ended
Fresh == [items |-> [s \in Slugs |-> 0], todo |-> {}, active |-> {}, clean |-> FALSE]

MirrorTypeOK ==
    /\ config \in [index : BOOLEAN, recent : BOOLEAN, prune : BOOLEAN]
    /\ inbox \in [Slugs -> Versions]
    /\ beyond \subseteq Groups(inbox)
    /\ files \in [Names -> Versions \cup {None}]
    /\ inFlight \in [Processes -> Tasks \cup {None}]
    /\ mpc \in [Tasks -> Labels]
    /\ mloc \in [Tasks -> [items : [Slugs -> Versions], todo : SUBSET Names,
                         active : SUBSET Names, clean : BOOLEAN]]
    /\ troubles \in 0..MaxTroubles
    /\ mirrored \in BOOLEAN

Init ==
    /\ config \in [index : BOOLEAN, recent : BOOLEAN, prune : BOOLEAN]
    /\ inbox \in [Slugs -> {0, 1}]
    /\ beyond \in SUBSET Groups(inbox)
    /\ files \in [Names -> {0, None}]
    /\ inFlight = [p \in Processes |-> None]
    /\ mpc = [r \in Tasks |-> "idle"]
    /\ mloc = [r \in Tasks |-> Fresh]
    /\ troubles = 0
    /\ mirrored = FALSE

-----------------------------------------------------------------------------
Running == {r \in Tasks : mpc[r] \notin Ended \cup {"idle"}}
Elsewhere(r) == {u \in Running : Process(u) # Process(r)}

Trouble == troubles < MaxTroubles /\ troubles' = troubles + 1

Jump(r, label, locals) ==
    /\ mpc' = [mpc EXCEPT ![r] = label]
    /\ mloc' = [mloc EXCEPT ![r] = IF label \in Ended THEN Fresh ELSE locals]

\* The run is over before it did anything, and its finally clause has run.
End(r, label) ==
    /\ Jump(r, label, Fresh)
    /\ inFlight' = [inFlight EXCEPT ![Process(r)] = None]
    /\ mirrored' = FALSE

\* The items of a slug change; its last one may go, and with a new one others
\* get too old for the query.  No run is clean then.
ItemsChange(s, v) ==
    /\ Trouble /\ v # inbox[s]
    /\ inbox' = [inbox EXCEPT ![s] = v]
    /\ beyond' \in SUBSET Groups(inbox')
    /\ mirrored' = FALSE
    /\ mloc' = [r \in Tasks |-> [mloc[r] EXCEPT !.clean = FALSE]]
    /\ UNCHANGED <<config, files, inFlight, mpc>>

\* Mutant: the promise of another run is not looked for.
StartAnyway(r) ==
    /\ mpc[r] = "idle"
    /\ mpc' = [mpc EXCEPT ![r] = "query"]
    /\ inFlight' = [inFlight EXCEPT ![Process(r)] = r]
    /\ mloc' = [u \in Tasks |->
                 IF u = r THEN [Fresh EXCEPT !.clean = (Elsewhere(r) = {})]
                 ELSE IF u \in Elsewhere(r) THEN [mloc[u] EXCEPT !.clean = FALSE]
                 ELSE mloc[u]]
    /\ mirrored' = FALSE
    /\ UNCHANGED <<config, inbox, beyond, files, troubles>>

\* Tasks of two processes know nothing of each other, and neither is clean.
Start(r) ==
    /\ mpc[r] = "idle"
    /\ IF inFlight[Process(r)] # None
       THEN Jump(r, "skipped", Fresh) /\ UNCHANGED <<inFlight, mirrored>>
       ELSE /\ mpc' = [mpc EXCEPT ![r] = "query"]
            /\ inFlight' = [inFlight EXCEPT ![Process(r)] = r]
            /\ mloc' = [u \in Tasks |->
                         IF u = r THEN [Fresh EXCEPT !.clean = (Elsewhere(r) = {})]
                         ELSE IF u \in Elsewhere(r) THEN [mloc[u] EXCEPT !.clean = FALSE]
                         ELSE mloc[u]]
            /\ mirrored' = FALSE
    /\ UNCHANGED <<config, inbox, beyond, files, troubles>>

\* The peer is disabled, its inbox is not registered, or its secret is missing.
NoPeer(r) ==
    /\ mpc[r] = "query"
    /\ End(r, "skipped")
    /\ UNCHANGED <<config, inbox, beyond, files, troubles>>

\* The newest 10_000 items: of a slug that has older ones, some items or none.
Newest ==
    {items \in [Slugs -> Versions] : \A s \in Slugs : items[s] # inbox[s] <=> s \in beyond}

\* The query starts the clean part of a run: only a change after it matters.
Query(r) ==
    LET l == mloc[r] IN
    /\ mpc[r] = "query"
    /\ \E items \in Newest :
          Jump(r, IF config.index THEN "index" ELSE "pages",
               [l EXCEPT !.items = items, !.todo = Groups(items),
                         !.clean = (Elsewhere(r) = {})])
    /\ UNCHANGED <<config, inbox, beyond, files, inFlight, troubles, mirrored>>

AfterPages == IF config.recent THEN "recent" ELSE IF config.prune THEN "list" ELSE "end"
AfterRecent == IF config.prune THEN "list" ELSE "end"

\* With nothing left to do the run returns.
Proceed(r, label, locals) ==
    IF label = "end"
    THEN /\ Jump(r, "done", Fresh)
         /\ inFlight' = [inFlight EXCEPT ![Process(r)] = None]
         /\ mirrored' = locals.clean
    ELSE Jump(r, label, locals) /\ UNCHANGED <<inFlight, mirrored>>

\* PUT of a file: ok, refused, or done although the answer is lost.
Push(r, name, version, label, locals) ==
    \/ /\ files' = [files EXCEPT ![name] = version]
       /\ Proceed(r, label, [locals EXCEPT !.active = @ \cup {name}])
       /\ UNCHANGED troubles
    \/ /\ Trouble
       /\ files' \in {files, [files EXCEPT ![name] = version]}
       /\ Proceed(r, label, [locals EXCEPT !.clean = FALSE])

PushIndex(r) ==
    /\ mpc[r] = "index"
    /\ Push(r, "index", 0, "pages", mloc[r])
    /\ UNCHANGED <<config, inbox, beyond>>

PushPage(r) ==
    LET l == mloc[r] IN
    /\ mpc[r] = "pages"
    /\ IF l.todo = {}
       THEN Proceed(r, AfterPages, l) /\ UNCHANGED <<files, troubles>>
       ELSE \E s \in l.todo : Push(r, s, l.items[s], "pages", [l EXCEPT !.todo = @ \ {s}])
    /\ UNCHANGED <<config, inbox, beyond>>

PushRecent(r) ==
    /\ mpc[r] = "recent"
    /\ Push(r, "recent", 0, AfterRecent, mloc[r])
    /\ UNCHANGED <<config, inbox, beyond>>

\* What the directory lists and this run did not push.
Orphans(r) ==
    {n \in Names : files[n] # None}
        \ (mloc[r].active \cup IF config.index THEN {"index"} ELSE {})

ListFiles(r) ==
    /\ mpc[r] = "list"
    /\ \/ /\ IF Orphans(r) = {} THEN Proceed(r, "end", mloc[r])
             ELSE Proceed(r, "prune", [mloc[r] EXCEPT !.todo = Orphans(r)])
          /\ UNCHANGED troubles
       \/ Trouble /\ Proceed(r, "end", [mloc[r] EXCEPT !.clean = FALSE])
    /\ UNCHANGED <<config, inbox, beyond, files>>

Prune(r) ==
    LET l == mloc[r] IN
    /\ mpc[r] = "prune"
    /\ \E n \in l.todo :
          LET rest == l.todo \ {n}
              label == IF rest = {} THEN "end" ELSE "prune"
          IN  \/ /\ files' = [files EXCEPT ![n] = None]
                 /\ Proceed(r, label, [l EXCEPT !.todo = rest])
                 /\ UNCHANGED troubles
              \/ /\ Trouble
                 /\ files' \in {files, [files EXCEPT ![n] = None]}
                 /\ Proceed(r, label, [l EXCEPT !.todo = rest, !.clean = FALSE])
    /\ UNCHANGED <<config, inbox, beyond>>

\* Mutant: the promise is forgotten only after a run that succeeds.
ThrowHeld(r) ==
    /\ mpc[r] = "query"
    /\ Trouble /\ Jump(r, "failed", Fresh)
    /\ mirrored' = FALSE
    /\ UNCHANGED <<config, inbox, beyond, files, inFlight>>

\* The list of peers or the query throws: all else is caught.
Throw(r) ==
    /\ mpc[r] = "query"
    /\ Trouble /\ End(r, "failed")
    /\ UNCHANGED <<config, inbox, beyond, files>>

\* A process dies; the next one starts with nothing in flight.
Crash(p) ==
    /\ inFlight[p] # None
    /\ Trouble /\ End(inFlight[p], "failed")
    /\ UNCHANGED <<config, inbox, beyond, files>>

Step(r) ==
    \/ NoPeer(r) \/ Query(r) \/ PushIndex(r) \/ PushPage(r) \/ PushRecent(r)
    \/ ListFiles(r) \/ Prune(r) \/ Throw(r)

Next ==
    \/ \E s \in Slugs, v \in Versions : ItemsChange(s, v)
    \/ \E r \in Tasks : Start(r) \/ Step(r)
    \/ \E p \in Processes : Crash(p)

Spec == Init /\ [][Next]_vars

\* Requests and queries end; runs need not be started.
Fairness == \A r \in Tasks : WF_vars(Step(r))

-----------------------------------------------------------------------------
(* NothingInFlight: again and again no process holds a run in flight: no    *)
(* run, however it ends, keeps later runs of its process out for good       *)
(* (mirror.ts:183).                                                         *)
NothingInFlight == \A p \in Processes : inFlight[p] = None
=============================================================================
