------------------------------ MODULE KeyMutex ------------------------------
(***************************************************************************)
(* What a caller of AsyncKeyLock (src/utils/async-lock.ts) relies on: each *)
(* name is a mutex.  A caller that returned from acquire(name) owns the    *)
(* name until it calls the release function it was given.  The router and  *)
(* the episodic store are written against this module; AsyncKeyLock is     *)
(* shown to implement it.                                                  *)
(***************************************************************************)
CONSTANTS
    Names,      \* the keys that can be locked
    Callers,    \* the calls of acquire
    Free        \* "the map has no entry for this name"

VARIABLE holder \* which caller owns each name

TypeOK == holder \in [Names -> Callers \cup {Free}]

Init == holder = [n \in Names |-> Free]

Take(c, n) ==
    /\ holder[n] = Free
    /\ holder' = [holder EXCEPT ![n] = c]

Drop(c, n) ==
    /\ holder[n] = c
    /\ holder' = [holder EXCEPT ![n] = Free]

Next == \E c \in Callers, n \in Names : Take(c, n) \/ Drop(c, n)

Spec == Init /\ [][Next]_holder
=============================================================================
