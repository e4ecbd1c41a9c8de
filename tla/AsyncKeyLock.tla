---------------------------- MODULE AsyncKeyLock ----------------------------
(***************************************************************************)
(* The per-key async mutex of src/utils/async-lock.ts.                     *)
(*                                                                         *)
(* `locks' maps a name to the promise of its current owner.  A promise is  *)
(* resolved in the same synchronous block that removes it from the map, so *)
(* the owner identifies it and the calls that wait on it are exactly the   *)
(* calls in state "awaiting" on that name.  Resolving it makes all of them *)
(* runnable; each one then tests the map again, in any order, and a call   *)
(* that never waited may test it first.                                    *)
(***************************************************************************)
CONSTANTS Names, Callers, Free

ASSUME FreeIsNoCaller == Free \notin Callers

VARIABLES
    locks,      \* the Map: name -> owner of the promise, or Free
    state,      \* where each acquire call is
    name        \* the name each call asked for

vars == <<locks, state, name>>

States == {"idle", "awaiting", "runnable", "owner"}

TypeOK ==
    /\ locks \in [Names -> Callers \cup {Free}]
    /\ state \in [Callers -> States]
    /\ name \in [Callers -> Names]

Init ==
    /\ locks = [n \in Names |-> Free]
    /\ state = [c \in Callers |-> "idle"]
    /\ name \in [Callers -> Names]

\* The test of the while loop, up to the next await or the return.
TestAndSet(c, n) ==
    IF locks[n] = Free
    THEN /\ locks' = [locks EXCEPT ![n] = c]
         /\ state' = [state EXCEPT ![c] = "owner"]
    ELSE /\ state' = [state EXCEPT ![c] = "awaiting"]
         /\ UNCHANGED locks

\* Mutant: the call notes itself instead of the name.
AcquireMistyped(c, n) ==
    /\ state[c] = "idle"
    /\ name' = [name EXCEPT ![c] = c]
    /\ TestAndSet(c, n)

Acquire(c, n) ==
    /\ state[c] = "idle"
    /\ name' = [name EXCEPT ![c] = n]
    /\ TestAndSet(c, n)

\* Mutant: `if' instead of `while': a resumed call does not test the map again.
ResumeUntested(c) ==
    /\ state[c] = "runnable"
    /\ locks' = [locks EXCEPT ![name[c]] = c]
    /\ state' = [state EXCEPT ![c] = "owner"]
    /\ UNCHANGED name

Resume(c) ==
    /\ state[c] = "runnable"
    /\ TestAndSet(c, name[c])
    /\ UNCHANGED name

\* Mutant: the entry is deleted and the promise never resolved.
ReleaseSilent(c) ==
    /\ state[c] = "owner"
    /\ locks' = [locks EXCEPT ![name[c]] = Free]
    /\ state' = [state EXCEPT ![c] = "idle"]
    /\ UNCHANGED name

\* Delete the entry, then resolve the promise.
Release(c) ==
    /\ state[c] = "owner"
    /\ locks' = [locks EXCEPT ![name[c]] = Free]
    /\ state' = [d \in Callers |->
                    IF d = c THEN "idle"
                    ELSE IF state[d] = "awaiting" /\ name[d] = name[c]
                         THEN "runnable" ELSE state[d]]
    /\ UNCHANGED name

Next ==
    \E c \in Callers :
        \/ \E n \in Names : Acquire(c, n)
        \/ Resume(c)
        \/ Release(c)

\* Every microtask runs, and every owner releases in a finally block.
Fairness == \A c \in Callers : WF_vars(Resume(c)) /\ WF_vars(Release(c))

Spec == Init /\ [][Next]_vars /\ Fairness

-----------------------------------------------------------------------------
(* The lock implements the mutex its callers assume. *)
Mutex == INSTANCE KeyMutex WITH holder <- locks

\* Every step of the lock is a Take, a Drop or a step that changes no owner.
ImplementsMutex == Mutex!Spec

\* Two calls never own the same name, and the map's entry is the owner's:
\* the entry another call tests is never one that a stale release removed.
MutualExclusion ==
    \A c \in Callers, n \in Names :
        (state[c] = "owner" /\ name[c] = n) <=> locks[n] = c

\* A call awaits only a promise that somebody still has to resolve: a wakeup
\* is never lost between the test of the map and the await.
NoLostWakeup ==
    \A c \in Callers : state[c] = "awaiting" => locks[name[c]] # Free

\* A call that waits is resumed, although it may find the name taken again.
WaitersResume ==
    \A c \in Callers : state[c] = "awaiting" ~> state[c] = "runnable"
=============================================================================
