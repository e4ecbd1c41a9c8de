------------------------- MODULE AsyncKeyLockProofs -------------------------
(* AsyncKeyLock is a mutex for any number of names and of callers: its     *)
(* invariants, and that it implements KeyMutex.                            *)
EXTENDS AsyncKeyLock, TLAPS

\* The three invariants are inductive together: a release frees only the
\* name its caller owns, hence exactly the calls awaiting that name must wake.
IInv ==
    /\ TypeOK
    /\ MutualExclusion
    /\ NoLostWakeup

LEMMA InitEstablishes == Init => IInv
  BY FreeIsNoCaller DEF Init, IInv, TypeOK, MutualExclusion, NoLostWakeup, States

\* The two outcomes of the test of the map, for a call that is neither awaiting
\* nor owner and whose name is (now) n.
LEMMA TestAndSetPreserves ==
  ASSUME IInv, NEW c \in Callers, NEW n \in Names,
         state[c] \in {"idle", "runnable"},
         name' = [name EXCEPT ![c] = n],
         TestAndSet(c, n)
  PROVE  IInv'
<1> USE FreeIsNoCaller DEF IInv, TypeOK
<1>1. CASE locks[n] = Free
  <2>1. /\ locks' = [locks EXCEPT ![n] = c]
        /\ state' = [state EXCEPT ![c] = "owner"]
    BY <1>1 DEF TestAndSet
  <2>2. TypeOK'
    BY <2>1 DEF States
  <2>3. MutualExclusion'
    BY <1>1, <2>1 DEF MutualExclusion, States
  <2>4. NoLostWakeup'
    BY <2>1 DEF NoLostWakeup, States
  <2> QED BY <2>2, <2>3, <2>4
<1>2. CASE locks[n] # Free
  <2>1. /\ locks' = locks
        /\ state' = [state EXCEPT ![c] = "awaiting"]
    BY <1>2 DEF TestAndSet
  <2>2. TypeOK'
    BY <2>1 DEF States
  <2>3. MutualExclusion'
    BY <2>1 DEF MutualExclusion, States
  <2>4. NoLostWakeup'
    BY <1>2, <2>1 DEF NoLostWakeup, States
  <2> QED BY <2>2, <2>3, <2>4
<1> QED BY <1>1, <1>2

LEMMA NextPreserves == IInv /\ [Next]_vars => IInv'
<1> SUFFICES ASSUME IInv, [Next]_vars PROVE IInv'
  OBVIOUS
<1>1. ASSUME NEW c \in Callers, NEW n \in Names, Acquire(c, n) PROVE IInv'
  BY <1>1, TestAndSetPreserves DEF Acquire
<1>2. ASSUME NEW c \in Callers, Resume(c) PROVE IInv'
  <2>1. name' = [name EXCEPT ![c] = name[c]]
    BY <1>2 DEF Resume, IInv, TypeOK
  <2>2. name[c] \in Names
    BY DEF IInv, TypeOK
  <2> QED BY <1>2, <2>1, <2>2, TestAndSetPreserves DEF Resume
<1>3. ASSUME NEW c \in Callers, Release(c) PROVE IInv'
  <2> USE FreeIsNoCaller, <1>3 DEF Release, IInv, TypeOK
  <2>1. locks[name[c]] = c
    BY DEF MutualExclusion
  <2>2. TypeOK'
    BY DEF States
  <2>3. MutualExclusion'
    BY <2>1 DEF MutualExclusion, States
  <2>4. NoLostWakeup'
    BY DEF NoLostWakeup, States
  <2> QED BY <2>2, <2>3, <2>4
<1>4. CASE UNCHANGED vars
  BY <1>4 DEF vars, IInv, TypeOK, MutualExclusion, NoLostWakeup
<1> QED BY <1>1, <1>2, <1>3, <1>4 DEF Next

LEMMA Inductive == Spec => []IInv
  BY InitEstablishes, NextPreserves, PTL DEF Spec

\* The map, the call states and the names keep their types.
THEOREM TypeCorrect == Spec => []TypeOK
  BY Inductive, PTL DEF IInv

\* async-lock.ts: the entry of the map is the owner's, for every name.
THEOREM Exclusive == Spec => []MutualExclusion
  BY Inductive, PTL DEF IInv

\* async-lock.ts: whoever awaits a promise awaits the one of a live owner.
THEOREM WakeupsKept == Spec => []NoLostWakeup
  BY Inductive, PTL DEF IInv

-----------------------------------------------------------------------------
(* Refinement.  Only an Acquire or Resume that finds the name free and a   *)
(* Release change the owners.                                              *)

LEMMA TestAndSetRefines ==
  ASSUME NEW c \in Callers, NEW n \in Names, TestAndSet(c, n)
  PROVE  [Mutex!Next]_locks
  BY DEF TestAndSet, Mutex!Next, Mutex!Take

LEMMA StepRefines == IInv /\ [Next]_vars => [Mutex!Next]_locks
<1> SUFFICES ASSUME IInv, [Next]_vars PROVE [Mutex!Next]_locks
  OBVIOUS
<1>1. ASSUME NEW c \in Callers, NEW n \in Names, Acquire(c, n)
      PROVE [Mutex!Next]_locks
  BY <1>1, TestAndSetRefines DEF Acquire
<1>2. ASSUME NEW c \in Callers, Resume(c) PROVE [Mutex!Next]_locks
  <2>1. name[c] \in Names
    BY DEF IInv, TypeOK
  <2> QED BY <1>2, <2>1, TestAndSetRefines DEF Resume
<1>3. ASSUME NEW c \in Callers, Release(c) PROVE [Mutex!Next]_locks
  <2>1. name[c] \in Names /\ locks[name[c]] = c
    BY <1>3 DEF IInv, TypeOK, MutualExclusion, Release
  <2>2. Mutex!Drop(c, name[c])
    BY <1>3, <2>1 DEF Release, Mutex!Drop
  <2> QED BY <2>1, <2>2 DEF Mutex!Next
<1>4. CASE UNCHANGED vars
  BY <1>4 DEF vars
<1> QED BY <1>1, <1>2, <1>3, <1>4 DEF Next

\* async-lock.ts implements the mutex its callers assume.
THEOREM LockImplementsMutex == Spec => ImplementsMutex
<1>1. Init => Mutex!Init
  BY DEF Init, Mutex!Init
<1> QED BY <1>1, StepRefines, Inductive, PTL DEF Spec, ImplementsMutex, Mutex!Spec
=============================================================================
