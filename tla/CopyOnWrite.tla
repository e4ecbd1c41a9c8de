---------------------------- MODULE CopyOnWrite ----------------------------
(***************************************************************************)
(* What an application relies on when it works on an overlay               *)
(* (src/adapters/overlay.ts): a map whose changes stay apart from a base   *)
(* until a commit publishes them, key by key and unseen by readers.        *)
(*                                                                         *)
(* A write takes the overlay's entry off its key before it puts its own,   *)
(* so that readers may see the base's value in between, and it may fail    *)
(* at any moment.  Of the keys in `exposed' nothing is promised.           *)
(***************************************************************************)
CONSTANTS Keys, Content

VARIABLES
    base,       \* what the base holds
    shown,      \* what readers see
    coming,     \* for each key, what the writes under way are to leave there
    exposed     \* the keys on which calls met that must not overlap

Init ==
    /\ base \in [Keys -> Content]
    /\ shown \in [Keys -> Content]
    /\ coming = [k \in Keys |-> {}]
    /\ exposed = {}

\* A call begins.
Begin ==
    /\ exposed \subseteq exposed'
    /\ \A k \in Keys : coming[k] \subseteq coming'[k]
    /\ UNCHANGED <<base, shown>>

\* Calls go on or end: readers see a key change by its writes only.
Proceed ==
    /\ \A k \in Keys :
          /\ coming'[k] \subseteq coming[k]
          /\ \/ k \in exposed \/ shown'[k] = shown[k]
             \/ coming[k] # {} /\ shown'[k] \in coming[k] \cup {base[k]}
    /\ UNCHANGED <<base, exposed>>

\* The base gets what readers see of a key that nobody writes.
Publish(k) ==
    /\ k \notin exposed => coming[k] = {} /\ base'[k] = shown[k]
    /\ \A j \in Keys \ {k} : base'[j] = base[j]
    /\ \A j \in Keys \ exposed : shown'[j] = shown[j] /\ coming'[j] = coming[j]
    /\ UNCHANGED exposed

Next == Begin \/ Proceed \/ \E k \in Keys : Publish(k)

Spec == Init /\ [][Next]_<<base, shown, coming, exposed>>
=============================================================================
