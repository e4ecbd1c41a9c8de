----------------------------- MODULE MCOverlay -----------------------------
(* Three calls of any operations on two keys.  k1 begins in any state;    *)
(* the base has no k2 at first.                                           *)
EXTENDS Overlay, TLC

CONSTANTS t1, t2, t3, k1, k2, v1, v2

MCTasks == {t1, t2, t3}
MCKeys == {k1, k2}
MCValues == {v1, v2}
Symmetry == Permutations(MCTasks) \cup Permutations(MCValues)

MCInit == Init /\ base[k2] = None
MCSpec == MCInit /\ [][Next]_vars
=============================================================================
