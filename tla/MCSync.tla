------------------------------- MODULE MCSync -------------------------------
(* Two keys and two values; `nested' differs from `plain' in a nested field *)
(* only, which stableHash leaves out.                                       *)
EXTENDS Sync, TLC

CONSTANTS k1, k2, plain, nested, other

MCKeys == {k1, k2}
MCValues == {plain, other}
MCNested == {plain, nested}
MCHash == (plain :> "h1") @@ (nested :> "h1") @@ (other :> "h2")

Option(mode, resolution, detect, overwrite, skipUnchanged) ==
    [mode |-> mode, resolution |-> resolution, detect |-> detect,
     overwrite |-> overwrite, skipUnchanged |-> skipUnchanged]

ThreeWay(resolution) == Option("sync", resolution, TRUE, TRUE, FALSE)

MCOptions ==
    {ThreeWay("skip"), ThreeWay("source"), ThreeWay("callback"),
     Option("sync", "target", FALSE, TRUE, FALSE),
     Option("push", "skip", TRUE, TRUE, TRUE),
     Option("pull", "skip", TRUE, FALSE, FALSE),
     Option("merge", "skip", TRUE, TRUE, FALSE)}

\* The target is a copy of the source, or new.
MCStarts == {[Nothing EXCEPT !["source"] = s] : s \in [MCKeys -> Content]} \cup
            {[side \in Sides |-> s] : s \in [MCKeys -> Content]}

KeySymmetry == Permutations(MCKeys)
MCSkip == {ThreeWay("skip")}
MCPush == {Option("push", "skip", TRUE, TRUE, TRUE)}
=============================================================================
