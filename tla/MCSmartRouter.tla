--------------------------- MODULE MCSmartRouter ---------------------------
(* Two keys in different adapters; sets of the flat one go to either.     *)
EXTENDS SmartRouter, TLC

CONSTANTS c1, c2, k1, k2, a1, a2

MCCalls == {c1, c2}
MCKeys == {k1, k2}
MCFlatKeys == {k1}
MCAdapters == {a1, a2}
MCAdapterSeq == <<a1, a2>>
MCHome == (k1 :> a1) @@ (k2 :> a2)
MCRoutes == (k1 :> MCAdapters) @@ (k2 :> {a2})
MCStarts == [keys : {{}, {k1}}, schema : {FALSE}, home : {MCHome}]
            \cup [keys : {{k2}, MCKeys}, schema : {TRUE}, home : {MCHome}]
MCFresh == [keys : {{}}, schema : {FALSE}, home : {MCHome}]
CallSymmetry == Permutations(MCCalls)
=============================================================================
