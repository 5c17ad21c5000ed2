----------------------------- MODULE MCRunStore -----------------------------
(* One `tmx run` and two `tmx runs` on a store with an old run.  The writer  *)
(* drives an unrecorded run 3 (a flow provider's deploy run) and then run 4, *)
(* whose record it saves.                                                    *)
EXTENDS RunStore, TLC

CONSTANTS w1, k1, k2

MCOldRuns == {1}
MCWriters == {w1}
MCKeepers == {k1, k2}
MCPlan == [w \in {w1} |-> <<3, 4>>]
MCKept == {4}
MCSizes == {1, 2}
MCCutoffs == {2, 5}

\* The two commands that prune, remove or query are alike.
Symmetry == Permutations({k1, k2})
=============================================================================
